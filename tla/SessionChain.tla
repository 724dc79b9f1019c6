---------------------------- MODULE SessionChain ----------------------------
(* The durable state of one deep-loop run that decides who may write to it:  *)
(* the run status, the lease, and the chain of sessions that have held or    *)
(* may yet hold the lease.  It is the part of loop.json that lease.mjs,      *)
(* handoff.mjs, respawn.mjs, recover.mjs and session-scope.mjs share.  Every *)
(* kernel function reads it fresh under the run lock and writes it once, so  *)
(* one function is one action; what interleaves is the calls of different    *)
(* processes, each of which remembers what an earlier call returned.         *)
(*                                                                           *)
(* The continuation policy is `workstream-session', the only one initRun     *)
(* accepts.  A boundary event (the log entry that closed a workstream) is    *)
(* named by the session whose scope it closed: a scope closes at most once.  *)
(* The project root binding never changes here, so its digests are left out; *)
(* its recovery (RootRecovery) gives a row and a pause a reason of its own.  *)
EXTENDS Naturals, FiniteSets

CONSTANTS Session,         \* run ids a session can have
          Root,            \* the session that initRun creates
          None,            \* JavaScript null
          Emitter,         \* processes running `handoff emit'
          Respawner,       \* processes running `respawn'
          Crashable,       \* the emitters and respawners that may be killed
          Blockers,        \* the reasons to stop that the run can meet
          MaxGeneration    \* bound on lease.generation

ASSUME RootAssumption == Root \in Session /\ None \notin Session
ASSUME BoundAssumption == MaxGeneration \in Nat \ {0}
ASSUME CrashAssumption == Crashable \subseteq Emitter \cup Respawner
ASSUME BlockersAssumption == Blockers \subseteq {"budget", "wallclock", "breaker", "policy"}

VARIABLES status,        \* loop.status
          pauseReason,   \* loop.pause_reason, as far as a guard reads it
          blocked,       \* which of Blockers hold now
          work,          \* what finishProofState says of the episodes
          lease,         \* loop.session_chain.lease
          sess,          \* loop.session_chain.sessions
          minted,        \* ids drawn so far: a ulid is never drawn twice
          fresh          \* emitters whose snapshot hash still is loop.json's

chainVars == <<status, pauseReason, blocked, work, lease, sess, minted, fresh>>

-----------------------------------------------------------------------------
States     == {"active", "releasing", "released"}
Phases     == {"idle", "reserved", "emitted", "spawned", "acquired"}
Recoveries == {"affinity-supersession", "boundary-recovery"}
Takeovers  == {"none", "boundary-handoff"} \cup Recoveries
Optional   == Session \cup {None}

Lease == [owner : Session, generation : 1..MaxGeneration, state : States,
          phase : Phases, child : Optional, event : Optional,
          expires : {"none", "live", "expired"}, takeover : Takeovers]

(* A row of sessions.  `scope' folds workstream_id (unbound or bound) and    *)
(* closed_at together with terminal_event, which closeScope sets at once;    *)
(* `retired' is scope.superseded_at.  `parent' stands for parent_run_id and  *)
(* for parent_boundary_event, `from' for recovered_from.                     *)
SessionRow == [row : BOOLEAN, parent : Optional, succ : Optional,
               outcome : {"none", "took_over", "failed_launch", "abandoned_recover",
                          "superseded"},
               started : BOOLEAN, scope : {"unbound", "bound", "closed"},
               retired : BOOLEAN, recovery : {"none"} \cup Recoveries,
               from : Optional]

NoSession == [row |-> FALSE, parent |-> None, succ |-> None, outcome |-> "none",
              started |-> FALSE, scope |-> "unbound", retired |-> FALSE,
              recovery |-> "none", from |-> None]

(* work is "whole" when finishProofState of the run has nothing missing,     *)
(* "scoped" when only scopedRoutingView, which drops the episodes of other   *)
(* workstreams, has nothing missing, and "open" otherwise.                   *)
WorkStates   == {"open", "scoped", "whole"}
PauseReasons == {"none", "budget", "host-session-lost", "other"}

TypeOK == /\ status \in {"running", "paused", "completed", "stopped"}
          /\ pauseReason \in PauseReasons \cup {"project-root-relocated"}
          /\ blocked \subseteq Blockers
          /\ work \in WorkStates
          /\ lease \in Lease
          /\ sess \in [Session -> SessionRow]
          /\ minted \subseteq Session
          /\ fresh \subseteq Emitter

ChainInit ==
  /\ status = "running" /\ pauseReason = "none"
  /\ blocked = {} /\ work = "open"
  /\ lease = [owner |-> Root, generation |-> 1, state |-> "active", phase |-> "idle",
              child |-> None, event |-> None, expires |-> "none", takeover |-> "none"]
  /\ sess = [s \in Session |->
               IF s = Root THEN [NoSession EXCEPT !.row = TRUE, !.started = TRUE]
                           ELSE NoSession]
  /\ minted = {Root} /\ fresh = {}

-----------------------------------------------------------------------------
(* Predicates on the chain that the kernel's guards are made of.             *)
Terminal == status \in {"completed", "stopped"}
Owner    == lease.owner

HasRow(s)      == s # None /\ sess[s].row
IsOpenScope(s) == HasRow(s) /\ sess[s].scope # "closed" /\ ~sess[s].retired
OpenScopes     == {s \in Session : IsOpenScope(s)}
ClosedScope(s) == HasRow(s) /\ sess[s].scope = "closed"
Predecessors(s) == {p \in Session : sess[p].row /\ sess[p].succ = s}

HardBudget    == blocked \cap {"budget", "wallclock"} # {}
SafetyBlocked == HardBudget \/ "breaker" \in blocked

LeaseCheck(owner, generation, intent) ==
  /\ lease.owner = owner /\ lease.generation = generation
  /\ ~Terminal
  /\ lease.state # "released"
  /\ lease.state = "releasing" => intent \in {"lease", "accounting"}
  /\ status = "paused" => intent \in {"accounting", "recover", "resume", "breaker-reset"}

RecoveryInFlight == lease.takeover \in Recoveries

(* boundaryHandoffTopologyError: a committed boundary handoff names a child  *)
(* row and a parent row that name each other and the same closing event.     *)
TopologyOK ==
  lease.takeover = "boundary-handoff" =>
    /\ HasRow(lease.child)
    /\ sess[lease.child].scope = "unbound" /\ ~sess[lease.child].retired
    /\ LET parent == sess[lease.child].parent
       IN  /\ ClosedScope(parent) /\ sess[parent].retired
           /\ sess[parent].succ = lease.child
           /\ lease.event = parent

(* What nextAction recommends, as far as the handoff path asks: the global   *)
(* gates, then the closed boundary of the owner unless its successor is      *)
(* already linked, then whether the routing view would finish.               *)
BoundaryLinked(s) == HasRow(sess[s].succ) /\ sess[sess[s].succ].parent = s

NextAction ==
  CASE ~HasRow(Owner)         -> "session-scope-mismatch"
    [] HardBudget             -> "budget"
    [] "breaker" \in blocked  -> "breaker"
    [] OTHER -> IF ClosedScope(Owner) /\ ~sess[Owner].retired /\ ~BoundaryLinked(Owner)
                THEN IF work = "whole" THEN "finish" ELSE "handoff"
                ELSE IF work = "open" THEN "route" ELSE "finish"

(* recoveryReservationKind: the reservation that recovery leaves behind is   *)
(* whole, so the replacement it names may still take the lease.              *)
RecoveryReserved(kind) ==
  /\ status = "paused" /\ lease.state = "released" /\ lease.phase = "reserved"
  /\ lease.takeover = kind /\ lease.expires = "none"
  /\ HasRow(Owner) /\ HasRow(lease.child)
  /\ LET child == lease.child
         pred  == sess[child].from
     IN  /\ sess[child].recovery = kind /\ ~sess[child].started
         /\ sess[child].outcome = "none" /\ sess[child].succ = None
         /\ OpenScopes = {child}
         /\ pred # child /\ HasRow(pred) /\ Predecessors(child) = {pred}
         /\ sess[pred].scope # "closed" /\ sess[pred].retired
         /\ kind = "affinity-supersession" =>
              /\ pred = Owner
              /\ sess[child].scope = "bound" /\ sess[pred].scope = "bound"
         /\ kind = "boundary-recovery" =>
              LET parent == sess[pred].parent
              IN  /\ sess[child].scope = "unbound" /\ sess[pred].scope = "unbound"
                  /\ parent \notin {pred, child} /\ ClosedScope(parent)
                  /\ sess[parent].succ = pred /\ sess[parent].retired
                  /\ lease.event = parent
                  /\ sess[pred].outcome = "abandoned_recover"
                  /\ \/ Owner = parent /\ ~sess[pred].started
                     \/ Owner = pred /\ sess[pred].started

AnyRecoveryReserved == \E kind \in Recoveries : RecoveryReserved(kind)
=============================================================================
