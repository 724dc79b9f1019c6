----------------------------- MODULE RootRecovery ------------------------------
(* A project that is moved while a run is under way                          *)
(* (project-root-recovery.mjs, project-root.mjs).  The run stores the path   *)
(* of its project; while the stored path does not resolve, every call of the *)
(* session chain is refused, and a person may rebind the run or recover it,  *)
(* by a command that root diagnose returned.  A rebinding opens a new epoch, *)
(* project.binding_generation.  A recovery also retires whoever had an open  *)
(* scope and reserves the lease for a replacement, which takes it by         *)
(* acquireRootRecovery.                                                      *)
(*                                                                           *)
(* While the project is away nothing else writes, so a command's snapshot,   *)
(* its publication and the diagnosis that ends it are one step.  A headless  *)
(* host that still runs only delays the command; its receipts, the review    *)
(* claims that are dropped and the retention of old receipts are left out,   *)
(* and so is the answer "already-rebound", which changes nothing.            *)
EXTENDS Handoff, Recovery

CONSTANTS Place,      \* where the project may be
          Home,       \* where the run was made
          MaxMoves    \* bound

ASSUME PlaceAssumption == Home \in Place
ASSUME MovesAssumption == MaxMoves \in Nat

VARIABLES at,        \* where the project is
          root,      \* project.root
          binding,   \* project.binding_generation
          epoch,     \* the binding generation that a reservation or a row was made in
          rooted,    \* the replacements with a root_recovery_operation_id
          orders,    \* the commands that people have been given and may still run
          moves,     \* how often the project was moved, for the bound
          spent      \* history: the commands given before the lease or the root changed hands

rootVars == <<at, root, binding, epoch, rooted, orders, moves>>
vars     == <<chainVars, emit, rootVars, spent>>

RootInit == /\ at = Home /\ root = Home /\ binding = 1
            /\ epoch = [s \in Session |-> 0]
            /\ rooted = {} /\ orders = {} /\ moves = 0

Init == ChainInit /\ HandoffInit /\ RootInit /\ spent = {}

-----------------------------------------------------------------------------
(* classifyProjectRootBinding: a candidate is refused while the stored path  *)
(* resolves.                                                                 *)
Moved == at # root

Move(place) ==
  /\ place # at /\ moves < MaxMoves
  /\ at' = place /\ moves' = moves + 1
  /\ UNCHANGED <<chainVars, emit, root, binding, epoch, rooted, orders>>

(* classifyTopology, in its order.                                           *)
Quiescent == /\ lease.phase = "idle" /\ lease.child = None /\ lease.takeover = "none"
             /\ HasRow(Owner) => sess[Owner].scope = "unbound"

(* Mutant: the phase is looked at before the owner's scope.                  *)
KindByPhase ==
  CASE Terminal                                    -> "none"
    [] ~Terminal /\ RecoveryInFlight               -> lease.takeover
    [] OTHER -> IF \/ lease.phase = "acquired" /\ Owner # Root
                   \/ lease.phase \in {"reserved", "emitted", "spawned"}
                THEN "boundary-recovery"
                ELSE IF OpenAffinity THEN "affinity-supersession"
                ELSE IF Quiescent THEN "none" ELSE "wait"

Kind ==
  CASE Terminal                                    -> "none"
    [] ~Terminal /\ RecoveryInFlight               -> lease.takeover
    [] ~Terminal /\ ~RecoveryInFlight /\ OpenAffinity -> "affinity-supersession"
    [] OTHER -> IF \/ lease.phase = "acquired" /\ Owner # Root
                   \/ lease.phase \in {"reserved", "emitted", "spawned"}
                THEN "boundary-recovery"
                ELSE IF Quiescent THEN "none" ELSE "wait"

(* The command of diagnosis, and what assertMutationInput asks of it.        *)
Order == [kind |-> Kind, candidate |-> at, root |-> root, binding |-> binding,
          owner |-> lease.owner, generation |-> lease.generation]

Diagnose ==
  /\ Moved /\ Kind # "wait" /\ Order \notin orders
  /\ orders' = orders \cup {Order}
  /\ UNCHANGED <<chainVars, emit, at, root, binding, epoch, rooted, moves>>

(* Mutant: the owner and the generation are not compared.                    *)
StandsUnfenced(o) == /\ o.candidate = at /\ o.root = root /\ o.binding = binding
                     /\ (o.kind = "none") = (Kind = "none")

Stands(o) == /\ o.candidate = at /\ o.root = root /\ o.binding = binding
             /\ o.owner = lease.owner /\ o.generation = lease.generation
             /\ (o.kind = "none") = (Kind = "none")

-----------------------------------------------------------------------------
(* mutateRoot.                                                               *)
Rebound ==
  /\ root' = at /\ binding' = binding + 1
  /\ status' = "paused" /\ pauseReason' = "project-root-relocated"
  /\ Write /\ UNCHANGED <<blocked, work, emit, at, orders, moves>>

Rebind ==
  /\ Kind = "none"
  /\ lease' = [lease EXCEPT !.generation = @ + 1, !.expires = "none"]
  /\ Rebound /\ UNCHANGED <<sess, minted, epoch, rooted>>

(* tombstoneForRelocation and freezeOperation.  recoveryScope takes the      *)
(* workstream over from the session that has it.                             *)
Stale      == IF lease.child # None THEN lease.child ELSE lease.owner
BoundScope == {s \in OpenScopes : sess[s].scope = "bound"}

(* Mutant: only the owner is retired.                                        *)
RetiredOwner(s) == s = Owner /\ IsOpenScope(s)
Retired(s)      == IsOpenScope(s)

Tombstone(row, replacement) ==
  [row EXCEPT !.succ = replacement, !.retired = TRUE,
              !.outcome = IF @ = "none" THEN "superseded" ELSE @]

(* Mutant: the generation is the old one.                                    *)
ReservedLeaseUnfenced(kind, replacement) == RecoveryLease(kind, replacement, None)
ReservedLease(kind, replacement) ==
  [RecoveryLease(kind, replacement, None) EXCEPT !.generation = @ + 1]

Relocate(replacement) ==
  /\ Kind \in Recoveries /\ replacement \in Session \ minted
  /\ Kind = "affinity-supersession" => BoundScope # {}
  /\ LET scope == IF Kind = "affinity-supersession" THEN "bound" ELSE "unbound"
     IN  sess' = [s \in Session |->
                    IF s = replacement THEN Replacement(Kind, Stale, scope)
                    ELSE IF Retired(s) THEN Tombstone(sess[s], replacement) ELSE sess[s]]
  /\ lease' = ReservedLease(Kind, replacement)
  /\ minted' = minted \cup {replacement}
  /\ epoch' = [epoch EXCEPT ![replacement] = binding + 1]
  /\ rooted' = rooted \cup {replacement}
  /\ Rebound

(* executeRelocation.                                                        *)
Execute(o) ==
  /\ Moved /\ Stands(o) /\ lease.generation < MaxGeneration
  /\ Rebind \/ \E replacement \in Session : Relocate(replacement)

-----------------------------------------------------------------------------
(* rootRecoveryReservationKind; Superseded are the relocated predecessors.   *)
Superseded(child) == {s \in Session : /\ HasRow(s) /\ sess[s].succ = child
                                      /\ sess[s].retired /\ sess[s].outcome = "superseded"}

ReservationWhole ==
  LET child == lease.child
  IN  /\ status = "paused" /\ pauseReason = "project-root-relocated"
      /\ lease.state = "released" /\ lease.phase = "reserved"
      /\ lease.takeover \in Recoveries /\ lease.expires = "none"
      /\ HasRow(child) /\ child \in rooted /\ epoch[child] = binding
      /\ sess[child].recovery = lease.takeover
      /\ ~sess[child].started /\ sess[child].outcome = "none" /\ sess[child].succ = None
      /\ OpenScopes = {child}

RootReserved ==
  /\ ReservationWhole /\ HasRow(Owner) /\ Superseded(lease.child) # {}
  /\ HasRow(sess[lease.child].from) => sess[lease.child].from \in Superseded(lease.child)

(* acquireRootRecovery.  It writes the state without an event.  A root       *)
(* reservation that is not whole may still be one of recover.mjs's kind.     *)
AcquireRoot(o) ==
  /\ o = lease.child /\ o \in rooted /\ epoch[o] = binding
  /\ RootReserved \/ AnyRecoveryReserved
  /\ ~SafetyBlocked
  /\ lease.generation < MaxGeneration
  /\ lease' = RecoveredLease(o)
  /\ sess' = [sess EXCEPT ![o].started = TRUE]
  /\ status' = "running" /\ pauseReason' = "none"
  /\ Write /\ UNCHANGED <<blocked, work, minted, emit, rootVars>>

(* extendBudget and resetBreaker beside a reservation leave it as it is.     *)
Relieve ==
  /\ RootReserved /\ SafetyBlocked
  /\ \E gate \in {{"budget", "wallclock"}, {"breaker"}} :
       gate \cap blocked # {} /\ blocked' = blocked \ gate
  /\ Write /\ UNCHANGED <<status, pauseReason, work, lease, sess, minted, emit, rootVars>>

-----------------------------------------------------------------------------
(* The other calls, which ask that the project is where the run says, and    *)
(* that a reservation was made in this epoch.  The capsule of a root         *)
(* recovery is none that acquireLease or acquireRecovery accepts.            *)
Current(s) == s \notin rooted /\ epoch[s] = binding

MayTake == /\ lease.takeover \in Takeovers \ {"none", "affinity-supersession"} => Current(lease.child)
           /\ lease.takeover = "affinity-supersession" => lease.child \notin rooted

OwnerStep ==
  \/ LeaseNext /\ (lease'.owner # lease.owner => MayTake) /\ UNCHANGED <<emit, epoch>>
  \/ \E o \in Session :
       /\ SupersedeAffinity(o) \/ (AcquireAffinity(o) /\ MayTake)
       /\ UNCHANGED <<emit, epoch>>
  \/ \E o \in Session :
       /\ RecoverBoundary(o) /\ Current(StaleSession)
       /\ epoch' = [epoch EXCEPT ![o] = binding] /\ UNCHANGED emit

EmitterStep ==
  \E e \in Emitter :
    \/ \E child \in Session :
         Reserve(e, child) /\ epoch' = [epoch EXCEPT ![child] = binding]
    \/ /\ \/ StartEmit(e) \/ RefuseReserve(e) \/ Snapshot(e) \/ AlreadyEmitted(e)
          \/ FailCommit(e) \/ UndoReserve(e) \/ GiveUpUndo(e) \/ CrashEmit(e)
          \/ (JoinReservation(e) \/ CommitEmit(e)) /\ Current(lease.child)
          \/ /\ emit[e].pc = "reserve" /\ lease.phase = "reserved"
             /\ ~Current(lease.child) /\ StopEmit(e) /\ UNCHANGED chainVars
       /\ UNCHANGED epoch

Ordinary == /\ ~Moved /\ (OwnerStep \/ EmitterStep)
            /\ UNCHANGED <<at, root, binding, rooted, orders, moves>>

(* Every command there is was given before a step that passes the lease on   *)
(* or binds the run to another root.  Only a property reads this.            *)
Spend ==
  spent' = IF lease'.owner # lease.owner \/ root' # root THEN orders ELSE spent

Next == /\ \/ Ordinary
           \/ \E place \in Place : Move(place)
           \/ Diagnose
           \/ \E o \in orders : Execute(o)
           \/ ~Moved /\ \E o \in Session : AcquireRoot(o)
           \/ ~Moved /\ Relieve
        /\ Spend

Spec == Init /\ [][Next]_vars

-----------------------------------------------------------------------------
(* A reservation that recovery made, before or after a move, keeps all that  *)
(* its acquisition will ask for except whom it replaces: it is of the        *)
(* present epoch, and nobody but its child has an open scope.                *)
(* (rootRecoveryReservationKind and recoveryReservationKind.)                *)
ReservationStaysWhole ==
  RecoveryInFlight =>
    IF lease.child \in rooted THEN ReservationWhole ELSE RecoveryReserved(lease.takeover)

(* A workstream that the owner or its heir had open when the project moved   *)
(* is open in a session after the run is bound again, so that its work is    *)
(* not orphaned.                                                             *)
(* (classifyTopology, recoveryScope and tombstoneForRelocation.)             *)
WorkstreamFollows ==
  [][root' # root /\ BoundScope \cap {Owner, lease.child} # {} =>
       \E s \in Session : /\ sess'[s].row /\ sess'[s].scope = "bound"
                          /\ ~sess'[s].retired]_vars

(* A command that was given before the present owner took the lease, or      *)
(* before the run was bound to its present root, is not carried out any      *)
(* more, however often the project has come back and gone to the same place  *)
(* since: an old command does not throw out a session that its caller was    *)
(* never shown, nor is a command carried out twice.  (assertMutationInput.)  *)
SpentCommandsAreRefused ==
  [][\A o \in spent : ~Execute(o)]_vars

(* Across moves, too, the lease is laid down before it is taken, and taken   *)
(* only by the heir.  A rebinding advances the generation once without a     *)
(* new holder; whether the run has ended does not matter here, since a       *)
(* rebinding may reopen it.                                                  *)
Held == INSTANCE Ownership
          WITH holder <- lease.owner, term <- (lease.generation + 1) - binding,
               held <- (lease.state = "active"), heir <- lease.child,
               ended <- FALSE

OwnershipAcrossMoves == Held!Spec

(* "every relocation topology replays every artifact and executes fresh      *)
(* acquisition" (tests/project-root.test.mjs:1790): the replacement that a   *)
(* recovery reserved for an owner that has a row can take the lease.         *)
ReplacementCanAcquire ==
  ~Moved /\ RecoveryInFlight /\ lease.child \in rooted /\ HasRow(Owner)
    => RootReserved \/ AnyRecoveryReserved
=============================================================================
