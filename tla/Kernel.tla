------------------------------- MODULE Kernel -------------------------------
(* The kernel: every process of a run together.  The owner and the people    *)
(* around it (Lease, Recovery), the emitters (Handoff) and the respawners    *)
(* (Respawn) interleave their calls on one loop.json.                        *)
EXTENDS Handoff, Respawn, Recovery

vars == <<chainVars, emit, resp, launches>>

Init == ChainInit /\ HandoffInit /\ RespawnInit

Next == \/ (LeaseNext \/ RecoveryNext) /\ UNCHANGED <<emit, resp, launches>>
        \/ HandoffNext /\ UNCHANGED <<resp, launches>>
        \/ RespawnNext /\ UNCHANGED emit

Spec == Init /\ [][Next]_vars

(* A process that has begun its command runs on: nothing in it waits for     *)
(* another process but the run lock, which every holder gives back.  Nobody  *)
(* is obliged to begin a command.                                            *)
Continue(e) == emit[e].pc # "idle" /\ EmitStep(e) /\ UNCHANGED <<resp, launches>>
Proceed(r)  == resp[r].pc # "idle" /\ SpawnStep(r) /\ UNCHANGED emit

FairSpec == /\ Spec
            /\ \A e \in Emitter : WF_vars(Continue(e))
            /\ \A r \in Respawner : WF_vars(Proceed(r))

-----------------------------------------------------------------------------
(* Every variable has its type: lease.mjs, state.mjs and schemas/ agree on   *)
(* the values of each field.                                                 *)
KernelTypeOK == TypeOK /\ HandoffTypeOK /\ RespawnTypeOK

Committed == lease.phase \in {"emitted", "spawned"}

(* A handoff that was committed stays whole until it is taken, rolled back   *)
(* or recovered, whatever happens in between (pauses, releases, expiry,      *)
(* other emitters and respawners): the lease is no longer active, it names   *)
(* the event that closed the owner's scope, the child and the owner's row    *)
(* name each other, and the child has neither started nor failed.            *)
(* (commitBoundaryHandoff in handoff.mjs, boundaryHandoffTopologyError.)     *)
HandoffCommitted ==
  lease.state = "releasing" \/ Committed =>
    /\ lease.state # "active" /\ Committed
    /\ lease.takeover = "boundary-handoff" /\ TopologyOK
    /\ lease.event = Owner /\ lease.child # Owner
    /\ ~sess[lease.child].started /\ sess[lease.child].outcome = "none"
    /\ sess[lease.child].recovery = "none"

(* A preserving pause (an operator, a wait that timed out, no launcher)      *)
(* never shuts out the child of the handoff: whenever it comes, acquireLease *)
(* admits it.                                                                *)
PreservedChildCanAcquire ==
  status = "paused" /\ Committed => MayTakeOver(lease.child)

(* However many respawners race, crash and come back, the host of a child is *)
(* started at most once: the claim emitted -> spawned is consumed.           *)
LaunchedOnce == \A s \in Session : launches[s] <= 1

(* The chain is one chain: a session's successor exists, says that it        *)
(* continues or recovers that very session, and is nobody else's successor.  *)
(* (Emission, invalidation, affinity supersession and boundary recovery all  *)
(* rewrite these links.)                                                     *)
LinksAgree ==
  \A p \in Session : sess[p].row /\ sess[p].succ # None =>
    LET c == sess[p].succ
    IN  /\ HasRow(c) /\ p \in {sess[c].parent, sess[c].from}
        /\ Predecessors(c) = {p}

(* What no step may change once finishRun has ended the run: its status, its *)
(* owner and generation, and the record of its sessions.  Late rollbacks,    *)
(* pauses, extensions and acquisitions all meet a terminal check.            *)
TerminalIsFinal ==
  [][Terminal => /\ status' = status /\ sess' = sess
                 /\ lease'.owner = lease.owner
                 /\ lease'.generation = lease.generation]_vars

(* The conjuncts that make the two invariants of the lease inductive: only   *)
(* a committed handoff has a deadline, a reservation names a child, the      *)
(* owner and the reserved child were drawn, and they differ.                 *)
OnlyHandoffExpires == lease.expires # "none" => lease.takeover = "boundary-handoff"
ReservedIsMinted   == /\ lease.owner \in minted
                      /\ lease.phase = "reserved" => lease.child # None
                      /\ lease.child # None => lease.child \in minted \ {lease.owner}

LeaseInv == HandoffCommitted /\ OnlyHandoffExpires /\ ReservedIsMinted

-----------------------------------------------------------------------------
(* The kernel implements the abstract ownership of a run: the lease is held  *)
(* by one session per generation, given up before it is taken, taken only by *)
(* the reserved child, and dead after the end.                               *)
Abstract == INSTANCE Ownership
              WITH holder <- lease.owner, term <- lease.generation,
                   held <- (lease.state = "active"), heir <- lease.child,
                   ended <- Terminal

OwnershipSpec == Abstract!Spec

-----------------------------------------------------------------------------
(* A recovery reservation is left in one way only: its replacement takes the *)
(* lease, in the next generation and with no safety gate closed.             *)
(* (assertNoRecoveryInFlight and the checks of acquireLease.)                *)
RecoveryStands ==
  [][RecoveryInFlight =>
       \/ lease' = lease
       \/ /\ lease'.owner = lease.child /\ lease'.state = "active"
          /\ lease'.generation = lease.generation + 1
          /\ ~SafetyBlocked]_vars

(* At most one session may write in a scope of its own: the reason that      *)
(* reservedOpenScope refuses several open scopes.                            *)
OneOpenScope == Cardinality(OpenScopes) <= 1

(* A person may always abandon the child of a handoff that was paused with   *)
(* its reservation kept: recoverRun's checks of the state hold.              *)
PreservedHandoffIsRecoverable ==
  status = "paused" /\ lease.state = "releasing" => BoundaryRecoverable

-----------------------------------------------------------------------------
(* Liveness.  A reservation never stays behind without the row of its child: *)
(* the emitter commits it or rollbackReservedEmit takes it back, even when   *)
(* the run is paused, finished or handed to another in the meantime.         *)
ReservationResolves ==
  \A c \in Session :
    (lease.phase = "reserved" /\ lease.child = c /\ ~HasRow(c))
      ~> ~(lease.phase = "reserved" /\ lease.child = c /\ ~HasRow(c))

(* A visible launch never leaves the run waiting for ever: the child takes   *)
(* the lease, or the run ends or is paused for a person to look at.          *)
VisibleSpawnSettles ==
  \A r \in Respawner, g \in 1..MaxGeneration :
    (/\ resp[r].pc = "launch" /\ resp[r].visible /\ Holds(r)
     /\ lease.phase = "spawned" /\ lease.generation = g)
      ~> (lease.generation > g \/ status # "running")

=============================================================================
