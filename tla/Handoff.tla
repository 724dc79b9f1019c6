------------------------------ MODULE Handoff ------------------------------
(* `handoff emit' under the workstream-session policy (emitBoundaryHandoff   *)
(* in handoff.mjs, reserveHandoff and rollbackReservedEmit in lease.mjs).    *)
(* An emitter makes four calls that other processes may come between: the    *)
(* fence of the command, the reservation of a child id, the snapshot that    *)
(* the artifacts are built from, and the anchored commit; a call that fails  *)
(* after the reservation is compensated by rollbackReservedEmit.  The commit *)
(* and the artifacts it publishes are one write-ahead transaction, so they   *)
(* are one action here; a crash loses the emitter and nothing else.          *)
EXTENDS Lease

VARIABLE emit   \* [Emitter -> what the emitting process remembers]

EmitterPc    == {"idle", "reserve", "snapshot", "joined", "commit", "undo"}
EmitterState == [pc : EmitterPc, owner : Session,
                 generation : 1..MaxGeneration, child : Optional]
EmitterIdle  == [pc |-> "idle", owner |-> Root, generation |-> 1, child |-> None]

HandoffTypeOK == emit \in [Emitter -> EmitterState]
HandoffInit   == emit = [e \in Emitter |-> EmitterIdle]

StopEmit(e)    == emit' = [emit EXCEPT ![e] = EmitterIdle]
EmitGoto(e, l) == emit' = [emit EXCEPT ![e].pc = l]

Fenced(e) == lease.owner = emit[e].owner /\ lease.generation = emit[e].generation

-----------------------------------------------------------------------------
(* requireLease of the command and the first read of emitBoundaryHandoff; a  *)
(* handoff that is already emitted is answered idempotently.                 *)
StartEmit(e) ==
  /\ emit[e].pc = "idle"
  /\ LeaseCheck(Owner, lease.generation, "lease")
  /\ lease.phase \notin {"emitted", "spawned"}
  /\ emit' = [emit EXCEPT ![e] = [pc |-> "reserve", owner |-> lease.owner,
                                  generation |-> lease.generation, child |-> None]]
  /\ UNCHANGED chainVars

(* boundaryReservationError: the owner's closed scope is the one handed off, *)
(* and nextAction asks for exactly this handoff.                             *)
BoundaryReservable ==
  /\ ClosedScope(Owner) /\ ~sess[Owner].retired
  /\ NextAction = "handoff"

MayReserve(e) ==
  /\ status = "running" /\ ~RecoveryInFlight
  /\ Fenced(e) /\ BoundaryReservable

(* reserveHandoff.  The idempotency key hashes the owner, the generation and *)
(* the boundary, so it is the same for every reservation of a generation: a  *)
(* second emitter is told of the child that the first one reserved.          *)
Reserve(e, child) ==
  /\ emit[e].pc = "reserve" /\ MayReserve(e)
  /\ lease.phase \in {"idle", "acquired"}
  /\ child \in Session \ minted
  /\ lease' = [lease EXCEPT !.phase = "reserved", !.child = child, !.event = lease.owner]
  /\ minted' = minted \cup {child}
  /\ emit' = [emit EXCEPT ![e].pc = "snapshot", ![e].child = child]
  /\ Write /\ UNCHANGED <<status, pauseReason, blocked, work, sess>>

SameKey == lease.child # None /\ lease.event = lease.owner

JoinReservation(e) ==
  /\ emit[e].pc = "reserve" /\ MayReserve(e)
  /\ lease.phase \notin {"idle", "acquired"} /\ SameKey
  /\ emit' = [emit EXCEPT ![e].pc = "joined", ![e].child = lease.child]
  /\ UNCHANGED chainVars

RefuseReserve(e) ==
  /\ emit[e].pc = "reserve"
  /\ MayReserve(e) => lease.phase \notin {"idle", "acquired"} /\ ~SameKey
  /\ StopEmit(e) /\ UNCHANGED chainVars

(* captureReconciledRunSnapshot, then building the artifacts, which may fail *)
(* (no trusted launcher, an invalid runtime profile).  Only an emitter that  *)
(* joined a reservation looks whether the child is committed already.        *)
Snapshot(e) ==
  /\ emit[e].pc \in {"snapshot", "joined"}
  /\ emit[e].pc = "joined" => ~HasRow(emit[e].child)
  /\ \/ EmitGoto(e, "commit") /\ fresh' = fresh \cup {e}
     \/ EmitGoto(e, "undo") /\ UNCHANGED fresh
  /\ UNCHANGED <<status, pauseReason, blocked, work, lease, sess, minted>>

AlreadyEmitted(e) ==
  /\ emit[e].pc = "joined" /\ HasRow(emit[e].child)
  /\ StopEmit(e) /\ UNCHANGED chainVars

-----------------------------------------------------------------------------
(* assertBoundaryReady and the snapshot hash, on the state read fresh inside *)
(* the lock of the commit.                                                   *)
BoundaryReady(e) ==
  /\ Fenced(e) /\ status = "running"
  /\ lease.phase = "reserved" /\ lease.child = emit[e].child
  /\ ~RecoveryInFlight
  /\ lease.event = emit[e].owner
  /\ BoundaryReservable /\ sess[Owner].succ = None
  /\ e \in fresh

ChildRow(parent) == [NoSession EXCEPT !.row = TRUE, !.parent = parent]

CommitEmit(e) ==
  /\ emit[e].pc = "commit" /\ BoundaryReady(e)
  /\ LET child == emit[e].child
         owner == emit[e].owner
     IN sess' = [sess EXCEPT ![child] = ChildRow(owner),
                             ![owner].succ = child, ![owner].retired = TRUE]
  /\ lease' = [lease EXCEPT !.phase = "emitted", !.state = "releasing",
                            !.expires = "live", !.takeover = "boundary-handoff"]
  /\ StopEmit(e)
  /\ Write /\ UNCHANGED <<status, pauseReason, blocked, work, minted>>

FailCommit(e) ==
  /\ emit[e].pc = "commit" /\ ~BoundaryReady(e)
  /\ EmitGoto(e, "undo") /\ UNCHANGED chainVars

(* rollbackReservedEmit: compensate only a reservation that still is this    *)
(* emitter's own and that never got its child row.                           *)
(* Mutant: a paused run refuses the compensation as it refuses the commit.   *)
MayUndoRunning(e) ==
  /\ status = "running" /\ ~RecoveryInFlight
  /\ ~HasRow(emit[e].child) /\ lease.phase = "reserved"
  /\ Fenced(e) /\ lease.child = emit[e].child

MayUndo(e) ==
  /\ ~RecoveryInFlight
  /\ ~HasRow(emit[e].child) /\ lease.phase = "reserved"
  /\ Fenced(e) /\ lease.child = emit[e].child

UndoReserve(e) ==
  /\ emit[e].pc = "undo" /\ MayUndo(e)
  /\ lease' = [lease EXCEPT !.state = IF Terminal THEN "released" ELSE "active",
                            !.phase = "idle", !.child = None, !.event = None,
                            !.expires = "none", !.takeover = "none"]
  /\ StopEmit(e)
  /\ Write /\ UNCHANGED <<status, pauseReason, blocked, work, sess, minted>>

GiveUpUndo(e) ==
  /\ emit[e].pc = "undo" /\ ~MayUndo(e)
  /\ StopEmit(e) /\ UNCHANGED chainVars

CrashEmit(e) ==
  /\ e \in Crashable /\ emit[e].pc # "idle"
  /\ StopEmit(e) /\ UNCHANGED chainVars

EmitStep(e) ==
  \/ StartEmit(e)
  \/ \E child \in Session : Reserve(e, child)
  \/ JoinReservation(e) \/ RefuseReserve(e)
  \/ Snapshot(e) \/ AlreadyEmitted(e)
  \/ CommitEmit(e) \/ FailCommit(e)
  \/ UndoReserve(e) \/ GiveUpUndo(e)

HandoffNext == \E e \in Emitter : EmitStep(e) \/ CrashEmit(e)
=============================================================================
