----------------------------- MODULE ChainTyping -----------------------------
(* The operations on the chain keep its types, for every choice of the       *)
(* constants and whatever they are composed with: the kernel as well as the  *)
(* headless host rest on these lemmas.  One lemma for each component says    *)
(* that its steps keep the types of the chain, and where its processes       *)
(* remember something, the types of that.  At the end, that a respawner      *)
(* leaves a run that has ended as it is.                                     *)
EXTENDS Handoff, Respawn, Recovery, TLAPS

USE RootAssumption, BoundAssumption DEF Optional, States, Phases, Recoveries, Takeovers

(* Every way a step changes a row of the chain gives a row.                  *)
LEMMA RowUpdates ==
  ASSUME NEW row \in SessionRow, NEW c \in Optional
  PROVE  /\ [row EXCEPT !.started = TRUE] \in SessionRow
         /\ \A o \in {"took_over", "failed_launch"} : [row EXCEPT !.outcome = o] \in SessionRow
         /\ \A x \in {"bound", "closed"} : [row EXCEPT !.scope = x] \in SessionRow
         /\ [row EXCEPT !.succ = c, !.retired = TRUE] \in SessionRow
         /\ [row EXCEPT !.succ = None, !.retired = FALSE] \in SessionRow
  BY DEF SessionRow

(* A chain in which each row is a row is a chain.                            *)
LEMMA ChainUpdate ==
  ASSUME TypeOK, NEW s \in Session, NEW row \in SessionRow
  PROVE  /\ sess[s] \in SessionRow
         /\ [sess EXCEPT ![s] = row] \in [Session -> SessionRow]
  BY DEF TypeOK

LEMMA OwnerTyped == TypeOK => Owner \in Session /\ lease.child \in Optional
  BY DEF TypeOK, Lease, Owner

LEMMA ChainInitTyped == ChainInit => TypeOK
<1> SUFFICES ASSUME ChainInit PROVE TypeOK
  OBVIOUS
<1>1. lease \in Lease
  BY DEF ChainInit, Lease
<1>2. sess \in [Session -> SessionRow]
  BY DEF ChainInit, SessionRow, NoSession
<1> QED
  BY <1>1, <1>2 DEF ChainInit, TypeOK, PauseReasons, WorkStates

-----------------------------------------------------------------------------
(* Lease: the acquisitions write every part of the chain, the other          *)
(* operations one or two of them.                                            *)
LEMMA AcquireTyped == ASSUME TypeOK, NEW o \in Session,
                             AcquireTakeover(o) \/ AcquireRecovered(o)
                      PROVE  TypeOK'
<1>1. CASE AcquireTakeover(o)
  <2>1. lease' \in Lease
    BY <1>1 DEF TypeOK, AcquireTakeover, Lease
  <2>2. sess' \in [Session -> SessionRow]
    <3>1. \A s \in Session : sess[s] \in SessionRow
      BY DEF TypeOK
    <3> QED
      BY <1>1, <3>1, RowUpdates DEF AcquireTakeover
  <2> QED
    BY <1>1, <2>1, <2>2 DEF TypeOK, AcquireTakeover, Write, PauseReasons
<1>2. CASE AcquireRecovered(o)
  <2>1. lease' \in Lease
    BY <1>2 DEF TypeOK, AcquireRecovered, RecoveredLease, Lease
  <2>2. sess' \in [Session -> SessionRow]
    <3>1. sess[o] \in SessionRow
      BY DEF TypeOK
    <3>2. [sess[o] EXCEPT !.started = TRUE] \in SessionRow
      BY <3>1, RowUpdates
    <3>3. sess' = [sess EXCEPT ![o] = [sess[o] EXCEPT !.started = TRUE]]
      BY <1>2 DEF AcquireRecovered
    <3> QED
      BY <3>2, <3>3 DEF TypeOK
  <2> QED
    BY <1>2, <2>1, <2>2 DEF TypeOK, AcquireRecovered, Write, PauseReasons
<1> QED
  BY <1>1, <1>2

LEMMA LeaseWritesTyped ==
  ASSUME TypeOK, NEW reason \in PauseReasons,
         ReleaseLease \/ Expire \/ PausePreserve(reason) \/ PauseRollback(reason)
  PROVE  TypeOK'
<1>1. CASE ReleaseLease
  BY <1>1 DEF TypeOK, ReleaseLease, Lease, Write
<1>2. CASE Expire
  BY <1>2 DEF TypeOK, Expire, Lease
<1>3. CASE PausePreserve(reason)
  BY <1>3 DEF TypeOK, PausePreserve, Lease, Write
<1>4. CASE PauseRollback(reason)
  BY <1>4 DEF TypeOK, PauseRollback, Lease, Write
<1> QED
  BY <1>1, <1>2, <1>3, <1>4

LEMMA WorkTyped ==
  ASSUME TypeOK, NEW proof \in WorkStates,
         BindScope \/ CloseScope(proof) \/ BusinessWrite(proof)
  PROVE  TypeOK'
<1>1. CASE BindScope
  <2>1. sess' \in [Session -> SessionRow]
    <3>1. Owner \in Session /\ sess[Owner] \in SessionRow
      BY OwnerTyped DEF TypeOK
    <3>2. [sess[Owner] EXCEPT !.scope = "bound"] \in SessionRow
      BY <3>1, RowUpdates
    <3>3. sess' = [sess EXCEPT ![Owner] = [sess[Owner] EXCEPT !.scope = "bound"]]
      BY <1>1 DEF BindScope
    <3> QED
      BY <3>1, <3>2, <3>3 DEF TypeOK
  <2> QED
    BY <1>1, <2>1 DEF TypeOK, BindScope, Write, WorkStates
<1>2. CASE CloseScope(proof)
  <2>1. sess' \in [Session -> SessionRow]
    <3>1. Owner \in Session /\ sess[Owner] \in SessionRow
      BY OwnerTyped DEF TypeOK
    <3>2. [sess[Owner] EXCEPT !.scope = "closed"] \in SessionRow
      BY <3>1, RowUpdates
    <3>3. sess' = [sess EXCEPT ![Owner] = [sess[Owner] EXCEPT !.scope = "closed"]]
      BY <1>2 DEF CloseScope
    <3> QED
      BY <3>1, <3>2, <3>3 DEF TypeOK
  <2> QED
    BY <1>2, <2>1 DEF TypeOK, CloseScope, Write
<1>3. CASE BusinessWrite(proof)
  BY <1>3 DEF TypeOK, BusinessWrite, Write
<1> QED
  BY <1>1, <1>2, <1>3

LEMMA LeaseNextTyped == TypeOK /\ LeaseNext => TypeOK'
<1> SUFFICES ASSUME TypeOK, LeaseNext PROVE TypeOK'
  OBVIOUS
<1>1. "other" \in PauseReasons /\ "completed" \in {"completed", "stopped"} /\ "open" \in WorkStates
  BY DEF PauseReasons, WorkStates
<1>2. CASE \E o \in Session : AcquireTakeover(o) \/ AcquireRecovered(o)
  BY <1>2, AcquireTyped
<1>3. CASE ReleaseLease \/ Expire
  BY <1>1, <1>3, LeaseWritesTyped
<1>4. CASE \E reason \in PauseReasons \ {"none"} : PausePreserve(reason) \/ PauseRollback(reason)
  BY <1>4, LeaseWritesTyped
<1>5. CASE \E final \in {"completed", "stopped"} : FinishRun(final)
  BY <1>5 DEF TypeOK, FinishRun, Write
<1>6. CASE ExhaustBudget \/ TripBreaker \/ ExtendBudget \/ ResetBreaker
  BY <1>6 DEF TypeOK, ExhaustBudget, TripBreaker, ExtendBudget, ResetBreaker, Write,
              PauseReasons
<1>7. CASE \E limit \in Blockers : MeetLimit(limit)
  BY <1>7 DEF TypeOK, MeetLimit
<1>8. CASE BindScope \/ \E proof \in WorkStates : CloseScope(proof) \/ BusinessWrite(proof)
  BY <1>1, <1>8, WorkTyped
<1> QED
  BY <1>2, <1>3, <1>4, <1>5, <1>6, <1>7, <1>8 DEF LeaseNext

-----------------------------------------------------------------------------
(* Recovery: each publication writes three rows at most.                     *)
LEMMA SupersedeTyped ==
  ASSUME TypeOK, NEW child \in Session, SupersedeAffinity(child)
  PROVE  TypeOK'
<1>1. lease' \in Lease
  BY DEF TypeOK, SupersedeAffinity, RecoveryLease, Lease
<1>2. sess' \in [Session -> SessionRow]
  <2> DEFINE retired == [sess[Owner] EXCEPT !.retired = TRUE, !.succ = child]
             new     == Replacement("affinity-supersession", Owner, "bound")
  <2>1. Owner \in Session /\ sess[Owner] \in SessionRow
    BY OwnerTyped DEF TypeOK
  <2>2. retired \in SessionRow
    BY <2>1 DEF SessionRow
  <2>3. new \in SessionRow
    BY <2>1 DEF Replacement, NoSession, SessionRow
  <2>4. sess' = [[sess EXCEPT ![Owner] = retired] EXCEPT ![child] = new]
    BY <2>1 DEF SupersedeAffinity, TypeOK
  <2> HIDE DEF retired, new
  <2> QED
    BY <2>2, <2>3, <2>4 DEF TypeOK
<1> QED
  BY <1>1, <1>2 DEF TypeOK, SupersedeAffinity, Write

(* The three sources agree that the sessions they name exist.                *)
LEMMA SourceTyped ==
  ASSUME TypeOK, BoundaryRecoverable
  PROVE  StaleSession \in Session /\ StaleParent \in Session
<1>1. CASE ReservedSource
  BY <1>1 DEF TypeOK, Lease, ReservedSource, StaleSession, StaleParent, Owner
<1>2. CASE EmittedSource
  BY <1>2 DEF TypeOK, Lease, EmittedSource, StaleSession, StaleParent, Owner, HasRow
<1>3. CASE AcquiredSource
  <2>1. Owner \in Session /\ sess[Owner] \in SessionRow
    BY OwnerTyped DEF TypeOK
  <2>2. sess[Owner].parent \in Session
    BY <1>3, <2>1 DEF AcquiredSource, ClosedScope, HasRow, SessionRow
  <2> QED
    BY <1>3, <2>1, <2>2 DEF AcquiredSource, StaleSession, StaleParent
<1> QED
  BY <1>1, <1>2, <1>3 DEF BoundaryRecoverable

LEMMA RecoverTyped ==
  ASSUME TypeOK, NEW replacement \in Session, RecoverBoundary(replacement)
  PROVE  TypeOK'
<1>1. StaleSession \in Session /\ StaleParent \in Session
  BY SourceTyped DEF RecoverBoundary
<1>2. lease' \in Lease
  BY <1>1 DEF TypeOK, RecoverBoundary, RecoveryLease, Lease
<1>3. sess' \in [Session -> SessionRow]
  <2> DEFINE stale  == StaleSession
             parent == StaleParent
             row1   == Abandoned([sess[stale] EXCEPT !.parent = parent], replacement)
             chain1 == [sess EXCEPT ![stale] = row1]
             row2   == [chain1[parent] EXCEPT !.succ = stale, !.retired = TRUE]
             chain2 == [chain1 EXCEPT ![parent] = row2]
             new    == Replacement("boundary-recovery", stale, "unbound")
  <2> HIDE DEF stale, parent
  <2>1. stale \in Session /\ parent \in Session /\ sess[stale] \in SessionRow
    BY <1>1 DEF TypeOK, stale, parent
  <2>2. row1 \in SessionRow
    BY <2>1 DEF SessionRow, Abandoned
  <2> HIDE DEF row1
  <2>3. chain1 \in [Session -> SessionRow]
    BY <2>2 DEF TypeOK
  <2> HIDE DEF chain1
  <2>4. chain1[parent] \in SessionRow
    BY <2>1, <2>3
  <2>5. row2 \in SessionRow
    BY <2>1, <2>4 DEF SessionRow
  <2>6. chain2 \in [Session -> SessionRow]
    BY <2>3, <2>5
  <2>7. new \in SessionRow
    BY <2>1 DEF Replacement, NoSession, SessionRow
  <2>8. sess' = [chain2 EXCEPT ![replacement] = new]
    BY <2>1 DEF RecoverBoundary, stale, parent, row1, chain1
  <2> HIDE DEF chain2, new
  <2> QED
    BY <2>6, <2>7, <2>8
<1> QED
  BY <1>2, <1>3 DEF TypeOK, RecoverBoundary, Write, PauseReasons

LEMMA AffinityTyped ==
  ASSUME TypeOK, NEW o \in Session, AcquireAffinity(o)
  PROVE  TypeOK'
<1>1. lease' \in Lease
  BY DEF TypeOK, AcquireAffinity, RecoveredLease, Lease
<1>2. sess' \in [Session -> SessionRow]
  <2> DEFINE first  == [sess[o] EXCEPT !.started = TRUE]
             chain1 == [sess EXCEPT ![o] = first]
             pred   == sess[o].from
  <2>1. sess[o] \in SessionRow
    BY DEF TypeOK
  <2>2. pred \in Session
    BY <2>1 DEF AcquireAffinity, MayAcquireAffinity, RecoveryReserved, HasRow, SessionRow
  <2>3. first \in SessionRow
    BY <2>1, RowUpdates
  <2>4. chain1 \in [Session -> SessionRow]
    BY <2>3 DEF TypeOK
  <2>5. [chain1[pred] EXCEPT !.outcome = "took_over"] \in SessionRow
    BY <2>2, <2>4, RowUpdates
  <2>6. sess' = [chain1 EXCEPT ![pred] = [chain1[pred] EXCEPT !.outcome = "took_over"]]
    BY <2>2 DEF AcquireAffinity
  <2> HIDE DEF chain1, pred
  <2> QED
    BY <2>4, <2>5, <2>6
<1> QED
  BY <1>1, <1>2 DEF TypeOK, AcquireAffinity, Write, PauseReasons

LEMMA RecoveryNextTyped == TypeOK /\ RecoveryNext => TypeOK'
  BY SupersedeTyped, RecoverTyped, AffinityTyped DEF RecoveryNext

-----------------------------------------------------------------------------
(* Handoff                                                                   *)
LEMMA EmitterUpdates ==
  ASSUME HandoffTypeOK, NEW e \in Emitter
  PROVE  /\ emit[e] \in EmitterState
         /\ \A l \in EmitterPc : EmitGoto(e, l) => HandoffTypeOK'
         /\ StopEmit(e) => HandoffTypeOK'
  BY DEF HandoffTypeOK, EmitGoto, StopEmit, EmitterState, EmitterPc, EmitterIdle

LEMMA ReserveTyped ==
  ASSUME TypeOK, HandoffTypeOK, NEW e \in Emitter, NEW child \in Session, Reserve(e, child)
  PROVE  TypeOK' /\ HandoffTypeOK'
<1>1. lease' \in Lease
  BY DEF TypeOK, Reserve, Lease
<1>2. HandoffTypeOK'
  BY ZenonT(60) DEF HandoffTypeOK, Reserve, EmitterState, EmitterPc
<1> QED
  BY <1>1, <1>2 DEF TypeOK, Reserve, Write

LEMMA CommitTyped ==
  ASSUME TypeOK, HandoffTypeOK, NEW e \in Emitter, CommitEmit(e)
  PROVE  TypeOK' /\ HandoffTypeOK'
<1> DEFINE child == emit[e].child
           owner == emit[e].owner
<1>1. child \in Optional /\ owner \in Session
  BY EmitterUpdates DEF EmitterState
<1>2. lease' \in Lease
  BY DEF TypeOK, CommitEmit, Lease
<1>3. sess' \in [Session -> SessionRow]
  <2> DEFINE chain1 == [sess EXCEPT ![child] = ChildRow(owner)]
             row    == [chain1[owner] EXCEPT !.succ = child, !.retired = TRUE]
  <2>1. ChildRow(owner) \in SessionRow
    BY <1>1 DEF ChildRow, NoSession, SessionRow
  <2>2. chain1 \in [Session -> SessionRow]
    BY <1>1, <2>1 DEF TypeOK
  <2>3. row \in SessionRow
    BY <1>1, <2>2, RowUpdates
  <2>4. sess' = [chain1 EXCEPT ![owner] = row]
    BY <1>1 DEF CommitEmit
  <2> HIDE DEF chain1, row, owner
  <2> QED
    BY <2>2, <2>3, <2>4
<1> QED
  BY <1>2, <1>3, EmitterUpdates DEF TypeOK, CommitEmit, Write

LEMMA UndoTyped ==
  ASSUME TypeOK, HandoffTypeOK, NEW e \in Emitter, UndoReserve(e)
  PROVE  TypeOK' /\ HandoffTypeOK'
<1>1. lease' \in Lease
  BY DEF TypeOK, UndoReserve, Lease
<1> QED
  BY <1>1, EmitterUpdates DEF TypeOK, UndoReserve, Write

(* The other steps of an emitter leave the chain alone, except for the mark  *)
(* of a fresh snapshot.                                                      *)
LEMMA EmitterTyped ==
  ASSUME TypeOK, HandoffTypeOK, NEW e \in Emitter,
         \/ StartEmit(e) \/ JoinReservation(e) \/ RefuseReserve(e) \/ Snapshot(e)
         \/ AlreadyEmitted(e) \/ FailCommit(e) \/ GiveUpUndo(e) \/ CrashEmit(e)
  PROVE  TypeOK' /\ HandoffTypeOK'
<1>1. CASE StartEmit(e)
  <2>1. HandoffTypeOK'
    BY <1>1 DEF StartEmit, HandoffTypeOK, EmitterState, EmitterPc, TypeOK, Lease
  <2> QED
    BY <1>1, <2>1 DEF StartEmit, chainVars, TypeOK
<1>2. CASE JoinReservation(e)
  <2>1. lease.child \in Optional /\ emit[e] \in EmitterState
    BY DEF TypeOK, Lease, HandoffTypeOK
  <2>2. [emit[e] EXCEPT !.pc = "joined", !.child = lease.child] \in EmitterState
    BY <2>1 DEF EmitterState, EmitterPc
  <2>3. emit' = [emit EXCEPT ![e] = [emit[e] EXCEPT !.pc = "joined", !.child = lease.child]]
    BY <1>2 DEF JoinReservation, HandoffTypeOK
  <2>4. HandoffTypeOK'
    BY <2>2, <2>3 DEF HandoffTypeOK
  <2> QED
    BY <1>2, <2>4 DEF JoinReservation, chainVars, TypeOK
<1>3. CASE Snapshot(e)
  BY <1>3, EmitterUpdates DEF Snapshot, TypeOK, EmitterPc
<1>4. CASE RefuseReserve(e) \/ AlreadyEmitted(e) \/ GiveUpUndo(e) \/ CrashEmit(e)
  BY <1>4, EmitterUpdates DEF RefuseReserve, AlreadyEmitted, GiveUpUndo, CrashEmit,
                              chainVars, TypeOK
<1>5. CASE FailCommit(e)
  BY <1>5, EmitterUpdates DEF FailCommit, chainVars, TypeOK, EmitterPc
<1> QED
  BY <1>1, <1>2, <1>3, <1>4, <1>5

LEMMA HandoffNextTyped ==
  TypeOK /\ HandoffTypeOK /\ HandoffNext => TypeOK' /\ HandoffTypeOK'
  BY ReserveTyped, CommitTyped, UndoTyped, EmitterTyped DEF HandoffNext, EmitStep

-----------------------------------------------------------------------------
(* Respawn                                                                   *)
LEMMA SpawnUpdates ==
  ASSUME RespawnTypeOK, NEW r \in Respawner, UNCHANGED launches
  PROVE  /\ resp[r] \in SpawnState
         /\ \A l \in SpawnPc : SpawnGoto(r, l) => RespawnTypeOK'
         /\ \A why \in PauseReasons : RollbackFor(r, why) => RespawnTypeOK'
         /\ StopRespawn(r) => RespawnTypeOK'
<1>1. resp[r] \in SpawnState
  BY DEF RespawnTypeOK
<1>2. \A l \in SpawnPc : SpawnGoto(r, l) => RespawnTypeOK'
  BY DEF RespawnTypeOK, SpawnGoto, SpawnState
<1>3. \A why \in PauseReasons : RollbackFor(r, why) => RespawnTypeOK'
  <2> SUFFICES ASSUME NEW why \in PauseReasons, RollbackFor(r, why) PROVE RespawnTypeOK'
    OBVIOUS
  <2> DEFINE row == [resp[r] EXCEPT !.pc = "rollback", !.reason = why]
  <2>1. row \in SpawnState
    BY <1>1 DEF SpawnState, SpawnPc
  <2>2. resp' = [resp EXCEPT ![r] = row]
    BY DEF RollbackFor
  <2> HIDE DEF row
  <2> QED
    BY <2>1, <2>2 DEF RespawnTypeOK
<1>4. StopRespawn(r) => RespawnTypeOK'
  <2>1. SpawnIdle \in SpawnState
    BY DEF SpawnIdle, SpawnState, SpawnPc, PauseReasons
  <2> QED
    BY <2>1 DEF RespawnTypeOK, StopRespawn
<1> QED
  BY <1>1, <1>2, <1>3, <1>4

LEMMA StartRespawnTyped ==
  ASSUME TypeOK, RespawnTypeOK, NEW r \in Respawner, NEW visible \in BOOLEAN,
         StartRespawn(r, visible)
  PROVE  TypeOK' /\ RespawnTypeOK'
<1>1. \A l \in SpawnPc, why \in PauseReasons :
        Remember(r, l, visible, why) /\ UNCHANGED launches => RespawnTypeOK'
  BY DEF Remember, RespawnTypeOK, SpawnState, TypeOK, Lease
<1>2. \E l \in SpawnPc, why \in PauseReasons : Remember(r, l, visible, why)
  BY DEF StartRespawn, SpawnPc, PauseReasons, GateReason
<1> QED
  BY <1>1, <1>2 DEF StartRespawn, chainVars, TypeOK

(* The steps that write the run: the claim, the two undoings, the pause.     *)
LEMMA UndoneTyped ==
  ASSUME TypeOK, NEW child \in Optional
  PROVE  Invalidated(child) \in [Session -> SessionRow] /\ ReturnedLease \in Lease
<1>1. \A s \in Session : sess[s] \in SessionRow
  BY DEF TypeOK
<1>2. Invalidated(child) \in [Session -> SessionRow]
  BY <1>1, RowUpdates DEF Invalidated
<1>3. ReturnedLease \in Lease
  BY DEF TypeOK, ReturnedLease, Lease
<1> QED
  BY <1>2, <1>3

LEMMA SpawnWritesTyped ==
  ASSUME TypeOK, RespawnTypeOK, NEW r \in Respawner,
         ClaimSpawn(r) \/ RollbackAndPause(r) \/ CancelForFinish(r) \/ PreservePause(r)
           \/ RecordSpawned(r)
  PROVE  TypeOK' /\ RespawnTypeOK'
<1>1. resp[r].child \in Optional /\ resp[r].reason \in PauseReasons
  BY DEF RespawnTypeOK, SpawnState
<1>2. CASE ClaimSpawn(r)
  <2>1. lease' \in Lease
    BY <1>2 DEF ClaimSpawn, TypeOK, Lease
  <2> QED
    BY <1>2, <2>1, SpawnUpdates DEF ClaimSpawn, TypeOK, Write, SpawnPc
<1>3. CASE RollbackAndPause(r)
  BY <1>1, <1>3, UndoneTyped, SpawnUpdates DEF RollbackAndPause, TypeOK, Write, chainVars
<1>4. CASE CancelForFinish(r)
  BY <1>1, <1>4, UndoneTyped, SpawnUpdates DEF CancelForFinish, TypeOK, Write, chainVars
<1>5. CASE PreservePause(r)
  <2>1. [lease EXCEPT !.expires = "none"] \in Lease
    BY DEF TypeOK, Lease
  <2> QED
    BY <1>5, <2>1, SpawnUpdates DEF PreservePause, TypeOK, Write, chainVars, PauseReasons
<1>6. CASE RecordSpawned(r)
  BY <1>6, SpawnUpdates DEF RecordSpawned, TypeOK, Write, SpawnPc
<1> QED
  BY <1>2, <1>3, <1>4, <1>5, <1>6

(* The other steps of a respawner leave the chain alone.                     *)
LEMMA SpawnerTyped ==
  ASSUME TypeOK, RespawnTypeOK, NEW r \in Respawner,
         \/ ClaimUnauthorized(r) \/ ClaimFinish(r) \/ ClaimBlocked(r) \/ ClaimRefused(r)
         \/ Launch(r) \/ LaunchFails(r) \/ \E ok \in BOOLEAN : LaunchReturns(r, ok)
         \/ StopWaiting(r) \/ WaitTimeout(r) \/ CrashRespawn(r)
  PROVE  TypeOK' /\ RespawnTypeOK'
<1>1. UNCHANGED chainVars => TypeOK'
  BY DEF chainVars, TypeOK
<1>2. CASE Launch(r)
  <2>1. launches' \in [Session -> 0..2]
    <3>1. \A s \in Session : (IF launches[s] = 2 THEN 2 ELSE launches[s] + 1) \in 0..2
      BY DEF RespawnTypeOK
    <3> QED
      BY <1>2, <3>1 DEF Launch, RespawnTypeOK
  <2>2. resp' \in [Respawner -> SpawnState]
    BY <1>2 DEF Launch, SpawnGoto, RespawnTypeOK, SpawnState, SpawnPc
  <2> QED
    BY <1>1, <1>2, <2>1, <2>2 DEF Launch, RespawnTypeOK
<1>3. CASE ClaimUnauthorized(r) \/ ClaimFinish(r) \/ WaitTimeout(r)
  BY <1>1, <1>3, SpawnUpdates DEF ClaimUnauthorized, ClaimFinish, WaitTimeout, SpawnPc
<1>4. CASE ClaimBlocked(r) \/ LaunchFails(r)
  BY <1>1, <1>4, SpawnUpdates DEF ClaimBlocked, LaunchFails, PauseReasons
<1>5. CASE \E ok \in BOOLEAN : LaunchReturns(r, ok)
  BY <1>1, <1>5, SpawnUpdates DEF LaunchReturns, PauseReasons, SpawnPc
<1>6. CASE ClaimRefused(r) \/ StopWaiting(r) \/ CrashRespawn(r)
  BY <1>1, <1>6, SpawnUpdates DEF ClaimRefused, StopWaiting, CrashRespawn
<1> QED
  BY <1>2, <1>3, <1>4, <1>5, <1>6

LEMMA RespawnNextTyped ==
  TypeOK /\ RespawnTypeOK /\ RespawnNext => TypeOK' /\ RespawnTypeOK'
  BY StartRespawnTyped, SpawnWritesTyped, SpawnerTyped DEF RespawnNext, SpawnStep
-----------------------------------------------------------------------------
(* After the end, a step may still release the lease or pay a cost.          *)
FinalKept == /\ status' = status /\ sess' = sess
             /\ lease'.owner = lease.owner /\ lease'.generation = lease.generation

LEMMA RespawnNextFinal ==
  ASSUME Terminal, RespawnNext
  PROVE  FinalKept
<1>1. PICK r \in Respawner : SpawnStep(r) \/ CrashRespawn(r)
  BY DEF RespawnNext
<1>2. ~(\E visible \in BOOLEAN : StartRespawn(r, visible)) /\ ~ClaimSpawn(r)
  BY DEF StartRespawn, ClaimSpawn, Claimable, Terminal
<1>3. CASE ClaimUnauthorized(r) \/ ClaimFinish(r) \/ ClaimBlocked(r) \/ ClaimRefused(r)
  BY <1>3 DEF ClaimUnauthorized, ClaimFinish, ClaimBlocked, ClaimRefused, chainVars, FinalKept
<1>4. CASE RollbackAndPause(r) \/ CancelForFinish(r) \/ PreservePause(r) \/ RecordSpawned(r)
  BY <1>4 DEF RollbackAndPause, CancelForFinish, PreservePause, RecordSpawned, chainVars, FinalKept
<1>5. CASE Launch(r) \/ LaunchFails(r) \/ \E ok \in BOOLEAN : LaunchReturns(r, ok)
  BY <1>5 DEF Launch, LaunchFails, LaunchReturns, chainVars, FinalKept
<1>6. CASE StopWaiting(r) \/ WaitTimeout(r) \/ CrashRespawn(r)
  BY <1>6 DEF StopWaiting, WaitTimeout, CrashRespawn, chainVars, FinalKept
<1> QED
  BY <1>1, <1>2, <1>3, <1>4, <1>5, <1>6 DEF SpawnStep
=============================================================================
