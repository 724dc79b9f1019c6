---------------------------- MODULE KernelProofs ----------------------------
(* What the kernel promises, for every number of sessions, emitters and      *)
(* respawners.                                                               *)
(*                                                                           *)
(* Of the lease: a committed handoff stays whole, a preserving pause never   *)
(* shuts its child out, the end of a run is final, and every step is a step  *)
(* of Ownership.  The inductive invariant is KernelTypeOK /\ LeaseInv;       *)
(* TerminalIsFinal needs the types only.                                     *)
(*                                                                           *)
(* Of the launches: no two hosts are started for one child.  The counter     *)
(* alone is not inductive: what protects it is that the claim consumes       *)
(* `emitted', so a child that is launched, or about to be, is never again    *)
(* the child of a reserved or emitted handoff, and that one respawner at     *)
(* most stands between the claim and the launch of a child.                  *)
(*                                                                           *)
(* Of the sessions: they form one chain.  Its links are inductive with the   *)
(* fact that a child that is only reserved has no row, so that the commit,   *)
(* and the recovery of the reservation, give it its first and only           *)
(* predecessor.                                                              *)
(*                                                                           *)
(* Of a run that people attend, where nobody undoes a handoff late: one      *)
(* scope is open at most, a paused handoff can be abandoned, and a recovery  *)
(* reservation stands until its replacement takes it.                        *)
EXTENDS Kernel, ChainTyping, FiniteSetTheorems

USE RootAssumption, BoundAssumption DEF Optional, States, Phases, Recoveries, Takeovers

-----------------------------------------------------------------------------
LEMMA InitTyped == Init => KernelTypeOK
<1>1. HandoffInit => HandoffTypeOK
  BY DEF HandoffInit, HandoffTypeOK, EmitterState, EmitterPc, EmitterIdle
<1>2. RespawnInit => RespawnTypeOK
  BY DEF RespawnInit, RespawnTypeOK, SpawnState, SpawnPc, SpawnIdle, PauseReasons
<1> QED
  BY <1>1, <1>2, ChainInitTyped DEF Init, KernelTypeOK

(* Type correctness: whatever the processes do and however they interleave,  *)
(* every field of loop.json that the kernel routes on, and everything its    *)
(* processes remember, keeps its type.                                       *)
THEOREM Typing == Spec => []KernelTypeOK
<1>1. KernelTypeOK /\ [Next]_vars => KernelTypeOK'
  <2> SUFFICES ASSUME KernelTypeOK, [Next]_vars PROVE KernelTypeOK'
    OBVIOUS
  <2>1. CASE (LeaseNext \/ RecoveryNext) /\ UNCHANGED <<emit, resp, launches>>
    BY <2>1, LeaseNextTyped, RecoveryNextTyped DEF KernelTypeOK, HandoffTypeOK, RespawnTypeOK
  <2>2. CASE HandoffNext /\ UNCHANGED <<resp, launches>>
    BY <2>2, HandoffNextTyped DEF KernelTypeOK, RespawnTypeOK
  <2>3. CASE RespawnNext /\ UNCHANGED emit
    BY <2>3, RespawnNextTyped DEF KernelTypeOK, HandoffTypeOK
  <2>4. CASE UNCHANGED vars
    BY <2>4 DEF vars, chainVars, KernelTypeOK, TypeOK, HandoffTypeOK, RespawnTypeOK
  <2> QED
    BY <2>1, <2>2, <2>3, <2>4 DEF Next
<1> QED
  BY <1>1, InitTyped, PTL DEF Spec

-----------------------------------------------------------------------------
(* Two ways a step can keep LeaseInv: it leaves no handoff in flight, or it  *)
(* leaves alone everything that the handoff in flight consists of.           *)
LEMMA NothingInFlight ==
  ASSUME lease'.state # "releasing", lease'.phase \notin {"emitted", "spawned"},
         OnlyHandoffExpires', ReservedIsMinted'
  PROVE  LeaseInv'
  BY DEF LeaseInv, HandoffCommitted, Committed

LEMMA HandoffUntouched ==
  ASSUME LeaseInv, UNCHANGED <<sess, minted>>,
         lease'.owner = lease.owner, lease'.child = lease.child,
         lease'.event = lease.event, lease'.takeover = lease.takeover,
         lease'.expires # "none" => lease.expires # "none",
         lease'.phase = "reserved" => lease.phase = "reserved",
         lease'.state = "releasing" \/ lease'.phase \in {"emitted", "spawned"}
           => /\ lease.state = "releasing" \/ Committed
              /\ lease'.state # "active" /\ lease'.phase \in {"emitted", "spawned"}
  PROVE  LeaseInv'
<1>1. TopologyOK' = TopologyOK
  BY DEF TopologyOK, HasRow, ClosedScope
<1>2. HandoffCommitted'
  BY <1>1 DEF LeaseInv, HandoffCommitted, Committed, Owner
<1> QED
  BY <1>2 DEF LeaseInv, OnlyHandoffExpires, ReservedIsMinted

LEMMA LeaseUntouched == LeaseInv /\ UNCHANGED <<lease, sess, minted>> => LeaseInv'
  BY HandoffUntouched DEF LeaseInv, HandoffCommitted, Committed

LEMMA ActiveMeansIdle ==
  LeaseInv /\ lease.state = "active" => ~Committed
  BY DEF LeaseInv, HandoffCommitted

-----------------------------------------------------------------------------
LEMMA InitSafe == Init => LeaseInv
  BY DEF Init, ChainInit, LeaseInv, HandoffCommitted, Committed, OnlyHandoffExpires,
         ReservedIsMinted

LEMMA AcquireSafe ==
  ASSUME TypeOK, LeaseInv, NEW o \in Session,
         AcquireTakeover(o) \/ AcquireRecovered(o) \/ AcquireAffinity(o)
  PROVE  LeaseInv'
<1>1. CASE AcquireTakeover(o)
  BY <1>1, NothingInFlight DEF AcquireTakeover, OnlyHandoffExpires, ReservedIsMinted
<1>2. CASE AcquireRecovered(o)
  <2>1. o \in minted
    BY <1>2 DEF AcquireRecovered, MayAcquireRecovered, LeaseInv, ReservedIsMinted
  <2> QED
    BY <1>2, <2>1, NothingInFlight
       DEF AcquireRecovered, RecoveredLease, OnlyHandoffExpires, ReservedIsMinted
<1>3. CASE AcquireAffinity(o)
  <2>1. o \in minted
    BY <1>3 DEF AcquireAffinity, MayAcquireAffinity, LeaseInv, ReservedIsMinted
  <2> QED
    BY <1>3, <2>1, NothingInFlight
       DEF AcquireAffinity, RecoveredLease, OnlyHandoffExpires, ReservedIsMinted
<1> QED
  BY <1>1, <1>2, <1>3

LEMMA LeaseWritesSafe ==
  ASSUME TypeOK, LeaseInv, NEW reason \in PauseReasons,
         ReleaseLease \/ Expire \/ PausePreserve(reason) \/ PauseRollback(reason)
  PROVE  LeaseInv'
<1>1. CASE ReleaseLease
  <2>1. lease' = [lease EXCEPT !.state = "released"] /\ UNCHANGED <<sess, minted>>
    BY <1>1 DEF ReleaseLease
  <2> QED
    BY <2>1, HandoffUntouched DEF TypeOK, Lease, Committed
<1>2. CASE Expire
  <2>1. /\ lease.expires = "live" /\ lease' = [lease EXCEPT !.expires = "expired"]
        /\ UNCHANGED <<sess, minted>>
    BY <1>2 DEF Expire
  <2> QED
    BY <2>1, HandoffUntouched DEF TypeOK, Lease, Committed, LeaseInv, HandoffCommitted
<1>3. CASE PausePreserve(reason)
  <2>1. lease' = [lease EXCEPT !.expires = "none"] /\ UNCHANGED <<sess, minted>>
    BY <1>3 DEF PausePreserve
  <2> QED
    BY <2>1, HandoffUntouched DEF TypeOK, Lease, Committed, LeaseInv, HandoffCommitted
<1>4. CASE PauseRollback(reason)
  <2>1. /\ lease' = [lease EXCEPT !.state = "active", !.phase = "idle",
                                  !.child = None, !.expires = "none"]
        /\ minted' = minted
    BY <1>4 DEF PauseRollback
  <2> QED
    BY <2>1, NothingInFlight DEF TypeOK, Lease, LeaseInv, OnlyHandoffExpires, ReservedIsMinted
<1> QED
  BY <1>1, <1>2, <1>3, <1>4

(* A scope is bound or closed by a session whose lease is active.            *)
LEMMA WorkSafe ==
  ASSUME TypeOK, LeaseInv, NEW proof \in WorkStates, BindScope \/ CloseScope(proof)
  PROVE  LeaseInv'
<1>1. lease.state = "active" /\ UNCHANGED <<lease, minted>>
  BY DEF BindScope, CloseScope, LeaseCheck, TypeOK, Lease, States
<1> QED
  BY <1>1, ActiveMeansIdle, NothingInFlight
     DEF Committed, LeaseInv, OnlyHandoffExpires, ReservedIsMinted

LEMMA LeaseNextSafe == TypeOK /\ LeaseInv /\ LeaseNext => LeaseInv'
<1> SUFFICES ASSUME TypeOK, LeaseInv, LeaseNext PROVE LeaseInv'
  OBVIOUS
<1>1. "other" \in PauseReasons /\ "open" \in WorkStates
  BY DEF PauseReasons, WorkStates
<1>2. CASE \E o \in Session : AcquireTakeover(o) \/ AcquireRecovered(o)
  BY <1>2, AcquireSafe
<1>3. CASE ReleaseLease \/ Expire
  BY <1>1, <1>3, LeaseWritesSafe
<1>4. CASE \E reason \in PauseReasons \ {"none"} : PausePreserve(reason) \/ PauseRollback(reason)
  BY <1>4, LeaseWritesSafe
<1>5. CASE BindScope \/ \E proof \in WorkStates : CloseScope(proof)
  BY <1>1, <1>5, WorkSafe
<1>6. CASE \/ \E final \in {"completed", "stopped"} : FinishRun(final)
           \/ ExhaustBudget \/ TripBreaker \/ ExtendBudget \/ ResetBreaker
           \/ \E limit \in Blockers : MeetLimit(limit)
           \/ \E proof \in WorkStates : BusinessWrite(proof)
  BY <1>6, LeaseUntouched DEF FinishRun, ExhaustBudget, TripBreaker, ExtendBudget,
                              ResetBreaker, MeetLimit, BusinessWrite
<1> QED
  BY <1>2, <1>3, <1>4, <1>5, <1>6 DEF LeaseNext

-----------------------------------------------------------------------------
(* Recovery publishes a reservation, which is not a handoff in flight; the   *)
(* replacement was never drawn before, so it is not the owner.               *)
LEMMA RecoveryNextSafe == TypeOK /\ LeaseInv /\ RecoveryNext => LeaseInv'
<1> SUFFICES ASSUME TypeOK, LeaseInv, NEW o \in Session,
                    SupersedeAffinity(o) \/ RecoverBoundary(o) \/ AcquireAffinity(o)
             PROVE  LeaseInv'
  BY DEF RecoveryNext
<1>1. CASE SupersedeAffinity(o)
  <2>1. /\ lease' = RecoveryLease("affinity-supersession", o, None)
        /\ o \notin minted /\ minted' = minted \cup {o}
    BY <1>1 DEF SupersedeAffinity
  <2> QED
    BY <2>1, NothingInFlight
       DEF RecoveryLease, TypeOK, Lease, LeaseInv, OnlyHandoffExpires, ReservedIsMinted
<1>2. CASE RecoverBoundary(o)
  <2>1. /\ lease' = RecoveryLease("boundary-recovery", o, StaleParent)
        /\ o \notin minted /\ minted' = minted \cup {o}
    BY <1>2 DEF RecoverBoundary
  <2> QED
    BY <2>1, NothingInFlight
       DEF RecoveryLease, TypeOK, Lease, LeaseInv, OnlyHandoffExpires, ReservedIsMinted
<1>3. CASE AcquireAffinity(o)
  BY <1>3, AcquireSafe
<1> QED
  BY <1>1, <1>2, <1>3

-----------------------------------------------------------------------------
LEMMA ReserveSafe ==
  ASSUME TypeOK, LeaseInv, NEW e \in Emitter, NEW child \in Session, Reserve(e, child)
  PROVE  LeaseInv'
<1>1. /\ lease' = [lease EXCEPT !.phase = "reserved", !.child = child, !.event = lease.owner]
      /\ child \notin minted /\ minted' = minted \cup {child}
      /\ lease.phase \in {"idle", "acquired"}
  BY DEF Reserve
<1>2. lease.state # "releasing"
  BY <1>1 DEF LeaseInv, HandoffCommitted, Committed
<1> QED
  BY <1>1, <1>2, NothingInFlight
     DEF TypeOK, Lease, LeaseInv, OnlyHandoffExpires, ReservedIsMinted

(* The commit is where a handoff becomes whole: the child's row and the      *)
(* owner's are written with the links that boundaryHandoffTopologyError asks *)
(* for.                                                                      *)
LEMMA CommitSafe ==
  ASSUME TypeOK, HandoffTypeOK, LeaseInv, NEW e \in Emitter, CommitEmit(e)
  PROVE  LeaseInv'
<1> DEFINE child == emit[e].child
           owner == emit[e].owner
<1>1. /\ owner = lease.owner /\ child = lease.child /\ lease.event = owner
      /\ ClosedScope(owner)
  BY DEF CommitEmit, BoundaryReady, Fenced, BoundaryReservable, Owner
<1>2. /\ owner \in Session /\ child \in Session /\ child # owner /\ lease.child # None
      /\ child \in minted /\ owner \in minted
  BY <1>1 DEF CommitEmit, BoundaryReady, TypeOK, Lease, LeaseInv, ReservedIsMinted
<1>3. /\ lease' = [lease EXCEPT !.phase = "emitted", !.state = "releasing",
                                !.expires = "live", !.takeover = "boundary-handoff"]
      /\ minted' = minted
  BY DEF CommitEmit
<1>4. sess'[child] = ChildRow(owner)
  BY <1>2 DEF CommitEmit, TypeOK
<1>5. /\ sess'[owner].row /\ sess'[owner].scope = "closed"
      /\ sess'[owner].succ = child /\ sess'[owner].retired
  BY <1>1, <1>2 DEF CommitEmit, TypeOK, SessionRow, ClosedScope, HasRow
<1>6. /\ lease'.owner = owner /\ lease'.child = child /\ lease'.event = owner
      /\ lease'.state = "releasing" /\ lease'.phase = "emitted"
      /\ lease'.takeover = "boundary-handoff"
  BY <1>1, <1>3 DEF TypeOK, Lease
<1>7. TopologyOK'
  <2>1. /\ sess'[child].row /\ sess'[child].scope = "unbound" /\ ~sess'[child].retired
        /\ sess'[child].parent = owner
    BY <1>4 DEF ChildRow, NoSession
  <2>2. child # None /\ owner # None
    BY <1>2
  <2> HIDE DEF child, owner
  <2> QED
    BY <1>5, <1>6, <2>1, <2>2 DEF TopologyOK, HasRow, ClosedScope
<1>8. HandoffCommitted'
  BY <1>2, <1>4, <1>6, <1>7 DEF HandoffCommitted, Committed, Owner, ChildRow, NoSession
<1> QED
  BY <1>2, <1>3, <1>6, <1>8 DEF LeaseInv, OnlyHandoffExpires, ReservedIsMinted

LEMMA UndoSafe ==
  ASSUME TypeOK, LeaseInv, NEW e \in Emitter, UndoReserve(e)
  PROVE  LeaseInv'
<1>1. /\ \E state \in {"active", "released"} :
           lease' = [lease EXCEPT !.state = state, !.phase = "idle", !.child = None,
                                  !.event = None, !.expires = "none", !.takeover = "none"]
      /\ minted' = minted
  BY DEF UndoReserve
<1> QED
  BY <1>1, NothingInFlight DEF TypeOK, Lease, LeaseInv, OnlyHandoffExpires, ReservedIsMinted

LEMMA HandoffNextSafe ==
  TypeOK /\ HandoffTypeOK /\ LeaseInv /\ HandoffNext => LeaseInv'
<1> SUFFICES ASSUME TypeOK, HandoffTypeOK, LeaseInv, NEW e \in Emitter,
                    EmitStep(e) \/ CrashEmit(e)
             PROVE  LeaseInv'
  BY DEF HandoffNext
<1>1. CASE \E child \in Session : Reserve(e, child)
  BY <1>1, ReserveSafe
<1>2. CASE CommitEmit(e)
  BY <1>2, CommitSafe
<1>3. CASE UndoReserve(e)
  BY <1>3, UndoSafe
<1>4. CASE \/ StartEmit(e) \/ JoinReservation(e) \/ RefuseReserve(e) \/ Snapshot(e)
           \/ AlreadyEmitted(e) \/ FailCommit(e) \/ GiveUpUndo(e) \/ CrashEmit(e)
  BY <1>4, LeaseUntouched DEF StartEmit, JoinReservation, RefuseReserve, Snapshot,
       AlreadyEmitted, FailCommit, GiveUpUndo, CrashEmit, chainVars
<1> QED
  BY <1>1, <1>2, <1>3, <1>4 DEF EmitStep

-----------------------------------------------------------------------------
(* Both undoings of a respawner return the lease whole, whatever it had      *)
(* reserved; the claim only moves a committed handoff on.                    *)
LEMMA RespawnNextSafe ==
  TypeOK /\ LeaseInv /\ RespawnNext => LeaseInv'
<1> SUFFICES ASSUME TypeOK, LeaseInv, NEW r \in Respawner, SpawnStep(r) \/ CrashRespawn(r)
             PROVE  LeaseInv'
  BY DEF RespawnNext
<1>1. lease' = ReturnedLease /\ minted' = minted => LeaseInv'
  BY NothingInFlight
     DEF ReturnedLease, TypeOK, Lease, LeaseInv, OnlyHandoffExpires, ReservedIsMinted
<1>2. CASE ClaimSpawn(r)
  <2>1. /\ lease.phase = "emitted" /\ lease.state = "releasing"
        /\ lease' = [lease EXCEPT !.phase = "spawned"] /\ UNCHANGED <<sess, minted>>
    BY <1>2 DEF ClaimSpawn, Claimable
  <2> QED
    BY <2>1, HandoffUntouched DEF TypeOK, Lease
<1>3. CASE RollbackAndPause(r)
  BY <1>1, <1>3, LeaseUntouched DEF RollbackAndPause, chainVars
<1>4. CASE CancelForFinish(r)
  BY <1>1, <1>4, LeaseUntouched DEF CancelForFinish, chainVars
<1>5. CASE PreservePause(r)
  <2>1. CASE UNCHANGED chainVars
    BY <2>1, LeaseUntouched DEF chainVars
  <2>2. CASE lease' = [lease EXCEPT !.expires = "none"] /\ UNCHANGED <<sess, minted>>
    BY <2>2, HandoffUntouched DEF TypeOK, Lease, Committed, LeaseInv, HandoffCommitted
  <2> QED
    BY <1>5, <2>1, <2>2 DEF PreservePause
<1>6. CASE RecordSpawned(r) \/ \E visible \in BOOLEAN : StartRespawn(r, visible)
  BY <1>6, LeaseUntouched DEF RecordSpawned, StartRespawn, chainVars
<1>7. CASE \/ ClaimUnauthorized(r) \/ ClaimFinish(r) \/ ClaimBlocked(r) \/ ClaimRefused(r)
           \/ Launch(r) \/ LaunchFails(r) \/ \E ok \in BOOLEAN : LaunchReturns(r, ok)
           \/ StopWaiting(r) \/ WaitTimeout(r) \/ CrashRespawn(r)
  BY <1>7, LeaseUntouched DEF ClaimUnauthorized, ClaimFinish, ClaimBlocked, ClaimRefused,
       Launch, LaunchFails, LaunchReturns, StopWaiting, WaitTimeout, CrashRespawn, chainVars
<1> QED
  BY <1>2, <1>3, <1>4, <1>5, <1>6, <1>7 DEF SpawnStep

-----------------------------------------------------------------------------
(* The inductive invariant of the lease.                                     *)
THEOREM LeaseSafety == Spec => []LeaseInv
<1>1. KernelTypeOK /\ LeaseInv /\ [Next]_vars => LeaseInv'
  <2> SUFFICES ASSUME KernelTypeOK, LeaseInv, [Next]_vars PROVE LeaseInv'
    OBVIOUS
  <2>1. CASE LeaseNext \/ RecoveryNext
    BY <2>1, LeaseNextSafe, RecoveryNextSafe DEF KernelTypeOK
  <2>2. CASE HandoffNext
    BY <2>2, HandoffNextSafe DEF KernelTypeOK
  <2>3. CASE RespawnNext
    BY <2>3, RespawnNextSafe DEF KernelTypeOK
  <2>4. CASE UNCHANGED vars
    BY <2>4, LeaseUntouched DEF vars, chainVars
  <2> QED
    BY <2>1, <2>2, <2>3, <2>4 DEF Next
<1> QED
  BY <1>1, InitSafe, Typing, PTL DEF Spec

(* A committed handoff is whole until it is taken, undone or recovered.      *)
THEOREM CommittedHandoffWhole == Spec => []HandoffCommitted
<1>1. LeaseInv => HandoffCommitted
  BY DEF LeaseInv
<1> QED
  BY <1>1, LeaseSafety, PTL

(* A preserving pause never shuts the reserved child out: everything that    *)
(* acquireLease asks follows from the handoff being whole.                   *)
THEOREM PreservedChildAdmitted == Spec => []PreservedChildCanAcquire
<1>1. KernelTypeOK /\ LeaseInv => PreservedChildCanAcquire
  <2> SUFFICES ASSUME TypeOK, HandoffCommitted, status = "paused", Committed
               PROVE  MayTakeOver(lease.child)
    BY DEF KernelTypeOK, LeaseInv, PreservedChildCanAcquire
  <2>1. /\ lease.takeover = "boundary-handoff" /\ TopologyOK /\ lease.state # "active"
        /\ lease.child # Owner /\ sess[lease.child].recovery = "none"
    BY DEF HandoffCommitted
  <2>2. NotAlreadyOwned(lease.child) /\ ~Terminal /\ ~RecoveryInFlight
    BY <2>1 DEF NotAlreadyOwned, Terminal, RecoveryInFlight, Owner
  <2>3. Takeable(lease.child) /\ NotReservedForOther(lease.child)
    BY <2>1 DEF Takeable, NotReservedForOther, TypeOK, Lease
  <2> QED
    BY <2>1, <2>2, <2>3 DEF MayTakeOver
<1> QED
  BY <1>1, Typing, LeaseSafety, PTL

-----------------------------------------------------------------------------
LEMMA LeaseNextFinal ==
  ASSUME TypeOK, Terminal, LeaseNext
  PROVE  FinalKept
<1>1. /\ ~\E o \in Session : AcquireTakeover(o) \/ AcquireRecovered(o)
      /\ ~\E reason \in PauseReasons : PausePreserve(reason) \/ PauseRollback(reason)
      /\ ~\E final \in {"completed", "stopped"} : FinishRun(final)
  BY DEF AcquireTakeover, MayTakeOver, AcquireRecovered, MayAcquireRecovered, PausePreserve,
         PauseRollback, MayPause, FinishRun, LeaseCheck
<1>2. /\ ~ExhaustBudget /\ ~TripBreaker /\ ~ExtendBudget /\ ~ResetBreaker /\ ~BindScope
      /\ ~\E proof \in WorkStates : CloseScope(proof) \/ BusinessWrite(proof)
  BY DEF ExhaustBudget, TripBreaker, ExtendBudget, MayExtendBudget, AnyRecoveryReserved,
         RecoveryReserved, ResetBreaker, MayResetBreaker, BindScope, CloseScope, BusinessWrite,
         LeaseCheck, Terminal
<1>3. CASE ReleaseLease \/ Expire
  BY <1>3 DEF ReleaseLease, Expire, FinalKept, TypeOK, Lease
<1>4. ASSUME NEW limit, MeetLimit(limit) PROVE FinalKept
  BY <1>4 DEF MeetLimit, FinalKept
<1> QED
  BY <1>1, <1>2, <1>3, <1>4 DEF LeaseNext

LEMMA RecoveryNextFinal == Terminal => ~RecoveryNext
  BY DEF RecoveryNext, SupersedeAffinity, AffinityReady, RecoverBoundary, BoundaryRecoverable,
         AcquireAffinity, MayAcquireAffinity, RecoveryReserved, Terminal

LEMMA HandoffNextFinal ==
  ASSUME TypeOK, Terminal, HandoffNext
  PROVE  FinalKept
<1>1. PICK e \in Emitter : EmitStep(e) \/ CrashEmit(e)
  BY DEF HandoffNext
<1>2. ~(\E child \in Session : Reserve(e, child)) /\ ~StartEmit(e) /\ ~JoinReservation(e) /\ ~CommitEmit(e)
  BY DEF Reserve, StartEmit, JoinReservation, MayReserve, CommitEmit, BoundaryReady, LeaseCheck, Terminal
<1>3. CASE RefuseReserve(e) \/ AlreadyEmitted(e) \/ FailCommit(e) \/ GiveUpUndo(e) \/ CrashEmit(e)
  BY <1>3 DEF RefuseReserve, AlreadyEmitted, FailCommit, GiveUpUndo, CrashEmit, chainVars, FinalKept
<1>4. CASE Snapshot(e) \/ UndoReserve(e)
  BY <1>4 DEF Snapshot, UndoReserve, FinalKept, TypeOK, Lease
<1> QED
  BY <1>1, <1>2, <1>3, <1>4 DEF EmitStep

(* An ended run is not brought back: whatever was under way when finishRun   *)
(* ended it, its status, owner, generation and sessions stay.                *)
THEOREM EndIsFinal == Spec => TerminalIsFinal
<1>1. KernelTypeOK /\ [Next]_vars => [Terminal => FinalKept]_vars
  <2> SUFFICES ASSUME TypeOK, Terminal, Next PROVE FinalKept
    BY DEF KernelTypeOK
  <2> QED
    BY LeaseNextFinal, RecoveryNextFinal, HandoffNextFinal, RespawnNextFinal DEF Next
<1>2. Spec => []KernelTypeOK
  BY Typing
<1> QED
  BY <1>1, <1>2, PTL DEF Spec, TerminalIsFinal, FinalKept

-----------------------------------------------------------------------------
(* Refinement.  LeaseInv is what makes an acquisition a TakeUp: only a       *)
(* committed handoff has a deadline, and its child alone may take it, so the *)
(* expiry of the deadline never lets another session in.                     *)
LEMMA UnseenStutters == UNCHANGED <<lease, Terminal>> => UNCHANGED Abstract!ownershipVars
  BY DEF Abstract!ownershipVars

(* A running or paused run whose lease changes within its generation.        *)
LEMMA Arranging ==
  ASSUME TypeOK, TypeOK', ~Terminal, ~Terminal',
         lease'.owner = lease.owner, lease'.generation = lease.generation
  PROVE  Abstract!Next
<1>1. lease'.child \in Session \cup {None}
  BY DEF TypeOK, Lease
<1>2. (lease.state = "active")' \in BOOLEAN
  BY Zenon
<1>3. Terminal' = Terminal
  BY DEF Terminal
<1>4. Abstract!Arrange
  BY <1>1, <1>2, <1>3 DEF Abstract!Arrange
<1> QED
  BY <1>4 DEF Abstract!Next

(* A terminal run may only be let go.                                        *)
LEMMA LettingGo ==
  ASSUME Terminal, status' = status,
         lease'.owner = lease.owner, lease'.generation = lease.generation,
         lease'.state = "active" => lease.state = "active",
         lease'.child \in {lease.child, None}
  PROVE  Abstract!Next
<1>1. Terminal' = Terminal
  BY DEF Terminal
<1>2. (lease.state = "active")' \in {lease.state = "active", FALSE}
  OBVIOUS
<1>3. Abstract!LetGo
  BY <1>1, <1>2 DEF Abstract!LetGo
<1> QED
  BY <1>3 DEF Abstract!Next

LEMMA InitRefines == Init => Abstract!Init
  BY DEF Init, ChainInit, Abstract!Init, Terminal

-----------------------------------------------------------------------------
LEMMA TakeUpRefines ==
  ASSUME TypeOK, LeaseInv, NEW o \in Session,
         AcquireTakeover(o) \/ AcquireRecovered(o) \/ AcquireAffinity(o)
  PROVE  Abstract!Next
<1>1. ~Terminal /\ lease.state # "active" /\ lease.child \in {None, o}
  <2>1. CASE AcquireTakeover(o)
    <3>1. /\ ~Terminal /\ Takeable(o) /\ NotReservedForOther(o)
          /\ lease.takeover = "boundary-handoff" => o = lease.child
      BY <2>1 DEF AcquireTakeover, MayTakeOver
    <3>2. lease.state = "releasing" => lease.takeover = "boundary-handoff"
      BY DEF LeaseInv, HandoffCommitted
    <3>3. lease.expires = "expired" => lease.takeover = "boundary-handoff"
      BY DEF LeaseInv, OnlyHandoffExpires
    <3> QED
      BY <3>1, <3>2, <3>3 DEF Takeable, NotReservedForOther, TypeOK, Lease
  <2>2. CASE AcquireRecovered(o)
    BY <2>2 DEF AcquireRecovered, MayAcquireRecovered, RecoveryReserved
  <2>3. CASE AcquireAffinity(o)
    BY <2>3 DEF AcquireAffinity, MayAcquireAffinity, RecoveryReserved, Terminal
  <2> QED
    BY <2>1, <2>2, <2>3
<1>2. /\ lease'.owner = o /\ lease'.generation = lease.generation + 1
      /\ lease'.state = "active" /\ lease'.child = None /\ status' = "running"
  BY DEF AcquireTakeover, AcquireRecovered, AcquireAffinity, RecoveredLease
<1>3. Abstract!TakeUp(o)
  BY <1>1, <1>2 DEF Abstract!TakeUp, Terminal
<1> QED
  BY <1>3 DEF Abstract!Next

LEMMA EndRefines ==
  ASSUME TypeOK, NEW final \in {"completed", "stopped"}, FinishRun(final)
  PROVE  Abstract!Next
<1>1. ~Terminal /\ lease.state = "active" /\ Terminal' /\ lease' = lease
  BY DEF FinishRun, LeaseCheck, Terminal, TypeOK, Lease
<1>2. Abstract!End
  BY <1>1 DEF Abstract!End
<1> QED
  BY <1>2 DEF Abstract!Next

(* Releasing and expiry are the steps that a terminal run may still take.    *)
LEMMA ReleaseRefines ==
  ASSUME TypeOK, TypeOK', ReleaseLease \/ Expire
  PROVE  Abstract!Next
<1>1. /\ lease'.owner = lease.owner /\ lease'.generation = lease.generation
      /\ lease'.state = "active" => lease.state = "active"
      /\ lease'.child = lease.child /\ status' = status
  BY DEF ReleaseLease, Expire, TypeOK, Lease
<1>2. CASE Terminal
  BY <1>1, <1>2, LettingGo
<1>3. CASE ~Terminal
  BY <1>1, <1>3, Arranging DEF Terminal
<1> QED
  BY <1>2, <1>3

LEMMA LeaseNextRefines ==
  ASSUME TypeOK, TypeOK', LeaseInv, LeaseNext
  PROVE  Abstract!Next \/ UNCHANGED Abstract!ownershipVars
<1>1. CASE \E o \in Session : AcquireTakeover(o) \/ AcquireRecovered(o)
  BY <1>1, TakeUpRefines
<1>2. CASE ReleaseLease \/ Expire
  BY <1>2, ReleaseRefines
<1>3. CASE \E reason \in PauseReasons \ {"none"} : PausePreserve(reason) \/ PauseRollback(reason)
  <2>1. /\ ~Terminal /\ ~Terminal'
        /\ lease'.owner = lease.owner /\ lease'.generation = lease.generation
    BY <1>3 DEF PausePreserve, PauseRollback, MayPause, Terminal, TypeOK, Lease
  <2> QED
    BY <2>1, Arranging
<1>4. CASE \E final \in {"completed", "stopped"} : FinishRun(final)
  BY <1>4, EndRefines
<1>5. CASE ExtendBudget
  <2>1. status = "paused"
    BY <1>5 DEF ExtendBudget, MayExtendBudget, AnyRecoveryReserved, RecoveryReserved
  <2> QED
    BY <1>5, <2>1, UnseenStutters DEF ExtendBudget, Terminal
<1>6. CASE ResetBreaker
  BY <1>6, UnseenStutters DEF ResetBreaker, MayResetBreaker, Terminal
<1>7. CASE \/ ExhaustBudget \/ TripBreaker \/ \E limit \in Blockers : MeetLimit(limit)
           \/ BindScope
           \/ \E proof \in WorkStates : CloseScope(proof) \/ BusinessWrite(proof)
  BY <1>7, UnseenStutters DEF ExhaustBudget, TripBreaker, LeaseCheck, MeetLimit, BindScope,
                              CloseScope, BusinessWrite, Terminal
<1> QED
  BY <1>1, <1>2, <1>3, <1>4, <1>5, <1>6, <1>7 DEF LeaseNext

LEMMA RecoveryNextRefines ==
  ASSUME TypeOK, TypeOK', LeaseInv, RecoveryNext
  PROVE  Abstract!Next
<1>1. CASE \E o \in Session : SupersedeAffinity(o) \/ RecoverBoundary(o)
  <2>1. /\ status = "paused" /\ status' = status
        /\ lease'.owner = lease.owner /\ lease'.generation = lease.generation
    <3>1. CASE \E o \in Session : SupersedeAffinity(o)
      BY <3>1 DEF SupersedeAffinity, AffinityReady, RecoveryLease, TypeOK, Lease
    <3>2. CASE \E o \in Session : RecoverBoundary(o)
      <4>1. /\ status = "paused" /\ status' = status
            /\ \E o \in Session :
                 lease' = RecoveryLease("boundary-recovery", o, StaleParent)
        BY <3>2 DEF RecoverBoundary, BoundaryRecoverable
      <4> QED
        BY <4>1 DEF RecoveryLease, TypeOK, Lease
    <3> QED
      BY <1>1, <3>1, <3>2
  <2> QED
    BY <2>1, Arranging DEF Terminal
<1>2. CASE \E o \in Session : AcquireAffinity(o)
  BY <1>2, TakeUpRefines
<1> QED
  BY <1>1, <1>2 DEF RecoveryNext

LEMMA HandoffNextRefines ==
  ASSUME TypeOK, TypeOK', LeaseInv, HandoffNext
  PROVE  Abstract!Next \/ UNCHANGED Abstract!ownershipVars
<1>1. PICK e \in Emitter : EmitStep(e) \/ CrashEmit(e)
  BY DEF HandoffNext
<1>2. CASE CommitEmit(e) \/ \E child \in Session : Reserve(e, child)
  <2>1. /\ status = "running" /\ status' = status
        /\ lease'.owner = lease.owner /\ lease'.generation = lease.generation
    <3>1. CASE CommitEmit(e)
      BY <3>1 DEF CommitEmit, BoundaryReady, TypeOK, Lease
    <3>2. CASE \E child \in Session : Reserve(e, child)
      BY <3>2 DEF Reserve, MayReserve, TypeOK, Lease
    <3> QED
      BY <1>2, <3>1, <3>2
  <2> QED
    BY <2>1, Arranging DEF Terminal
<1>3. CASE UndoReserve(e)
  <2>1. /\ lease'.owner = lease.owner /\ lease'.generation = lease.generation
        /\ lease'.child = None /\ status' = status
        /\ Terminal => lease'.state = "released"
    BY <1>3 DEF UndoReserve, TypeOK, Lease
  <2>2. CASE Terminal
    BY <2>1, <2>2, LettingGo
  <2>3. CASE ~Terminal
    BY <2>1, <2>3, Arranging DEF Terminal
  <2> QED
    BY <2>2, <2>3
<1>4. CASE \/ StartEmit(e) \/ JoinReservation(e) \/ RefuseReserve(e) \/ Snapshot(e)
           \/ AlreadyEmitted(e) \/ FailCommit(e) \/ GiveUpUndo(e) \/ CrashEmit(e)
  BY <1>4, UnseenStutters DEF StartEmit, JoinReservation, RefuseReserve, Snapshot,
       AlreadyEmitted, FailCommit, GiveUpUndo, CrashEmit, chainVars, Terminal
<1> QED
  BY <1>1, <1>2, <1>3, <1>4 DEF EmitStep

LEMMA RespawnNextRefines ==
  ASSUME TypeOK, TypeOK', LeaseInv, RespawnNext
  PROVE  Abstract!Next \/ UNCHANGED Abstract!ownershipVars
<1>1. PICK r \in Respawner : SpawnStep(r) \/ CrashRespawn(r)
  BY DEF RespawnNext
<1>2. CASE UNCHANGED <<lease, status>>
  BY <1>2, UnseenStutters DEF Terminal
<1>3. CASE /\ ~Terminal /\ status' \in {status, "paused"}
           /\ lease'.owner = lease.owner /\ lease'.generation = lease.generation
  BY <1>3, Arranging DEF Terminal
<1>4. CASE ClaimSpawn(r) \/ RollbackAndPause(r) \/ CancelForFinish(r) \/ PreservePause(r)
  BY <1>2, <1>3, <1>4, ZenonT(60) DEF ClaimSpawn, Claimable, RollbackAndPause, CancelForFinish,
       PreservePause, ReturnedLease, chainVars, TypeOK, Lease
<1>5. CASE \/ RecordSpawned(r) \/ \E visible \in BOOLEAN : StartRespawn(r, visible)
           \/ ClaimUnauthorized(r) \/ ClaimFinish(r) \/ ClaimBlocked(r) \/ ClaimRefused(r)
           \/ Launch(r) \/ LaunchFails(r) \/ \E ok \in BOOLEAN : LaunchReturns(r, ok)
           \/ StopWaiting(r) \/ WaitTimeout(r) \/ CrashRespawn(r)
  BY <1>2, <1>5 DEF RecordSpawned, StartRespawn, ClaimUnauthorized, ClaimFinish,
       ClaimBlocked, ClaimRefused, Launch, LaunchFails, LaunchReturns, StopWaiting,
       WaitTimeout, CrashRespawn, chainVars
<1> QED
  BY <1>1, <1>4, <1>5 DEF SpawnStep

-----------------------------------------------------------------------------
(* The kernel implements Ownership: whatever the interleaving of owners,     *)
(* emitters, respawners and people, the lease passes from session to session *)
(* one generation at a time, only after it was laid down, only to the        *)
(* session it is reserved for, and never after the end of the run.           *)
THEOREM KernelImplementsOwnership == Spec => OwnershipSpec
<1>1. KernelTypeOK /\ KernelTypeOK' /\ LeaseInv /\ [Next]_vars
        => [Abstract!Next]_(Abstract!ownershipVars)
  <2> SUFFICES ASSUME TypeOK, TypeOK', LeaseInv, [Next]_vars
               PROVE  Abstract!Next \/ UNCHANGED Abstract!ownershipVars
    BY DEF KernelTypeOK
  <2>1. CASE LeaseNext \/ RecoveryNext
    BY <2>1, LeaseNextRefines, RecoveryNextRefines
  <2>2. CASE HandoffNext
    BY <2>2, HandoffNextRefines
  <2>3. CASE RespawnNext
    BY <2>3, RespawnNextRefines
  <2>4. CASE UNCHANGED vars
    BY <2>4, UnseenStutters DEF vars, chainVars, Terminal
  <2> QED
    BY <2>1, <2>2, <2>3, <2>4 DEF Next
<1> QED
  BY <1>1, InitRefines, Typing, LeaseSafety, PTL DEF Spec, OwnershipSpec, Abstract!Spec

-----------------------------------------------------------------------------
Launching(c) == {r \in Respawner : resp[r].pc = "launch" /\ resp[r].child = c}
Claimed(c)   == launches[c] > 0 \/ Launching(c) # {}
Open(c)      == lease.child = c /\ lease.phase \in {"reserved", "emitted"}

LaunchInv ==
  /\ \A c \in Session : Claimed(c) => c \in minted /\ ~Open(c)
  /\ \A c \in Session : launches[c] <= 1 /\ (Launching(c) # {} => launches[c] = 0)
  /\ \A p, q \in Respawner :
       resp[p].pc = "launch" /\ resp[q].pc = "launch" /\ resp[p].child = resp[q].child
         => p = q
  /\ \A r \in Respawner : resp[r].pc = "launch" => resp[r].child \in Session

LEMMA InitLaunch == Init => LaunchInv
  BY DEF Init, ChainInit, RespawnInit, SpawnIdle, LaunchInv, Claimed, Launching, Open

(* A step of the chain alone: it draws ids, and opens a handoff only for the *)
(* child already open or for one just drawn.                                 *)
LEMMA ChainStep ==
  ASSUME LaunchInv, UNCHANGED <<resp, launches>>, minted \subseteq minted',
         \A c \in Session : Open(c)' => Open(c) \/ c \notin minted
  PROVE  LaunchInv'
<1>1. \A c \in Session : Launching(c)' = Launching(c)
  BY DEF Launching
<1>2. \A c \in Session : Claimed(c)' = Claimed(c)
  BY <1>1 DEF Claimed
<1> QED
  BY <1>1, <1>2 DEF LaunchInv

(* A step of a respawner other than the claim and the launch.                *)
LEMMA SpawnerStep ==
  ASSUME LaunchInv, NEW r \in Respawner, RespawnTypeOK, UNCHANGED <<launches, minted>>,
         \E row : row.pc # "launch" /\ resp' = [resp EXCEPT ![r] = row],
         \A c \in Session : Open(c)' => Open(c)
  PROVE  LaunchInv'
<1>1. \A q \in Respawner : resp'[q].pc = "launch" => resp'[q] = resp[q]
  BY DEF RespawnTypeOK
<1>2. \A c \in Session : Launching(c)' \subseteq Launching(c)
  BY <1>1 DEF Launching
<1>3. \A c \in Session : Claimed(c)' => Claimed(c)
  BY <1>2 DEF Claimed
<1> QED
  BY <1>1, <1>2, <1>3 DEF LaunchInv

-----------------------------------------------------------------------------
LEMMA LeaseNextLaunch ==
  TypeOK /\ LaunchInv /\ LeaseNext /\ UNCHANGED <<resp, launches>> => LaunchInv'
<1> SUFFICES ASSUME TypeOK, LaunchInv, LeaseNext, UNCHANGED <<resp, launches>> PROVE LaunchInv'
  OBVIOUS
<1>1. CASE \E o \in Session : AcquireTakeover(o) \/ AcquireRecovered(o)
  BY <1>1, ChainStep DEF AcquireTakeover, AcquireRecovered, RecoveredLease, Open
<1>2. CASE ReleaseLease \/ Expire
  <2>1. lease'.child = lease.child /\ lease'.phase = lease.phase /\ minted' = minted
    BY <1>2 DEF ReleaseLease, Expire, TypeOK, Lease
  <2> QED
    BY <2>1, ChainStep DEF Open
<1>3. CASE \E reason \in PauseReasons \ {"none"} : PausePreserve(reason) \/ PauseRollback(reason)
  <2>1. /\ lease'.child \in {lease.child, None} /\ minted' = minted
        /\ lease'.phase \in {lease.phase, "idle"}
    BY <1>3 DEF PausePreserve, PauseRollback, TypeOK, Lease
  <2> QED
    BY <2>1, ChainStep DEF Open
<1>4. CASE \/ \E final \in {"completed", "stopped"} : FinishRun(final)
           \/ ExhaustBudget \/ TripBreaker \/ ExtendBudget \/ ResetBreaker
           \/ \E limit \in Blockers : MeetLimit(limit)
           \/ BindScope
           \/ \E proof \in WorkStates : CloseScope(proof) \/ BusinessWrite(proof)
  <2>1. lease' = lease /\ minted' = minted
    BY <1>4 DEF FinishRun, ExhaustBudget, TripBreaker, ExtendBudget, ResetBreaker,
                MeetLimit, BindScope, CloseScope, BusinessWrite
  <2> QED
    BY <2>1, ChainStep DEF Open
<1> QED
  BY <1>1, <1>2, <1>3, <1>4 DEF LeaseNext

LEMMA RecoveryNextLaunch ==
  TypeOK /\ LaunchInv /\ RecoveryNext /\ UNCHANGED <<resp, launches>> => LaunchInv'
<1> SUFFICES ASSUME TypeOK, LaunchInv, UNCHANGED <<resp, launches>>, NEW o \in Session,
                    SupersedeAffinity(o) \/ RecoverBoundary(o) \/ AcquireAffinity(o)
             PROVE  LaunchInv'
  BY DEF RecoveryNext
<1>1. CASE SupersedeAffinity(o) \/ RecoverBoundary(o)
  <2>1. o \notin minted /\ minted' = minted \cup {o} /\ lease'.child = o
    BY <1>1 DEF SupersedeAffinity, RecoverBoundary, RecoveryLease, TypeOK, Lease
  <2> QED
    BY <2>1, ChainStep DEF Open
<1>2. CASE AcquireAffinity(o)
  BY <1>2, ChainStep DEF AcquireAffinity, RecoveredLease, Open
<1> QED
  BY <1>1, <1>2

LEMMA HandoffNextLaunch ==
  LaunchInv /\ HandoffNext /\ UNCHANGED <<resp, launches>> => LaunchInv'
<1> SUFFICES ASSUME LaunchInv, UNCHANGED <<resp, launches>>, NEW e \in Emitter,
                    EmitStep(e) \/ CrashEmit(e)
             PROVE  LaunchInv'
  BY DEF HandoffNext
<1>1. CASE \E child \in Session : Reserve(e, child)
  <2> PICK o \in Session : Reserve(e, o)
    BY <1>1
  <2>1. o \notin minted /\ minted' = minted \cup {o}
        /\ lease' = [lease EXCEPT !.phase = "reserved", !.child = o, !.event = lease.owner]
    BY DEF Reserve
  <2> QED
    BY <2>1, ChainStep DEF Open
<1>2. CASE CommitEmit(e)
  <2>1. lease'.child = lease.child /\ lease.phase = "reserved" /\ minted' = minted
    BY <1>2 DEF CommitEmit, BoundaryReady
  <2> QED
    BY <2>1, ChainStep DEF Open
<1>3. CASE UndoReserve(e)
  <2>1. lease'.phase \in {lease.phase, "idle"} /\ lease'.child \in {lease.child, None}
        /\ minted' = minted
    BY <1>3 DEF UndoReserve
  <2> QED
    BY <2>1, ChainStep DEF Open
<1>4. CASE \/ StartEmit(e) \/ JoinReservation(e) \/ RefuseReserve(e) \/ Snapshot(e)
           \/ AlreadyEmitted(e) \/ FailCommit(e) \/ GiveUpUndo(e) \/ CrashEmit(e)
  <2>1. lease' = lease /\ minted' = minted
    BY <1>4 DEF StartEmit, JoinReservation, RefuseReserve, Snapshot, AlreadyEmitted,
                FailCommit, GiveUpUndo, CrashEmit, chainVars
  <2> QED
    BY <2>1, ChainStep DEF Open
<1> QED
  BY <1>1, <1>2, <1>3, <1>4 DEF EmitStep

-----------------------------------------------------------------------------
(* The claim consumes the open handoff of its child.                         *)
LEMMA ClaimLaunch ==
  ASSUME TypeOK, RespawnTypeOK, LeaseInv, LaunchInv, NEW r \in Respawner, ClaimSpawn(r)
  PROVE  LaunchInv'
<1> DEFINE c == lease.child
<1>1. /\ resp[r].pc = "claim" /\ resp[r].child = c /\ Open(c)
      /\ resp' = [resp EXCEPT ![r].pc = "launch"]
      /\ lease'.phase = "spawned" /\ UNCHANGED <<minted, launches>>
  BY DEF ClaimSpawn, Claimable, SpawnGoto, Open, TypeOK, Lease
<1>2. c \in Session /\ c \in minted
  BY <1>1 DEF LeaseInv, HandoffCommitted, Committed, TopologyOK, HasRow, ReservedIsMinted,
              TypeOK, Lease, Open, ClaimSpawn, Claimable
<1>3. ~Claimed(c)
  BY <1>1, <1>2 DEF LaunchInv
<1>4. \A q \in Respawner : q # r => resp'[q] = resp[q]
  BY <1>1 DEF RespawnTypeOK
<1>5. resp'[r].pc = "launch" /\ resp'[r].child = c
  BY <1>1 DEF RespawnTypeOK, SpawnState
<1>6. \A d \in Session : d # c => Launching(d)' = Launching(d)
  BY <1>1, <1>4, <1>5 DEF Launching
<1>7. \A q \in Respawner : resp[q].pc = "launch" => resp[q].child # c
  BY <1>3 DEF Claimed, Launching
<1>8. \A d \in Session : ~Open(d)'
  BY <1>1 DEF Open
<1>9. launches[c] = 0
  BY <1>2, <1>3 DEF Claimed, RespawnTypeOK
<1>10. \A d \in Session : Claimed(d)' => d \in minted'
  BY <1>1, <1>2, <1>6 DEF Claimed, LaunchInv
<1>11. \A d \in Session : launches'[d] <= 1 /\ (Launching(d)' # {} => launches'[d] = 0)
  BY <1>1, <1>6, <1>9 DEF LaunchInv
<1>12. \A p, q \in Respawner :
         resp'[p].pc = "launch" /\ resp'[q].pc = "launch" /\ resp'[p].child = resp'[q].child
           => p = q
  BY <1>4, <1>5, <1>7 DEF LaunchInv
<1>13. \A q \in Respawner : resp'[q].pc = "launch" => resp'[q].child \in Session
  BY <1>2, <1>4, <1>5 DEF LaunchInv
<1> QED
  BY <1>8, <1>10, <1>11, <1>12, <1>13 DEF LaunchInv

(* The launch is the only one that its child will see.                       *)
LEMMA FirstLaunch ==
  ASSUME RespawnTypeOK, LaunchInv, NEW r \in Respawner, Launch(r)
  PROVE  LaunchInv'
<1> PICK c : c = resp[r].child
  OBVIOUS
<1>1. /\ resp[r].pc = "launch" /\ resp' = [resp EXCEPT ![r].pc = "running"]
      /\ UNCHANGED <<lease, minted>>
  BY DEF Launch, SpawnGoto, chainVars
<1>2. c \in Session /\ r \in Launching(c)
  BY <1>1 DEF LaunchInv, Launching
<1>3. launches[c] = 0 /\ c \in minted /\ ~Open(c)
  BY <1>2 DEF LaunchInv, Claimed
<1>4. launches' = [launches EXCEPT ![c] = 1]
  BY <1>2, <1>3 DEF Launch, RespawnTypeOK
<1>5. \A q \in Respawner : resp'[q].pc = "launch" => q # r /\ resp'[q] = resp[q]
  BY <1>1 DEF RespawnTypeOK
<1>6. \A q \in Respawner : resp'[q].pc = "launch" => resp'[q].child # c
  BY <1>1, <1>5 DEF LaunchInv
<1>7. Launching(c)' = {}
  BY <1>6 DEF Launching
<1>8. \A d \in Session : Launching(d)' \subseteq Launching(d)
  BY <1>5 DEF Launching
<1>9. \A d \in Session : launches'[d] = IF d = c THEN 1 ELSE launches[d]
  BY <1>4 DEF RespawnTypeOK
<1>10. \A d \in Session : Claimed(d)' => Claimed(d)
  BY <1>2, <1>8, <1>9 DEF Claimed
<1>11. \A d \in Session : Open(d)' = Open(d)
  BY <1>1 DEF Open
<1> QED
  BY <1>1, <1>5, <1>7, <1>8, <1>9, <1>10, <1>11 DEF LaunchInv

LEMMA RespawnNextLaunch ==
  TypeOK /\ RespawnTypeOK /\ LeaseInv /\ LaunchInv /\ RespawnNext => LaunchInv'
<1> SUFFICES ASSUME TypeOK, RespawnTypeOK, LeaseInv, LaunchInv, NEW r \in Respawner,
                    SpawnStep(r) \/ CrashRespawn(r)
             PROVE  LaunchInv'
  BY DEF RespawnNext
<1>1. CASE ClaimSpawn(r) \/ Launch(r)
  BY <1>1, ClaimLaunch, FirstLaunch
<1>2. ASSUME RollbackAndPause(r) \/ CancelForFinish(r) \/ PreservePause(r)
      PROVE  LaunchInv'
  <2>1. UNCHANGED <<launches, minted>> /\ resp' = [resp EXCEPT ![r] = SpawnIdle]
    BY <1>2 DEF RollbackAndPause, CancelForFinish, PreservePause, StopRespawn, chainVars
  <2>2. lease' = lease \/ lease' = ReturnedLease \/ lease' = [lease EXCEPT !.expires = "none"]
    BY <1>2 DEF RollbackAndPause, CancelForFinish, PreservePause, chainVars
  <2>3. \A c \in Session : Open(c)' => Open(c)
    BY <2>2 DEF Open, ReturnedLease, TypeOK, Lease
  <2>4. SpawnIdle.pc # "launch"
    BY DEF SpawnIdle
  <2> QED
    BY <2>1, <2>3, <2>4, SpawnerStep
<1>3. ASSUME \/ \E visible \in BOOLEAN : StartRespawn(r, visible)
             \/ ClaimUnauthorized(r) \/ ClaimFinish(r) \/ ClaimBlocked(r) \/ ClaimRefused(r)
             \/ LaunchFails(r) \/ \E ok \in BOOLEAN : LaunchReturns(r, ok)
             \/ RecordSpawned(r) \/ StopWaiting(r) \/ WaitTimeout(r) \/ CrashRespawn(r)
      PROVE  LaunchInv'
  <2>1. UNCHANGED <<lease, launches, minted>>
    BY <1>3 DEF StartRespawn, ClaimUnauthorized, ClaimFinish, ClaimBlocked, ClaimRefused,
         LaunchFails, LaunchReturns, RecordSpawned, StopWaiting, WaitTimeout, CrashRespawn,
         chainVars
  <2>2. \A c \in Session : Open(c)' => Open(c)
    BY <2>1 DEF Open
  <2>3. \E row : row.pc # "launch" /\ resp' = [resp EXCEPT ![r] = row]
    <3>1. \A l \in SpawnPc \ {"launch"} : \A why \in PauseReasons :
            /\ [resp[r] EXCEPT !.pc = l].pc # "launch"
            /\ [resp[r] EXCEPT !.pc = l, !.reason = why].pc # "launch"
      BY DEF RespawnTypeOK, SpawnState
    <3>2. SpawnIdle.pc # "launch"
      BY DEF SpawnIdle
    <3>3. CASE \E visible \in BOOLEAN : StartRespawn(r, visible)
      BY <3>3 DEF StartRespawn, Remember
    <3>4. CASE \E l \in SpawnPc \ {"launch"} : SpawnGoto(r, l)
      BY <3>1, <3>4 DEF SpawnGoto, PauseReasons
    <3>5. CASE \E why \in PauseReasons : RollbackFor(r, why)
      <4> PICK why \in PauseReasons : RollbackFor(r, why)
        BY <3>5
      <4>1. resp' = [resp EXCEPT ![r] = [resp[r] EXCEPT !.pc = "rollback", !.reason = why]]
        BY DEF RollbackFor, RespawnTypeOK
      <4> QED
        BY <3>1, <4>1 DEF SpawnPc
    <3>6. CASE StopRespawn(r)
      BY <3>2, <3>6 DEF StopRespawn
    <3> QED
      BY <1>3, <3>3, <3>4, <3>5, <3>6 DEF ClaimUnauthorized, ClaimFinish, ClaimBlocked,
         ClaimRefused, LaunchFails, LaunchReturns, RecordSpawned, StopWaiting, WaitTimeout,
         CrashRespawn, SpawnPc, PauseReasons
  <2> QED
    BY <2>1, <2>2, <2>3, SpawnerStep
<1> QED
  BY <1>1, <1>2, <1>3 DEF SpawnStep

-----------------------------------------------------------------------------
(* However many respawners there are, and wherever they crash, the host of a *)
(* child is started at most once.                                            *)
THEOREM LaunchOnce == Spec => []LaunchedOnce
<1>1. KernelTypeOK /\ LeaseInv /\ LaunchInv /\ [Next]_vars => LaunchInv'
  <2> SUFFICES ASSUME KernelTypeOK, LeaseInv, LaunchInv, [Next]_vars PROVE LaunchInv'
    OBVIOUS
  <2>1. CASE (LeaseNext \/ RecoveryNext) /\ UNCHANGED <<emit, resp, launches>>
    BY <2>1, LeaseNextLaunch, RecoveryNextLaunch DEF KernelTypeOK
  <2>2. CASE HandoffNext /\ UNCHANGED <<resp, launches>>
    BY <2>2, HandoffNextLaunch
  <2>3. CASE RespawnNext
    BY <2>3, RespawnNextLaunch DEF KernelTypeOK
  <2>4. CASE UNCHANGED vars
    BY <2>4, ChainStep DEF vars, chainVars, Open
  <2> QED
    BY <2>1, <2>2, <2>3, <2>4 DEF Next
<1>2. LaunchInv => LaunchedOnce
  BY DEF LaunchInv, LaunchedOnce
<1> QED
  BY <1>1, <1>2, InitLaunch, Typing, LeaseSafety, PTL DEF Spec

-----------------------------------------------------------------------------
(* What the links of the chain rest on: a row is of an id that was drawn,    *)
(* and the child of a handoff that is only reserved has none yet.            *)
Reserved == lease.phase = "reserved" /\ ~RecoveryInFlight

LinkInv == /\ LinksAgree
           /\ \A s \in Session : sess[s].row => s \in minted
           /\ Reserved => ~HasRow(lease.child)

(* LinksAgree, one session at a time.                                        *)
Linked(p)  == sess[p].row /\ sess[p].succ # None
Link(p)    == Linked(p) => HasRow(sess[p].succ)
                           /\ p \in {sess[sess[p].succ].parent, sess[sess[p].succ].from}
Alone(p, q) == Linked(p) /\ Linked(q) /\ sess[p].succ = sess[q].succ => p = q

OneByOne == \A p, q \in Session : Link(p) /\ Alone(p, q)

LEMMA LinksOneByOne == TypeOK => (LinksAgree <=> OneByOne)
<1> SUFFICES ASSUME TypeOK PROVE LinksAgree <=> OneByOne
  OBVIOUS
<1>1. \A p \in Session : sess[p].succ \in Optional
  BY DEF TypeOK, SessionRow
<1>2. \A p, c \in Session : p \in Predecessors(c) <=> sess[p].row /\ sess[p].succ = c
  BY DEF Predecessors
<1>3. \A c \in Session : Predecessors(c) \subseteq Session
  BY DEF Predecessors
<1>4. ASSUME LinksAgree, NEW p \in Session, NEW q \in Session PROVE Link(p) /\ Alone(p, q)
  BY <1>1, <1>2, <1>4 DEF LinksAgree, Link, Alone, Linked
<1>5. ASSUME \A p, q \in Session : Link(p) /\ Alone(p, q) PROVE LinksAgree
  <2> SUFFICES ASSUME NEW p \in Session, Linked(p)
               PROVE  LET c == sess[p].succ
                      IN  /\ HasRow(c) /\ p \in {sess[c].parent, sess[c].from}
                          /\ Predecessors(c) = {p}
    BY DEF LinksAgree, Linked
  <2>1. sess[p].succ \in Session
    BY <1>1 DEF Linked
  <2>2. \A q \in Predecessors(sess[p].succ) : q = p
    BY <1>2, <1>3, <1>5, <2>1 DEF Alone, Linked
  <2>3. p \in Predecessors(sess[p].succ)
    BY <1>2, <2>1 DEF Linked
  <2> QED
    BY <1>5, <2>2, <2>3 DEF Link
<1> QED
  BY <1>4, <1>5 DEF OneByOne

LEMMA LinksOneByOneNext == TypeOK' => (LinksAgree' <=> OneByOne')
  BY LinksOneByOne, PTL

(* What a step may do to a row without making or moving a link.              *)
OldRow(s) == /\ sess'[s].row = sess[s].row
             /\ sess'[s].parent = sess[s].parent /\ sess'[s].from = sess[s].from
             /\ sess'[s].succ \in {sess[s].succ, None}

(* A child is reserved only with an id just drawn.                           *)
ReservesFresh == Reserved' => \/ Reserved /\ lease'.child = lease.child
                              \/ lease'.child \notin minted

LEMMA OldRows ==
  ASSUME TypeOK, TypeOK', LinkInv, \A s \in Session : OldRow(s),
         minted \subseteq minted', ReservesFresh
  PROVE  LinkInv'
<1>1. \A p, q \in Session : Link(p) /\ Alone(p, q)
  BY LinksOneByOne DEF LinkInv, OneByOne
<1>2. \A p \in Session : sess[p].succ \in Optional /\ lease'.child \in Optional
  BY DEF TypeOK, SessionRow, Lease
<1>3. \A p, q \in Session : (Link(p) /\ Alone(p, q))'
  BY <1>1, <1>2 DEF Link, Alone, Linked, OldRow, HasRow
<1>4. LinksAgree'
  BY <1>3, LinksOneByOneNext DEF OneByOne
<1>5. \A s \in Session : sess'[s].row => s \in minted'
  BY DEF LinkInv, OldRow
<1>6. Reserved' => ~HasRow(lease.child)'
  BY <1>2 DEF LinkInv, OldRow, HasRow, ReservesFresh
<1> QED
  BY <1>4, <1>5, <1>6 DEF LinkInv

LEMMA SameChain ==
  ASSUME TypeOK, TypeOK', LinkInv, UNCHANGED <<lease, sess, minted>>
  PROVE  LinkInv'
<1>1. \A s \in Session : OldRow(s)
  BY DEF OldRow
<1> QED
  BY <1>1, OldRows DEF ReservesFresh, Reserved, RecoveryInFlight

(* A new session is appended behind one that has its old predecessor.        *)
LEMMA NewLink ==
  ASSUME TypeOK, TypeOK', LinkInv, NEW p \in Session, NEW c \in Session, p # c,
         ~sess[c].row, sess[p].row,
         \A s \in Session \ {p, c} : sess'[s] = sess[s],
         sess'[c].row, sess'[c].succ = None, p \in {sess'[c].parent, sess'[c].from},
         sess'[p].row, sess'[p].succ = c, sess'[p].parent = sess[p].parent,
         sess'[p].from = sess[p].from
  PROVE  LinksAgree'
<1>1. \A s, q \in Session : Link(s) /\ Alone(s, q)
  BY LinksOneByOne DEF LinkInv, OneByOne
<1>2. \A s \in Session : sess[s].succ \in Optional
  BY DEF TypeOK, SessionRow
<1>3. \A s \in Session : Link(s)'
  BY <1>1, <1>2 DEF Link, Linked, HasRow
<1>4. \A s \in Session : Linked(s) => sess[s].succ # c
  BY <1>1 DEF Link, HasRow
<1>5. \A s, q \in Session : Alone(s, q)'
  BY <1>1, <1>4 DEF Alone, Linked
<1> QED
  BY <1>3, <1>5, LinksOneByOneNext DEF OneByOne

(* A session is given up: it is linked behind its parent, where it was       *)
(* already if it had a row, and its replacement behind it.                   *)
LEMMA TwoLinks ==
  ASSUME TypeOK, TypeOK', LinkInv, NEW parent \in Session, NEW stale \in Session,
         NEW replacement \in Session,
         parent # stale, replacement \notin {parent, stale},
         ~sess[replacement].row, sess[parent].row,
         sess[stale].row => sess[parent].succ = stale,
         \A s \in Session \ {parent, stale, replacement} : sess'[s] = sess[s],
         sess'[replacement].row, sess'[replacement].succ = None,
         sess'[replacement].from = stale,
         sess'[stale].row, sess'[stale].succ = replacement, sess'[stale].parent = parent,
         sess'[parent].row, sess'[parent].succ = stale,
         sess'[parent].parent = sess[parent].parent, sess'[parent].from = sess[parent].from
  PROVE  LinksAgree'
<1>1. \A s, q \in Session : Link(s) /\ Alone(s, q)
  BY LinksOneByOne DEF LinkInv, OneByOne
<1>2. \A s \in Session : sess[s].succ \in Optional
  BY DEF TypeOK, SessionRow
<1>3. \A s \in Session \ {parent} : Linked(s) => sess[s].succ \notin {stale, replacement}
  BY <1>1 DEF Link, Alone, Linked, HasRow
<1>4. \A s \in Session : Link(s)'
  BY <1>1, <1>2, <1>3 DEF Link, Linked, HasRow
<1>5. \A s, q \in Session : Alone(s, q)'
  BY <1>1, <1>3 DEF Alone, Linked
<1> QED
  BY <1>4, <1>5, LinksOneByOneNext DEF OneByOne

-----------------------------------------------------------------------------
LEMMA InitLinks == Init => LinkInv
<1> SUFFICES ASSUME Init PROVE LinkInv
  OBVIOUS
<1>1. \A s \in Session : sess[s].succ = None /\ (sess[s].row => s = Root)
  BY DEF Init, ChainInit, NoSession
<1> QED
  BY <1>1 DEF Init, ChainInit, LinkInv, LinksAgree, Reserved

LEMMA LeaseNextLinks == ASSUME TypeOK, TypeOK', LinkInv, LeaseNext PROVE LinkInv'
<1>1. \A s \in Session : sess[s] \in SessionRow
  BY DEF TypeOK
<1>2. ASSUME NEW o \in Session, AcquireTakeover(o) \/ AcquireRecovered(o) PROVE LinkInv'
  <2>1. \A s \in Session : OldRow(s)
    BY <1>1, <1>2 DEF AcquireTakeover, AcquireRecovered, OldRow, SessionRow, TypeOK
  <2>2. ~Reserved' /\ minted \subseteq minted'
    BY <1>2 DEF AcquireTakeover, AcquireRecovered, RecoveredLease, Reserved
  <2> QED
    BY <2>1, <2>2, OldRows DEF ReservesFresh
<1>3. ASSUME \/ ReleaseLease \/ Expire
             \/ \E reason \in PauseReasons \ {"none"} : PausePreserve(reason) \/ PauseRollback(reason)
      PROVE  LinkInv'
  <2>1. \A s \in Session : OldRow(s)
    BY <1>3 DEF ReleaseLease, Expire, PausePreserve, PauseRollback, OldRow
  <2>2. minted' = minted /\ ReservesFresh
    BY <1>3, ZenonT(60) DEF ReleaseLease, Expire, PausePreserve, PauseRollback, ReservesFresh, Reserved,
       RecoveryInFlight, TypeOK, Lease
  <2> QED
    BY <2>1, <2>2, OldRows
<1>4. ASSUME BindScope \/ \E proof \in WorkStates : CloseScope(proof) PROVE LinkInv'
  <2>1. \A s \in Session : OldRow(s)
    BY <1>1, <1>4 DEF BindScope, CloseScope, OldRow, SessionRow, TypeOK
  <2>2. UNCHANGED <<lease, minted>>
    BY <1>4 DEF BindScope, CloseScope
  <2> QED
    BY <2>1, <2>2, OldRows DEF ReservesFresh, Reserved, RecoveryInFlight
<1>5. ASSUME UNCHANGED <<lease, sess, minted>> PROVE LinkInv'
  BY <1>5, SameChain
<1> QED
  BY <1>2, <1>3, <1>4, <1>5 DEF LeaseNext, FinishRun, ExhaustBudget, TripBreaker, ExtendBudget,
     ResetBreaker, MeetLimit, BusinessWrite

-----------------------------------------------------------------------------
LEMMA SupersedeLinks ==
  ASSUME TypeOK, TypeOK', LinkInv, NEW c \in Session, SupersedeAffinity(c)
  PROVE  LinkInv'
<1> DEFINE p == Owner
<1>1. /\ p \in Session /\ sess[p].row /\ c \notin minted
      /\ sess' = [sess EXCEPT ![p].retired = TRUE, ![p].succ = c,
                              ![c] = Replacement("affinity-supersession", p, "bound")]
      /\ lease' = RecoveryLease("affinity-supersession", c, None)
      /\ minted' = minted \cup {c}
  BY OwnerTyped DEF SupersedeAffinity, AffinityReady, OpenAffinity, IsOpenScope, HasRow
<1> HIDE DEF p
<1>2. ~sess[c].row /\ p # c
  BY <1>1 DEF LinkInv
<1>3. /\ sess'[c] = Replacement("affinity-supersession", p, "bound")
      /\ \A s \in Session \ {p, c} : sess'[s] = sess[s]
  BY <1>1 DEF TypeOK
<1>4. sess'[p] = [sess[p] EXCEPT !.retired = TRUE, !.succ = c]
  BY <1>1, <1>2 DEF TypeOK
<1>5. /\ sess'[p].row /\ sess'[p].succ = c /\ sess'[p].parent = sess[p].parent
      /\ sess'[p].from = sess[p].from
  BY <1>1, <1>4 DEF TypeOK, SessionRow
<1>6. sess'[c].row /\ sess'[c].succ = None /\ sess'[c].from = p
  BY <1>3 DEF Replacement, NoSession
<1>7. LinksAgree'
  BY <1>1, <1>2, <1>3, <1>5, <1>6, NewLink
<1>8. \A s \in Session : sess'[s].row => s \in minted'
  BY <1>1, <1>3 DEF LinkInv
<1>9. RecoveryInFlight'
  BY <1>1 DEF RecoveryLease, RecoveryInFlight, TypeOK, Lease
<1> QED
  BY <1>7, <1>8, <1>9 DEF LinkInv, Reserved

(* The three sources of a boundary recovery: its stale session has no row    *)
(* yet, or is the successor of its parent.                                   *)
LEMMA SourceLinks ==
  ASSUME TypeOK, LeaseInv, LinkInv, BoundaryRecoverable
  PROVE  LET stale == StaleSession  parent == StaleParent
         IN  /\ stale \in Session /\ parent \in Session /\ stale # parent
             /\ stale \in minted /\ parent \in minted /\ sess[parent].row
             /\ sess[stale].row => sess[parent].succ = stale
<1>1. Owner \in Session /\ sess[Owner].row /\ Owner \in minted
  BY OwnerTyped DEF BoundaryRecoverable, HasRow, LinkInv
<1>2. CASE ReservedSource
  <2>1. /\ StaleSession = lease.child /\ StaleParent = Owner /\ lease.child # None
        /\ ~sess[lease.child].row
    BY <1>2 DEF ReservedSource, StaleSession, StaleParent, HasRow
  <2> QED
    BY <1>1, <2>1 DEF LeaseInv, ReservedIsMinted, Owner, TypeOK, Lease
<1>3. CASE EmittedSource
  <2>1. /\ StaleSession = lease.child /\ StaleParent = Owner /\ lease.child # None
        /\ sess[Owner].succ = lease.child
    BY <1>3 DEF EmittedSource, StaleSession, StaleParent, HasRow
  <2> QED
    BY <1>1, <2>1 DEF LeaseInv, ReservedIsMinted, Owner, TypeOK, Lease
<1>4. CASE AcquiredSource
  <2>1. /\ StaleSession = Owner /\ StaleParent = sess[Owner].parent
        /\ sess[Owner].succ = None /\ HasRow(sess[Owner].parent)
        /\ sess[sess[Owner].parent].succ = Owner
    BY <1>4 DEF AcquiredSource, StaleSession, StaleParent, ClosedScope
  <2>2. sess[Owner].parent \in Session
    BY <1>1, <2>1 DEF HasRow, TypeOK, SessionRow
  <2> QED
    BY <1>1, <2>1, <2>2 DEF HasRow, LinkInv
<1> QED
  BY <1>2, <1>3, <1>4 DEF BoundaryRecoverable

LEMMA RecoverLinks ==
  ASSUME TypeOK, TypeOK', LeaseInv, LinkInv, NEW replacement \in Session,
         RecoverBoundary(replacement)
  PROVE  LinkInv'
<1> DEFINE stale  == StaleSession
           parent == StaleParent
           row    == Abandoned([sess[stale] EXCEPT !.parent = parent], replacement)
<1>1. /\ stale \in Session /\ parent \in Session /\ stale # parent
      /\ stale \in minted /\ parent \in minted /\ sess[parent].row
      /\ sess[stale].row => sess[parent].succ = stale
  BY SourceLinks DEF RecoverBoundary
<1>2. /\ replacement \notin minted
      /\ sess' = [sess EXCEPT
                    ![stale] = Abandoned([@ EXCEPT !.parent = parent], replacement),
                    ![parent].succ = stale, ![parent].retired = TRUE,
                    ![replacement] = Replacement("boundary-recovery", stale, "unbound")]
      /\ lease' = RecoveryLease("boundary-recovery", replacement, parent)
      /\ minted' = minted \cup {replacement}
  BY DEF RecoverBoundary
<1> HIDE DEF stale, parent
<1>3. replacement \notin {stale, parent} /\ ~sess[replacement].row
  BY <1>1, <1>2 DEF LinkInv
<1>4. /\ sess'[replacement] = Replacement("boundary-recovery", stale, "unbound")
      /\ sess'[stale] = row
      /\ sess'[parent] = [sess[parent] EXCEPT !.succ = stale, !.retired = TRUE]
      /\ \A s \in Session \ {parent, stale, replacement} : sess'[s] = sess[s]
  BY <1>1, <1>2, <1>3 DEF TypeOK
<1>5. row.row /\ row.succ = replacement /\ row.parent = parent
  BY <1>1 DEF Abandoned, TypeOK, SessionRow
<1> HIDE DEF row
<1>6. /\ sess'[stale].row /\ sess'[stale].succ = replacement /\ sess'[stale].parent = parent
      /\ sess'[replacement].row /\ sess'[replacement].succ = None
      /\ sess'[replacement].from = stale
  BY <1>4, <1>5 DEF Replacement, NoSession
<1>7. /\ sess'[parent].row /\ sess'[parent].succ = stale
      /\ sess'[parent].parent = sess[parent].parent /\ sess'[parent].from = sess[parent].from
  BY <1>1, <1>4 DEF TypeOK, SessionRow
<1>8. LinksAgree'
  BY <1>1, <1>3, <1>4, <1>6, <1>7, TwoLinks
<1>9. \A s \in Session : sess'[s].row => s \in minted'
  BY <1>1, <1>2, <1>4 DEF LinkInv
<1>10. RecoveryInFlight'
  BY <1>2 DEF RecoveryLease, RecoveryInFlight, TypeOK, Lease
<1> QED
  BY <1>8, <1>9, <1>10 DEF LinkInv, Reserved

LEMMA RecoveryNextLinks ==
  ASSUME TypeOK, TypeOK', LeaseInv, LinkInv, RecoveryNext PROVE LinkInv'
<1>1. ASSUME NEW o \in Session, AcquireAffinity(o) PROVE LinkInv'
  <2>1. \A s \in Session : sess[s] \in SessionRow
    BY DEF TypeOK
  <2>2. sess[o].from \in Session
    BY <1>1, <2>1 DEF AcquireAffinity, MayAcquireAffinity, RecoveryReserved, HasRow, SessionRow
  <2>3. \A s \in Session : OldRow(s)
    BY <1>1, <2>1, <2>2 DEF AcquireAffinity, OldRow, SessionRow, TypeOK
  <2>4. ~Reserved' /\ minted' = minted
    BY <1>1 DEF AcquireAffinity, RecoveredLease, Reserved
  <2> QED
    BY <2>3, <2>4, OldRows DEF ReservesFresh
<1> QED
  BY <1>1, SupersedeLinks, RecoverLinks DEF RecoveryNext

-----------------------------------------------------------------------------
LEMMA CommitLinks ==
  ASSUME TypeOK, TypeOK', LeaseInv, LinkInv, NEW e \in Emitter, CommitEmit(e)
  PROVE  LinkInv'
<1> DEFINE c == lease.child
           p == lease.owner
<1>1. /\ emit[e].child = c /\ emit[e].owner = p /\ sess[p].row /\ Reserved
      /\ sess' = [sess EXCEPT ![c] = ChildRow(p), ![p].succ = c, ![p].retired = TRUE]
      /\ lease'.phase = "emitted" /\ minted' = minted
  BY DEF CommitEmit, BoundaryReady, BoundaryReservable, Fenced, ClosedScope, HasRow, Owner, Reserved,
     TypeOK, Lease
<1>2. c \in Session /\ p \in Session /\ c # p /\ c \in minted /\ c # None
  BY <1>1 DEF LeaseInv, ReservedIsMinted, Reserved, TypeOK, Lease
<1>3. ~sess[c].row
  BY <1>1, <1>2 DEF LinkInv, HasRow
<1> HIDE DEF c, p
<1>4. /\ sess'[c] = ChildRow(p)
      /\ sess'[p] = [sess[p] EXCEPT !.succ = c, !.retired = TRUE]
      /\ \A s \in Session \ {p, c} : sess'[s] = sess[s]
  BY <1>1, <1>2 DEF TypeOK
<1>5. /\ sess'[p].row /\ sess'[p].succ = c /\ sess'[p].parent = sess[p].parent
      /\ sess'[p].from = sess[p].from
  BY <1>1, <1>2, <1>4 DEF TypeOK, SessionRow
<1>6. sess'[c].row /\ sess'[c].succ = None /\ p \in {sess'[c].parent, sess'[c].from}
  BY <1>4 DEF ChildRow, NoSession
<1>7. sess[p].row /\ p # c
  BY <1>1, <1>2
<1>8. LinksAgree'
  BY <1>2, <1>3, <1>4, <1>5, <1>6, <1>7, NewLink
<1>9. \A s \in Session : sess'[s].row => s \in minted'
  BY <1>1, <1>2, <1>4 DEF LinkInv
<1> QED
  BY <1>1, <1>8, <1>9 DEF LinkInv, Reserved

LEMMA HandoffNextLinks ==
  ASSUME TypeOK, TypeOK', LeaseInv, LinkInv, HandoffNext PROVE LinkInv'
<1>1. PICK e \in Emitter : EmitStep(e) \/ CrashEmit(e)
  BY DEF HandoffNext
<1>2. ASSUME UndoReserve(e) \/ \E child \in Session : Reserve(e, child) PROVE LinkInv'
  <2>1. \A s \in Session : OldRow(s)
    BY <1>2 DEF UndoReserve, Reserve, OldRow
  <2>2. minted \subseteq minted' /\ ReservesFresh
    BY <1>2, ZenonT(60) DEF UndoReserve, Reserve, ReservesFresh, Reserved, TypeOK, Lease
  <2> QED
    BY <2>1, <2>2, OldRows
<1>3. ASSUME UNCHANGED <<lease, sess, minted>> PROVE LinkInv'
  BY <1>3, SameChain
<1> QED
  BY <1>1, <1>2, <1>3, CommitLinks DEF EmitStep, CrashEmit, StartEmit, JoinReservation,
     RefuseReserve, Snapshot, AlreadyEmitted, FailCommit, GiveUpUndo, chainVars

(* A late rollback unlinks a child, and leaves no reservation.               *)
LEMMA RespawnNextLinks ==
  ASSUME TypeOK, TypeOK', LinkInv, RespawnNext PROVE LinkInv'
<1>1. PICK r \in Respawner : SpawnStep(r) \/ CrashRespawn(r)
  BY DEF RespawnNext
<1>2. ASSUME NEW child, sess' = Invalidated(child), lease' = ReturnedLease, minted' = minted
      PROVE  LinkInv'
  <2>1. \A s \in Session : sess[s] \in SessionRow
    BY DEF TypeOK
  <2>2. \A s \in Session : OldRow(s)
    BY <1>2, <2>1 DEF Invalidated, OldRow, SessionRow
  <2>3. ~Reserved'
    BY <1>2 DEF ReturnedLease, Reserved, TypeOK, Lease
  <2> QED
    BY <1>2, <2>2, <2>3, OldRows DEF ReservesFresh
<1>3. ASSUME UNCHANGED <<lease, sess, minted>> PROVE LinkInv'
  BY <1>3, SameChain
<1>4. ASSUME ClaimSpawn(r) \/ PreservePause(r) PROVE LinkInv'
  <2>1. \A s \in Session : OldRow(s)
    BY <1>4 DEF ClaimSpawn, PreservePause, OldRow, chainVars
  <2>2. minted' = minted /\ ReservesFresh
    BY <1>4 DEF ClaimSpawn, PreservePause, ReservesFresh, Reserved, RecoveryInFlight, chainVars,
       TypeOK, Lease
  <2> QED
    BY <2>1, <2>2, OldRows
<1>5. ASSUME RollbackAndPause(r) \/ CancelForFinish(r) PROVE LinkInv'
  BY <1>2, <1>3, <1>5 DEF RollbackAndPause, CancelForFinish, chainVars
<1> QED
  BY <1>1, <1>3, <1>4, <1>5 DEF SpawnStep, CrashRespawn, StartRespawn, ClaimUnauthorized,
     ClaimFinish, ClaimBlocked, ClaimRefused, Launch, LaunchFails, LaunchReturns,
     RecordSpawned, StopWaiting, WaitTimeout, chainVars

(* The links, and what keeps them whole: a reserved child has no row yet,    *)
(* and every session with a row was drawn.                                   *)
THEOREM LinkSafety == Spec => []LinkInv
<1>1. KernelTypeOK /\ KernelTypeOK' /\ LeaseInv /\ LinkInv /\ [Next]_vars => LinkInv'
  <2> SUFFICES ASSUME TypeOK, TypeOK', LeaseInv, LinkInv, [Next]_vars PROVE LinkInv'
    BY DEF KernelTypeOK
  <2>1. CASE UNCHANGED vars
    BY <2>1, SameChain DEF vars, chainVars
  <2>2. CASE Next
    BY <2>2, LeaseNextLinks, RecoveryNextLinks, HandoffNextLinks, RespawnNextLinks DEF Next
  <2> QED
    BY <2>1, <2>2
<1> QED
  BY <1>1, InitLinks, Typing, LeaseSafety, PTL DEF Spec

(* The chain is one chain, for any number of emitters, respawners and        *)
(* recoveries: each successor has a row that names its predecessor, and      *)
(* nobody else's successor it is.                                            *)
THEOREM ChainIsLinked == Spec => []LinksAgree
<1>1. LinkInv => LinksAgree
  BY DEF LinkInv
<1> QED
  BY <1>1, LinkSafety, PTL

-----------------------------------------------------------------------------
(* Without respawners (a run that people attend), the sessions that are not  *)
(* retired are one at most, and it has no successor yet.                     *)
Attended == Respawner = {}

Live(s) == sess[s].row /\ ~sess[s].retired

LiveInv == /\ \A s, t \in Session : Live(s) /\ Live(t) => s = t
           /\ \A s \in Session : Live(s) => sess[s].succ = None

LEMMA InitLive == Init => LiveInv
<1> SUFFICES ASSUME Init PROVE LiveInv
  OBVIOUS
<1>1. \A s \in Session : sess[s].succ = None /\ (sess[s].row => s = Root)
  BY DEF Init, ChainInit, NoSession
<1> QED
  BY <1>1 DEF LiveInv, Live

(* A step that gives no row to a session, and gives none back.               *)
LEMMA SameLive ==
  ASSUME LiveInv,
         \A s \in Session : /\ sess'[s].row => sess[s].row
                            /\ sess'[s].retired = sess[s].retired
                            /\ sess'[s].succ = sess[s].succ
  PROVE  LiveInv'
  BY DEF LiveInv, Live

(* A step that gives a row to one session, and retires whoever was live.     *)
LEMMA NextLive ==
  ASSUME NEW c \in Session, sess'[c].succ = None,
         \A s \in Session : s # c => ~Live(s)'
  PROVE  LiveInv'
  BY DEF LiveInv, Live

LEMMA LeaseNextLive == ASSUME TypeOK, LiveInv, LeaseNext PROVE LiveInv'
<1>1. \A s \in Session : sess[s] \in SessionRow
  BY DEF TypeOK
<1>2. ASSUME NEW o \in Session, AcquireTakeover(o) \/ AcquireRecovered(o) PROVE LiveInv'
  <2>1. \A s \in Session : /\ sess'[s].row = sess[s].row /\ sess'[s].retired = sess[s].retired
                           /\ sess'[s].succ = sess[s].succ
    BY <1>1, <1>2 DEF AcquireTakeover, AcquireRecovered, SessionRow, TypeOK
  <2> QED
    BY <2>1, SameLive
<1>3. ASSUME BindScope \/ \E proof \in WorkStates : CloseScope(proof) PROVE LiveInv'
  <2>1. \A s \in Session : /\ sess'[s].row = sess[s].row /\ sess'[s].retired = sess[s].retired
                           /\ sess'[s].succ = sess[s].succ
    BY <1>1, <1>3 DEF BindScope, CloseScope, SessionRow, TypeOK
  <2> QED
    BY <2>1, SameLive
<1>4. ASSUME UNCHANGED sess PROVE LiveInv'
  BY <1>4, SameLive
<1> QED
  BY <1>2, <1>3, <1>4 DEF LeaseNext, ReleaseLease, Expire, PausePreserve, PauseRollback, FinishRun,
     ExhaustBudget, TripBreaker, ExtendBudget, ResetBreaker, MeetLimit, BusinessWrite

LEMMA SupersedeLive ==
  ASSUME TypeOK, LiveInv, NEW c \in Session, SupersedeAffinity(c) PROVE LiveInv'
<1> DEFINE p == Owner
<1>1. /\ p \in Session /\ Live(p)
      /\ sess' = [sess EXCEPT ![p].retired = TRUE, ![p].succ = c,
                              ![c] = Replacement("affinity-supersession", p, "bound")]
  BY OwnerTyped DEF SupersedeAffinity, AffinityReady, OpenAffinity, IsOpenScope, HasRow, Live
<1> HIDE DEF p
<1>2. /\ sess'[c] = Replacement("affinity-supersession", p, "bound")
      /\ \A s \in Session \ {p, c} : sess'[s] = sess[s]
      /\ p # c => sess'[p].retired
  BY <1>1 DEF TypeOK, SessionRow
<1>3. sess'[c].succ = None
  BY <1>2 DEF Replacement, NoSession
<1>4. \A s \in Session : s # c => ~Live(s)'
  BY <1>1, <1>2 DEF LiveInv, Live
<1> QED
  BY <1>3, <1>4, NextLive

LEMMA RecoverLive ==
  ASSUME TypeOK, LeaseInv, LinkInv, LiveInv, NEW replacement \in Session,
         RecoverBoundary(replacement)
  PROVE  LiveInv'
<1> DEFINE stale  == StaleSession
           parent == StaleParent
<1>1. stale \in Session /\ parent \in Session /\ stale # parent
  BY SourceLinks DEF RecoverBoundary
<1>2. Live(parent) \/ Live(stale)
  BY DEF RecoverBoundary, BoundaryRecoverable, ReservedSource, EmittedSource, AcquiredSource,
     StaleSession, StaleParent, IsOpenScope, ClosedBy, ClosedScope, HasRow, Live
<1>3. sess' = [sess EXCEPT
                 ![stale] = Abandoned([@ EXCEPT !.parent = parent], replacement),
                 ![parent].succ = stale, ![parent].retired = TRUE,
                 ![replacement] = Replacement("boundary-recovery", stale, "unbound")]
  BY DEF RecoverBoundary
<1> HIDE DEF stale, parent
<1>4. /\ sess'[replacement] = Replacement("boundary-recovery", stale, "unbound")
      /\ \A s \in Session \ {stale, parent, replacement} : sess'[s] = sess[s]
      /\ parent # replacement => sess'[parent].retired
      /\ stale # replacement => sess'[stale].retired
  BY <1>1, <1>3, ZenonT(60) DEF TypeOK, SessionRow, Abandoned
<1>5. sess'[replacement].succ = None
  BY <1>4 DEF Replacement, NoSession
<1>6. \A s \in Session : s # replacement => ~Live(s)'
  BY <1>1, <1>2, <1>4 DEF LiveInv, Live
<1> QED
  BY <1>5, <1>6, NextLive

LEMMA AffinityLive ==
  ASSUME TypeOK, LiveInv, NEW o \in Session, AcquireAffinity(o) PROVE LiveInv'
<1>1. \A s \in Session : sess[s] \in SessionRow
  BY DEF TypeOK
<1>2. \A s \in Session : /\ sess'[s].row = sess[s].row /\ sess'[s].retired = sess[s].retired
                         /\ sess'[s].succ = sess[s].succ
  BY <1>1 DEF AcquireAffinity, SessionRow, TypeOK
<1> QED
  BY <1>2, SameLive

LEMMA CommitLive ==
  ASSUME TypeOK, LiveInv, NEW e \in Emitter, CommitEmit(e) PROVE LiveInv'
<1> DEFINE c == lease.child
           p == lease.owner
<1>1. /\ emit[e].child = c /\ emit[e].owner = p /\ p \in Session /\ Live(p)
      /\ sess' = [sess EXCEPT ![c] = ChildRow(p), ![p].succ = c, ![p].retired = TRUE]
  BY OwnerTyped DEF CommitEmit, BoundaryReady, BoundaryReservable, Fenced, ClosedScope, HasRow, Owner,
     Live
<1> HIDE DEF c, p
<1>2. /\ \A s \in Session \ {p, c} : sess'[s] = sess[s]
      /\ sess'[p].retired
      /\ c \in Session /\ c # p => sess'[c] = ChildRow(p)
      /\ c \in Session /\ c = p => sess'[c].succ = c
  BY <1>1 DEF TypeOK, SessionRow, ChildRow, NoSession
<1>3. \A s \in Session : s # c => ~Live(s)'
  BY <1>1, <1>2 DEF LiveInv, Live
<1>4. \A s \in Session : s = c /\ Live(s)' => sess'[s].succ = None
  BY <1>2 DEF ChildRow, NoSession, Live
<1> QED
  BY <1>3, <1>4 DEF LiveInv

LEMMA LiveStep ==
  ASSUME Attended, KernelTypeOK, LeaseInv, LinkInv, LiveInv, [Next]_vars PROVE LiveInv'
<1> USE DEF KernelTypeOK
<1>1. ASSUME UNCHANGED sess PROVE LiveInv'
  BY <1>1, SameLive
<1>2. CASE LeaseNext \/ RecoveryNext
  BY <1>2, LeaseNextLive, SupersedeLive, RecoverLive, AffinityLive DEF RecoveryNext
<1>3. CASE HandoffNext
  <2>1. PICK e \in Emitter : EmitStep(e) \/ CrashEmit(e)
    BY <1>3 DEF HandoffNext
  <2> QED
    BY <1>1, <2>1, CommitLive DEF EmitStep, CrashEmit, StartEmit, JoinReservation, Reserve,
       UndoReserve, RefuseReserve, Snapshot, AlreadyEmitted, FailCommit, GiveUpUndo, chainVars
<1>4. ~RespawnNext
  BY DEF Attended, RespawnNext
<1> QED
  BY <1>1, <1>2, <1>3, <1>4 DEF Next, vars, chainVars

(* The invariant of a run that people attend.                                *)
THEOREM LiveSafety == ASSUME Attended PROVE Spec => []LiveInv
<1>1. KernelTypeOK /\ LeaseInv /\ LinkInv /\ LiveInv /\ [Next]_vars => LiveInv'
  BY LiveStep
<1> QED
  BY <1>1, InitLive, Typing, LeaseSafety, LinkSafety, PTL DEF Spec

-----------------------------------------------------------------------------
(* At most one session may write in a scope of its own.                      *)
THEOREM OneScopeOpen == ASSUME Attended PROVE Spec => []OneOpenScope
<1>1. LiveInv => OneOpenScope
  <2> SUFFICES ASSUME LiveInv PROVE Cardinality(OpenScopes) <= 1
    BY DEF OneOpenScope
  <2>1. \A s, t \in OpenScopes : s = t
    BY DEF LiveInv, Live, OpenScopes, IsOpenScope, HasRow
  <2>2. CASE OpenScopes = {}
    BY <2>2, FS_EmptySet
  <2>3. ASSUME NEW s \in OpenScopes PROVE Cardinality(OpenScopes) <= 1
    <3>1. OpenScopes = {s}
      BY <2>1
    <3>2. Cardinality({s}) = 1
      BY FS_Singleton
    <3> QED
      BY <3>1, <3>2
  <2> QED
    BY <2>2, <2>3
<1> QED
  BY <1>1, LiveSafety, PTL

(* A person may always abandon the child of a handoff that was paused with   *)
(* its reservation kept.                                                     *)
THEOREM PausedHandoffIsRecoverable ==
  ASSUME Attended PROVE Spec => []PreservedHandoffIsRecoverable
<1>1. KernelTypeOK /\ LeaseInv /\ LiveInv => PreservedHandoffIsRecoverable
  <2> SUFFICES ASSUME TypeOK, LeaseInv, LiveInv, status = "paused", lease.state = "releasing"
               PROVE  BoundaryRecoverable
    BY DEF PreservedHandoffIsRecoverable, KernelTypeOK
  <2> DEFINE c == lease.child
             p == sess[c].parent
  <2>1. /\ lease.phase \in {"emitted", "spawned"} /\ lease.takeover = "boundary-handoff"
        /\ TopologyOK /\ lease.event = Owner /\ c # Owner
        /\ ~sess[c].started /\ sess[c].outcome = "none" /\ sess[c].recovery = "none"
    BY DEF LeaseInv, HandoffCommitted, Committed
  <2>2. /\ HasRow(c) /\ sess[c].scope = "unbound" /\ ~sess[c].retired
        /\ p = Owner /\ ClosedScope(Owner) /\ sess[Owner].succ = c
    BY <2>1 DEF TopologyOK
  <2>3. c \in Session /\ Live(c)
    BY <2>2, OwnerTyped DEF HasRow, Live, Optional
  <2>8. sess[c].succ = None
    BY <2>3 DEF LiveInv
  <2>4. OpenScopes \subseteq {c}
    BY <2>3 DEF LiveInv, OpenScopes, IsOpenScope, HasRow, Live
  <2>5. EmittedSource
    BY <2>1, <2>2, <2>3, <2>8 DEF EmittedSource, ClosedBy, IsOpenScope
  <2>6. HasRow(Owner) /\ ~OpenAffinity
    BY <2>2 DEF ClosedScope, OpenAffinity, IsOpenScope
  <2>7. ~RecoveryInFlight /\ StaleSession = c
    BY <2>1 DEF RecoveryInFlight, Recoveries, StaleSession
  <2> QED
    BY <2>4, <2>5, <2>6, <2>7 DEF BoundaryRecoverable
<1> QED
  BY <1>1, Typing, LeaseSafety, LiveSafety, PTL

-----------------------------------------------------------------------------
(* A recovery reservation is left in one way only: its replacement takes the *)
(* lease, in the next generation and with no safety gate closed.             *)
Stands == \/ lease' = lease
          \/ /\ lease'.owner = lease.child /\ lease'.state = "active"
             /\ lease'.generation = lease.generation + 1
             /\ ~SafetyBlocked

LEMMA LeaseNextStands ==
  ASSUME TypeOK, LeaseInv, RecoveryInFlight, LeaseNext PROVE Stands
<1>1. ASSUME NEW o \in Session, AcquireTakeover(o) \/ AcquireRecovered(o) PROVE Stands
  BY <1>1 DEF AcquireTakeover, MayTakeOver, AcquireRecovered, MayAcquireRecovered, RecoveredLease,
     Stands
<1>2. ~Expire
  BY DEF Expire, LeaseInv, OnlyHandoffExpires, RecoveryInFlight, Recoveries
<1>3. ~ReleaseLease /\ \A why \in PauseReasons : ~PausePreserve(why) /\ ~PauseRollback(why)
  BY DEF ReleaseLease, PausePreserve, PauseRollback, MayPause
<1>4. ASSUME UNCHANGED lease PROVE Stands
  BY <1>4 DEF Stands
<1> QED
  BY <1>1, <1>2, <1>3, <1>4 DEF LeaseNext, FinishRun, ExhaustBudget, TripBreaker, ExtendBudget,
     ResetBreaker, MeetLimit, BindScope, CloseScope, BusinessWrite

THEOREM RecoveryHolds == ASSUME Attended PROVE Spec => RecoveryStands
<1>1. KernelTypeOK /\ LeaseInv /\ [Next]_vars => [RecoveryInFlight => Stands]_vars
  <2> SUFFICES ASSUME TypeOK, LeaseInv, RecoveryInFlight, Next PROVE Stands
    BY DEF KernelTypeOK
  <2>1. ASSUME NEW o \in Session, SupersedeAffinity(o) \/ RecoverBoundary(o) PROVE FALSE
    BY <2>1 DEF SupersedeAffinity, AffinityReady, RecoverBoundary, BoundaryRecoverable
  <2>2. ASSUME NEW o \in Session, AcquireAffinity(o) PROVE Stands
    BY <2>2 DEF AcquireAffinity, MayAcquireAffinity, RecoveredLease, Stands
  <2>3. ASSUME NEW e \in Emitter, EmitStep(e) \/ CrashEmit(e) PROVE Stands
    BY <2>3 DEF EmitStep, CrashEmit, StartEmit, Reserve, MayReserve, JoinReservation, RefuseReserve,
       Snapshot, AlreadyEmitted, CommitEmit, BoundaryReady, FailCommit, UndoReserve, MayUndo,
       GiveUpUndo, chainVars, Stands
  <2>4. ~RespawnNext
    BY DEF Attended, RespawnNext
  <2> QED
    BY <2>1, <2>2, <2>3, <2>4, LeaseNextStands DEF Next, RecoveryNext, HandoffNext
<1>2. Spec => []KernelTypeOK
  BY Typing
<1>3. Spec => []LeaseInv
  BY LeaseSafety
<1> QED
  BY <1>1, <1>2, <1>3, PTL DEF Spec, RecoveryStands, Stands
=============================================================================
