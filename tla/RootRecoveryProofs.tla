------------------------- MODULE RootRecoveryProofs -------------------------
(* Ownership survives the moves of a project: for any sessions, emitters,    *)
(* places and number of moves, RootRecovery implements Ownership, its term   *)
(* being the generation less the epochs that rebindings have opened.  A      *)
(* rebinding may put a deadline away but never makes one, so that, as in     *)
(* the kernel, only the child of a handoff gains by an expiry.               *)
EXTENDS RootRecovery, ChainTyping, FiniteSetTheorems

Fields == {"owner", "generation", "state", "phase", "child", "event", "expires", "takeover"}

(* A session that releases, pauses, moves or is recovered keeps the fields   *)
(* that fence the run, and only a handoff has a deadline.                    *)
LeaseFields ==
  /\ DOMAIN lease = Fields
  /\ lease.owner \in Session /\ lease.generation \in Nat /\ lease.child \in Optional
  /\ lease.expires # "none" => lease.takeover = "boundary-handoff"

MoveInv == LeaseFields /\ binding \in Nat

Taken(o) == /\ lease.state # "active" /\ lease.child \in {None, o}
            /\ lease'.owner = o /\ lease'.generation = lease.generation + 1
            /\ lease'.state = "active" /\ lease'.child = None
            /\ binding' = binding

Stays == /\ lease'.owner = lease.owner
         /\ lease'.generation + binding = lease.generation + binding'

(* What a step does to the fence.                                            *)
Steps == MoveInv' /\ (Stays \/ \E o \in Session : Taken(o))

USE RootAssumption, BoundAssumption DEF Optional, Fields

LEMMA KeptSteps ==
  ASSUME MoveInv, UNCHANGED <<lease, binding>>
  PROVE  Steps
  BY DEF MoveInv, LeaseFields, Steps, Stays

(* Within an epoch, a lease whose owner and generation stay.                 *)
LEMMA StaysSteps ==
  ASSUME MoveInv, LeaseFields', UNCHANGED binding,
         lease'.owner = lease.owner, lease'.generation = lease.generation
  PROVE  Steps
  BY DEF MoveInv, Steps, Stays

LEMMA TakenSteps ==
  ASSUME MoveInv, NEW o \in Session, lease.state # "active", lease.child \in {None, o},
         lease' = RecoveredLease(o), UNCHANGED binding
  PROVE  Steps
<1>1. Taken(o)
  BY DEF RecoveredLease, Taken
<1>2. MoveInv'
  BY DEF MoveInv, LeaseFields, RecoveredLease
<1> QED
  BY <1>1, <1>2 DEF Steps

LEMMA AcquireSteps ==
  ASSUME MoveInv, UNCHANGED binding, NEW o \in Session, AcquireTakeover(o) \/ AcquireRecovered(o)
  PROVE  Steps
<1>1. lease.state # "active" /\ lease.child \in {None, o}
  BY DEF AcquireTakeover, MayTakeOver, Takeable, NotReservedForOther, AcquireRecovered,
         MayAcquireRecovered, RecoveryReserved, MoveInv, LeaseFields
<1>2. lease' = RecoveredLease(o)
  BY DEF AcquireTakeover, AcquireRecovered, RecoveredLease
<1> QED
  BY <1>1, <1>2, TakenSteps

LEMMA LeaseSteps == ASSUME MoveInv, UNCHANGED binding, LeaseNext PROVE Steps
<1>1. CASE \E o \in Session : AcquireTakeover(o) \/ AcquireRecovered(o)
  BY <1>1, AcquireSteps
<1>2. CASE ReleaseLease \/ Expire
  <2>1. /\ LeaseFields'
        /\ lease'.owner = lease.owner /\ lease'.generation = lease.generation
    BY <1>2 DEF ReleaseLease, Expire, MoveInv, LeaseFields
  <2> QED
    BY <2>1, StaysSteps
<1>3. CASE \E reason \in PauseReasons \ {"none"} : PausePreserve(reason) \/ PauseRollback(reason)
  <2>1. /\ LeaseFields'
        /\ lease'.owner = lease.owner /\ lease'.generation = lease.generation
    BY <1>3 DEF PausePreserve, PauseRollback, MoveInv, LeaseFields
  <2> QED
    BY <2>1, StaysSteps
<1>4. CASE UNCHANGED lease
  BY <1>4, KeptSteps
<1> QED
  BY <1>1, <1>2, <1>3, <1>4 DEF LeaseNext, FinishRun, ExhaustBudget, TripBreaker, ExtendBudget,
     ResetBreaker, MeetLimit, BindScope, CloseScope, BusinessWrite

LEMMA ReservationFields ==
  ASSUME LeaseFields, NEW kind, NEW o \in Session, NEW event
  PROVE  LET new == RecoveryLease(kind, o, event)
         IN  /\ DOMAIN new = Fields /\ new.owner = lease.owner
             /\ new.generation = lease.generation /\ new.child = o /\ new.expires = "none"
  BY DEF LeaseFields, RecoveryLease

LEMMA RecoverySteps ==
  ASSUME MoveInv, UNCHANGED binding, RecoveryNext
  PROVE  Steps
<1>1. PICK o \in Session : SupersedeAffinity(o) \/ RecoverBoundary(o) \/ AcquireAffinity(o)
  BY DEF RecoveryNext
<1>2. CASE SupersedeAffinity(o) \/ RecoverBoundary(o)
  <2>1. PICK kind, event : lease' = RecoveryLease(kind, o, event)
    BY <1>2 DEF SupersedeAffinity, RecoverBoundary
  <2>2. /\ LeaseFields'
        /\ lease'.owner = lease.owner /\ lease'.generation = lease.generation
    BY <2>1, ReservationFields DEF MoveInv, LeaseFields
  <2> QED
    BY <2>2, StaysSteps
<1>3. CASE AcquireAffinity(o)
  <2>1. lease.state # "active" /\ lease.child = o /\ lease' = RecoveredLease(o)
    BY <1>3 DEF AcquireAffinity, MayAcquireAffinity, RecoveryReserved
  <2> QED
    BY <2>1, TakenSteps
<1> QED
  BY <1>1, <1>2, <1>3

LEMMA EmitterSteps ==
  ASSUME MoveInv, UNCHANGED binding, NEW e \in Emitter, EmitStep(e) \/ CrashEmit(e) \/ UNCHANGED chainVars
  PROVE  Steps
<1>1. CASE CommitEmit(e) \/ UndoReserve(e) \/ \E child \in Session : Reserve(e, child)
  <2>1. /\ LeaseFields'
        /\ lease'.owner = lease.owner /\ lease'.generation = lease.generation
    BY <1>1, ZenonT(60) DEF CommitEmit, UndoReserve, Reserve, MoveInv, LeaseFields
  <2> QED
    BY <2>1, StaysSteps
<1>2. CASE UNCHANGED lease
  BY <1>2, KeptSteps
<1> QED
  BY <1>1, <1>2 DEF EmitStep, CrashEmit, StartEmit, JoinReservation, RefuseReserve, Snapshot,
     AlreadyEmitted, FailCommit, GiveUpUndo, chainVars

(* Both the epoch and the generation advance, so the term stays.             *)
LEMMA ExecuteSteps == ASSUME MoveInv, NEW o \in orders, Execute(o) PROVE Steps
<1>1. CASE Rebind
  <2>1. /\ LeaseFields' /\ lease'.owner = lease.owner
        /\ lease'.generation = lease.generation + 1 /\ binding' = binding + 1
    BY <1>1 DEF Rebind, Rebound, MoveInv, LeaseFields
  <2> QED
    BY <2>1 DEF MoveInv, LeaseFields, Steps, Stays
<1>2. ASSUME NEW replacement \in Session, Relocate(replacement) PROVE Steps
  <2> DEFINE reserved == RecoveryLease(Kind, replacement, None)
  <2>1. /\ DOMAIN reserved = Fields /\ reserved.owner = lease.owner
        /\ reserved.generation = lease.generation /\ reserved.child = replacement
        /\ reserved.expires = "none"
    BY ReservationFields DEF MoveInv
  <2>2. lease' = [reserved EXCEPT !.generation = @ + 1] /\ binding' = binding + 1
    BY <1>2 DEF Relocate, ReservedLease, Rebound
  <2> HIDE DEF reserved
  <2>3. /\ LeaseFields' /\ lease'.owner = lease.owner
        /\ lease'.generation = lease.generation + 1
    BY <2>1, <2>2 DEF MoveInv, LeaseFields
  <2> QED
    BY <2>2, <2>3 DEF MoveInv, LeaseFields, Steps, Stays
<1> QED
  BY <1>1, <1>2 DEF Execute

LEMMA AcquireRootSteps == ASSUME MoveInv, NEW o \in Session, AcquireRoot(o) PROVE Steps
<1>1. lease.state # "active" /\ lease.child = o
  BY DEF AcquireRoot, RootReserved, ReservationWhole, AnyRecoveryReserved, RecoveryReserved
<1>2. lease' = RecoveredLease(o) /\ UNCHANGED binding
  BY DEF AcquireRoot, rootVars
<1> QED
  BY <1>1, <1>2, TakenSteps

LEMMA OrdinarySteps == ASSUME MoveInv, Ordinary PROVE Steps
<1>1. UNCHANGED binding
  BY DEF Ordinary
<1>2. CASE OwnerStep
  <2>1. LeaseNext \/ RecoveryNext
    BY <1>2 DEF OwnerStep, RecoveryNext
  <2> QED
    BY <1>1, <2>1, LeaseSteps, RecoverySteps
<1>3. CASE EmitterStep
  <2>1. \E e \in Emitter : EmitStep(e) \/ CrashEmit(e) \/ UNCHANGED chainVars
    BY <1>3 DEF EmitterStep, EmitStep
  <2> QED
    BY <1>1, <2>1, EmitterSteps
<1> QED
  BY <1>2, <1>3 DEF Ordinary

LEMMA NextSteps == ASSUME MoveInv, [Next]_vars PROVE Steps
<1>1. CASE UNCHANGED vars
  BY <1>1, KeptSteps DEF vars, chainVars, rootVars
<1>2. CASE (\E place \in Place : Move(place)) \/ Diagnose \/ Relieve
  BY <1>2, KeptSteps DEF Move, Diagnose, Relieve, chainVars, rootVars
<1> QED
  BY <1>1, <1>2, OrdinarySteps, ExecuteSteps, AcquireRootSteps DEF Next

LEMMA StepsRefine ==
  ASSUME MoveInv, Steps
  PROVE  Held!Next
<1>1. CASE Stays
  <2>1. (lease'.generation + 1) - binding' = (lease.generation + 1) - binding
    BY <1>1 DEF Steps, Stays, MoveInv, LeaseFields
  <2>2. (lease.state = "active")' \in BOOLEAN
    BY Zenon
  <2>3. lease'.child \in Session \cup {None}
    BY DEF Steps, MoveInv, LeaseFields
  <2>4. Held!Arrange
    BY <1>1, <2>1, <2>2, <2>3 DEF Held!Arrange, Stays
  <2> QED
    BY <2>4 DEF Held!Next
<1>2. ASSUME NEW o \in Session, Taken(o) PROVE Held!Next
  <2>1. (lease'.generation + 1) - binding' = ((lease.generation + 1) - binding) + 1
    BY <1>2 DEF Taken, MoveInv, LeaseFields
  <2>2. Held!TakeUp(o)
    BY <1>2, <2>1 DEF Held!TakeUp, Taken
  <2> QED
    BY <2>2 DEF Held!Next
<1> QED
  BY <1>1, <1>2 DEF Steps

LEMMA InitMoves == Init => MoveInv /\ Held!Init
  BY DEF Init, ChainInit, RootInit, MoveInv, LeaseFields, Held!Init

(* However a project is moved, rebound and recovered, and whatever the       *)
(* emitters and people of the run do in between, the lease is laid down      *)
(* before it is taken and goes to the session it is reserved for, in the     *)
(* next term.                                                                *)
THEOREM MovesKeepOwnership == Spec => OwnershipAcrossMoves
<1>1. MoveInv /\ [Next]_vars => MoveInv' /\ [Held!Next]_(Held!ownershipVars)
  BY NextSteps, StepsRefine DEF Steps
<1> QED
  BY <1>1, InitMoves, PTL DEF Spec, OwnershipAcrossMoves, Held!Spec

-----------------------------------------------------------------------------
(* Types: what ChainTyping has of the chain, and what a person remembers.    *)
OrderType == [kind : {"none"} \cup Recoveries, candidate : Place, root : Place,
              binding : Nat, owner : Session, generation : 1..MaxGeneration]

RootTypeOK == /\ TypeOK /\ HandoffTypeOK
              /\ at \in Place /\ root \in Place /\ binding \in Nat \ {0}
              /\ epoch \in [Session -> Nat] /\ rooted \subseteq Session
              /\ orders \subseteq OrderType /\ moves \in 0..MaxMoves

USE DEF States, Phases, Recoveries, Takeovers

LEMMA InitRootTyped == Init => RootTypeOK
<1> SUFFICES ASSUME Init PROVE RootTypeOK
  OBVIOUS
<1>1. TypeOK
  BY ChainInitTyped DEF Init
<1>2. HandoffTypeOK
  BY DEF Init, HandoffInit, HandoffTypeOK, EmitterIdle, EmitterState, EmitterPc
<1> QED
  BY <1>1, <1>2, PlaceAssumption, MovesAssumption DEF Init, RootInit, RootTypeOK

(* A relocation writes rows: those it retires, and the one it adds.          *)
LEMMA TombstoneTyped ==
  ASSUME NEW row \in SessionRow, NEW replacement \in Session
  PROVE  Tombstone(row, replacement) \in SessionRow
  BY DEF Tombstone, SessionRow

LEMMA RelocateTyped ==
  ASSUME RootTypeOK, lease.generation < MaxGeneration, NEW replacement \in Session,
         Relocate(replacement)
  PROVE  RootTypeOK'
<1>1. lease' \in Lease
  <2> DEFINE reserved == RecoveryLease(Kind, replacement, None)
  <2>1. reserved \in Lease /\ reserved.generation = lease.generation
    BY DEF RootTypeOK, TypeOK, Lease, RecoveryLease, Relocate
  <2>2. lease' = [reserved EXCEPT !.generation = @ + 1]
    BY DEF Relocate, ReservedLease
  <2>3. lease.generation + 1 \in 1..MaxGeneration
    BY DEF RootTypeOK, TypeOK, Lease
  <2> HIDE DEF reserved
  <2> QED
    BY <2>1, <2>2, <2>3 DEF Lease
<1>2. sess' \in [Session -> SessionRow]
  <2>1. Stale \in Session /\ \A s \in Session : sess[s] \in SessionRow
    BY DEF RootTypeOK, TypeOK, Lease, Stale
  <2>2. \A scope \in {"bound", "unbound"} : Replacement(Kind, Stale, scope) \in SessionRow
    BY <2>1 DEF Relocate, Replacement, NoSession, SessionRow
  <2>3. PICK scope \in {"bound", "unbound"} :
          sess' = [s \in Session |->
                     IF s = replacement THEN Replacement(Kind, Stale, scope)
                     ELSE IF Retired(s) THEN Tombstone(sess[s], replacement) ELSE sess[s]]
    BY DEF Relocate
  <2> QED
    BY <2>1, <2>2, <2>3, TombstoneTyped
<1>3. TypeOK'
  BY <1>1, <1>2 DEF RootTypeOK, TypeOK, Relocate, Rebound, Write
<1>4. HandoffTypeOK'
  BY DEF RootTypeOK, HandoffTypeOK, Relocate, Rebound
<1> QED
  BY <1>3, <1>4 DEF RootTypeOK, Relocate, Rebound

LEMMA RebindTyped ==
  ASSUME RootTypeOK, lease.generation < MaxGeneration, Rebind
  PROVE  RootTypeOK'
<1>1. lease' \in Lease
  <2>1. lease' = [lease EXCEPT !.generation = @ + 1, !.expires = "none"]
    BY DEF Rebind
  <2>2. lease.generation + 1 \in 1..MaxGeneration
    BY DEF RootTypeOK, TypeOK, Lease
  <2> QED
    BY <2>1, <2>2 DEF RootTypeOK, TypeOK, Lease
<1> QED
  BY <1>1 DEF RootTypeOK, TypeOK, HandoffTypeOK, Rebind, Rebound, Write

LEMMA AcquireRootTyped ==
  ASSUME RootTypeOK, NEW o \in Session, AcquireRoot(o)
  PROVE  RootTypeOK'
<1>1. lease' \in Lease
  BY DEF RootTypeOK, TypeOK, Lease, AcquireRoot, RecoveredLease
<1>2. sess' \in [Session -> SessionRow]
  <2>1. [sess[o] EXCEPT !.started = TRUE] \in SessionRow
    BY RowUpdates DEF RootTypeOK, TypeOK
  <2>2. sess' = [sess EXCEPT ![o] = [sess[o] EXCEPT !.started = TRUE]]
    BY DEF AcquireRoot
  <2> QED
    BY <2>1, <2>2 DEF RootTypeOK, TypeOK
<1> QED
  BY <1>1, <1>2 DEF RootTypeOK, TypeOK, HandoffTypeOK, AcquireRoot, Write, rootVars, PauseReasons

LEMMA OrdinaryTyped == ASSUME RootTypeOK, Ordinary PROVE RootTypeOK'
<1>1. UNCHANGED <<at, root, binding, rooted, orders, moves>>
  BY DEF Ordinary
<1>2. epoch' \in [Session -> Nat]
  BY DEF RootTypeOK, Ordinary, OwnerStep, EmitterStep
<1>3. CASE OwnerStep
  <2>1. LeaseNext \/ RecoveryNext
    BY <1>3 DEF OwnerStep, RecoveryNext
  <2>2. TypeOK'
    BY <2>1, LeaseNextTyped, RecoveryNextTyped DEF RootTypeOK
  <2>3. HandoffTypeOK'
    BY <1>3 DEF OwnerStep, RootTypeOK, HandoffTypeOK
  <2> QED
    BY <1>1, <1>2, <2>2, <2>3 DEF RootTypeOK
<1>4. CASE EmitterStep
  <2>1. PICK e \in Emitter : EmitStep(e) \/ CrashEmit(e) \/ (StopEmit(e) /\ UNCHANGED chainVars)
    BY <1>4 DEF EmitterStep, EmitStep
  <2>2. CASE EmitStep(e) \/ CrashEmit(e)
    BY <1>1, <1>2, <2>2, HandoffNextTyped DEF RootTypeOK, HandoffNext
  <2>3. CASE StopEmit(e) /\ UNCHANGED chainVars
    BY <1>1, <1>2, <2>3, EmitterUpdates DEF RootTypeOK, TypeOK, chainVars
  <2> QED
    BY <2>1, <2>2, <2>3
<1> QED
  BY <1>3, <1>4 DEF Ordinary

LEMMA DiagnoseTyped == ASSUME RootTypeOK, Diagnose PROVE RootTypeOK'
<1>1. Kind \in {"none"} \cup Recoveries
  BY DEF Diagnose, Kind, RecoveryInFlight
<1>2. Order \in OrderType
  BY <1>1 DEF Order, OrderType, RootTypeOK, TypeOK, Lease
<1> QED
  BY <1>2 DEF Diagnose, RootTypeOK, TypeOK, HandoffTypeOK, chainVars

LEMMA NextRootTyped == ASSUME RootTypeOK, [Next]_vars PROVE RootTypeOK'
<1>1. ASSUME NEW o \in orders, Execute(o) PROVE RootTypeOK'
  BY <1>1, RebindTyped, RelocateTyped DEF Execute
<1>2. ASSUME NEW place \in Place, Move(place) PROVE RootTypeOK'
  BY <1>2, MovesAssumption DEF Move, RootTypeOK, TypeOK, HandoffTypeOK, chainVars
<1>3. CASE Relieve
  BY <1>3 DEF Relieve, RootTypeOK, TypeOK, HandoffTypeOK, Write, rootVars
<1>4. CASE UNCHANGED vars
  BY <1>4 DEF vars, chainVars, rootVars, RootTypeOK, TypeOK, HandoffTypeOK
<1> QED
  BY <1>1, <1>2, <1>3, <1>4, OrdinaryTyped, DiagnoseTyped, AcquireRootTyped DEF Next

(* Whatever is moved and rebound, every variable keeps its type.             *)
THEOREM RootTyping == Spec => []RootTypeOK
<1>1. RootTypeOK /\ [Next]_vars => RootTypeOK'
  BY NextRootTyped
<1> QED
  BY <1>1, InitRootTyped, PTL DEF Spec

-----------------------------------------------------------------------------
(* Neither the generation of a run nor its epoch goes back, and either       *)
(* change that spends a command advances the generation: no command is of a  *)
(* later generation than the run's, and a spent one is of an earlier one.    *)
SpentInv ==
  /\ spent \subseteq orders
  /\ \A o \in orders : o.generation <= lease.generation
  /\ \A o \in spent : o.generation < lease.generation

LEMMA InitSpent == Init => SpentInv
  BY DEF Init, RootInit, SpentInv

(* What a step does to the generation, the root and the commands.            *)
Advances == \/ /\ lease'.generation = lease.generation
               /\ lease'.owner = lease.owner /\ root' = root
            \/ lease'.generation = lease.generation + 1

LEMMA ExecuteAdvances ==
  ASSUME RootTypeOK, NEW o \in orders, Execute(o)
  PROVE  lease'.generation = lease.generation + 1
<1>1. CASE Rebind
  BY <1>1 DEF Rebind, RootTypeOK, TypeOK, Lease
<1>2. ASSUME NEW replacement \in Session, Relocate(replacement)
      PROVE  lease'.generation = lease.generation + 1
  <2> DEFINE reserved == RecoveryLease(Kind, replacement, None)
  <2>1. reserved \in Lease /\ reserved.generation = lease.generation
    BY <1>2 DEF RootTypeOK, TypeOK, Lease, RecoveryLease, Relocate
  <2>2. lease' = [reserved EXCEPT !.generation = @ + 1]
    BY <1>2 DEF Relocate, ReservedLease
  <2> HIDE DEF reserved
  <2> QED
    BY <2>1, <2>2 DEF Lease
<1> QED
  BY <1>1, <1>2 DEF Execute

LEMMA NextAdvances ==
  ASSUME RootTypeOK, MoveInv, Next
  PROVE  Advances
<1>1. CASE Ordinary
  <2>1. UNCHANGED <<binding, root>>
    BY <1>1 DEF Ordinary
  <2> QED
    BY <1>1, <2>1, OrdinarySteps DEF Steps, Stays, Taken, Advances, MoveInv, LeaseFields
<1>2. CASE (\E place \in Place : Move(place)) \/ Diagnose \/ Relieve
  BY <1>2 DEF Move, Diagnose, Relieve, chainVars, rootVars, Advances
<1>3. ASSUME NEW o \in Session, AcquireRoot(o) PROVE Advances
  <2>1. UNCHANGED <<binding, root>>
    BY <1>3 DEF AcquireRoot, rootVars
  <2> QED
    BY <1>3, <2>1, AcquireRootSteps DEF Steps, Stays, Taken, Advances, MoveInv, LeaseFields
<1> QED
  BY <1>1, <1>2, <1>3, ExecuteAdvances DEF Next, Advances

LEMMA NextSpent ==
  ASSUME RootTypeOK, MoveInv, SpentInv, [Next]_vars
  PROVE  SpentInv'
<1>1. CASE UNCHANGED vars
  BY <1>1 DEF vars, chainVars, rootVars, SpentInv
<1>2. CASE Next
  <2>1. Advances
    BY <1>2, NextAdvances
  <2>2. /\ lease.generation \in Nat /\ lease'.generation \in Nat
        /\ \A o \in orders : o.generation \in Nat
    BY <2>1, BoundAssumption DEF RootTypeOK, TypeOK, Lease, OrderType, Advances
  <2>3. orders' = orders \/ (orders' = orders \cup {Order} /\ UNCHANGED <<lease, root>>)
    BY <1>2 DEF Next, Ordinary, Move, Diagnose, Execute, Rebind, Relocate, Rebound, AcquireRoot,
       Relieve, chainVars, rootVars
  <2>4. spent' = (IF lease'.owner # lease.owner \/ root' # root THEN orders ELSE spent)
    BY <1>2 DEF Next, Spend
  <2>5. Order.generation = lease.generation
    BY DEF Order
  <2>6. CASE UNCHANGED <<lease, root>>
    BY <2>2, <2>3, <2>4, <2>5, <2>6 DEF SpentInv
  <2>7. CASE orders' = orders
    BY <2>1, <2>2, <2>4, <2>7 DEF SpentInv, Advances
  <2> QED
    BY <2>3, <2>6, <2>7
<1> QED
  BY <1>1, <1>2

(* However often the project comes back and goes to the same place again, a  *)
(* command that was given before the present owner took the lease, or before *)
(* the run was bound to its present root, is refused.                        *)
THEOREM SpentCommandsFail == Spec => SpentCommandsAreRefused
<1>1. RootTypeOK /\ MoveInv /\ SpentInv /\ [Next]_vars => MoveInv' /\ SpentInv'
  BY NextSpent, NextSteps DEF Steps
<1>2. MoveInv /\ SpentInv => \A o \in spent : ~Execute(o)
  <2> SUFFICES ASSUME MoveInv, SpentInv, NEW o \in spent, Execute(o) PROVE FALSE
    OBVIOUS
  <2>1. o.generation = lease.generation
    BY DEF Execute, Stands
  <2>2. lease.generation \in Nat /\ o.generation < lease.generation
    BY DEF SpentInv, MoveInv, LeaseFields
  <2> QED
    BY <2>1, <2>2
<1>3. MoveInv /\ SpentInv => [\A o \in spent : ~Execute(o)]_vars
  BY <1>2
<1> QED
  BY <1>1, <1>3, InitMoves, InitSpent, RootTyping, PTL DEF Spec, SpentCommandsAreRefused

-----------------------------------------------------------------------------
(* Ids are drawn before they are used: the owner, the child and every row    *)
(* and successor in the chain have one, and a session without a row has done *)
(* nothing.                                                                  *)
Drawn == /\ lease.owner \in minted /\ lease.child \in minted \cup {None}
         /\ lease.owner # lease.child /\ rooted \subseteq minted
         /\ \A s \in Session :
              /\ sess[s].row => s \in minted
              /\ sess[s].succ \in minted \cup {None}
              /\ ~sess[s].row => ~sess[s].started /\ sess[s].scope = "unbound"

(* At any time only finitely many ids are drawn, one by one.                 *)
LEMMA FewDrawn == Spec => []IsFiniteSet(minted)
<1>1. Init => IsFiniteSet(minted)
  <2>1. Init => minted = {Root}
    BY DEF Init, ChainInit
  <2>2. IsFiniteSet({Root})
    BY FS_Singleton
  <2> QED
    BY <2>1, <2>2
<1>2. IsFiniteSet(minted) /\ [Next]_vars => IsFiniteSet(minted)'
  <2> SUFFICES ASSUME IsFiniteSet(minted), [Next]_vars PROVE IsFiniteSet(minted')
    OBVIOUS
  <2>1. minted' = minted \/ \E o \in Session : minted' = minted \cup {o}
    <3>1. ASSUME LeaseNext \/ RecoveryNext
          PROVE  minted' = minted \/ \E o \in Session : minted' = minted \cup {o}
      BY <3>1 DEF LeaseNext, AcquireTakeover, AcquireRecovered, ReleaseLease, Expire, PausePreserve,
         PauseRollback, FinishRun, ExhaustBudget, TripBreaker, ExtendBudget, ResetBreaker, MeetLimit,
         BindScope, CloseScope, BusinessWrite, RecoveryNext, SupersedeAffinity, RecoverBoundary,
         AcquireAffinity
    <3>2. ASSUME EmitterStep
          PROVE  minted' = minted \/ \E o \in Session : minted' = minted \cup {o}
      BY <3>2 DEF EmitterStep, StartEmit, Reserve, JoinReservation, RefuseReserve, Snapshot,
         AlreadyEmitted, CommitEmit, FailCommit, UndoReserve, GiveUpUndo, CrashEmit, chainVars
    <3>3. OwnerStep => LeaseNext \/ RecoveryNext
      BY DEF OwnerStep, RecoveryNext
    <3> QED
      BY <3>1, <3>2, <3>3 DEF Next, Ordinary, Move, Diagnose, Execute, Rebind, Relocate,
         AcquireRoot, Relieve, vars, chainVars
  <2> QED
    BY <2>1, FS_AddElement
<1> QED
  BY <1>1, <1>2, PTL DEF Spec

(* Only a replacement for a bound scope has its scope bound before it takes  *)
(* the lease.                                                                *)
HeirUnbound ==
  lease.child # None /\ lease.takeover # "affinity-supersession"
    => sess[lease.child].scope = "unbound"

ReservedInv == Drawn /\ HeirUnbound /\ ReservationStaysWhole

LEMMA InitReserved == Init => ReservedInv
<1> SUFFICES ASSUME Init PROVE ReservedInv
  OBVIOUS
<1>1. \A s \in Session : /\ sess[s].row => s = Root
                         /\ ~sess[s].row => ~sess[s].started
                         /\ sess[s].succ = None /\ sess[s].scope = "unbound"
  BY DEF Init, ChainInit, NoSession
<1>2. lease.owner = Root /\ lease.child = None /\ minted = {Root} /\ rooted = {}
  BY DEF Init, ChainInit, RootInit
<1>3. Drawn
  BY <1>1, <1>2 DEF Drawn
<1> QED
  BY <1>3 DEF Init, ChainInit, ReservedInv, HeirUnbound, ReservationStaysWhole, RecoveryInFlight

(* While a reservation of a recovery waits, the run is paused and released,  *)
(* and nobody else has an open scope.                                        *)
LEMMA InFlight ==
  ASSUME ReservationStaysWhole, RecoveryInFlight
  PROVE  /\ status = "paused" /\ lease.state = "released" /\ lease.phase = "reserved"
         /\ lease.expires = "none" /\ OpenScopes = {lease.child}
  BY DEF ReservationStaysWhole, ReservationWhole, RecoveryReserved

LEMMA NoneInFlight ==
  ASSUME lease'.takeover \notin Recoveries PROVE ReservationStaysWhole'
  BY DEF ReservationStaysWhole, RecoveryInFlight

(* A step that leaves a reservation and what it consists of alone.           *)
LEMMA ReservationKept ==
  ASSUME ReservationStaysWhole, lease'.takeover = lease.takeover,
         RecoveryInFlight =>
           UNCHANGED <<lease, sess, status, pauseReason, binding, epoch, rooted>>
  PROVE  ReservationStaysWhole'
<1>1. CASE RecoveryInFlight
  <2>1. UNCHANGED <<lease, sess, status, pauseReason, binding, epoch, rooted>>
    BY <1>1
  <2>2. /\ ReservationWhole' = ReservationWhole
        /\ RecoveryReserved(lease.takeover)' = RecoveryReserved(lease.takeover)
    BY <2>1 DEF ReservationWhole, RecoveryReserved, OpenScopes, IsOpenScope, HasRow, ClosedScope,
                Predecessors, Owner
  <2> QED
    BY <2>1, <2>2 DEF ReservationStaysWhole, RecoveryInFlight
<1>2. CASE ~RecoveryInFlight
  BY <1>2, NoneInFlight DEF RecoveryInFlight
<1> QED
  BY <1>1, <1>2

(* A step that gives no session a row or a successor.                        *)
RowKept(s) == /\ sess'[s].row = sess[s].row /\ sess'[s].succ = sess[s].succ
              /\ ~sess[s].row => sess'[s] = sess[s]

LEMMA DrawnKept ==
  ASSUME Drawn, \A s \in Session : RowKept(s), minted \subseteq minted', UNCHANGED rooted,
         lease'.owner \in minted', lease'.child \in minted' \cup {None},
         lease'.owner # lease'.child
  PROVE  Drawn'
  BY DEF Drawn, RowKept

(* Nothing of the reservation is changed.                                    *)
LEMMA ChainKept ==
  ASSUME ReservedInv, UNCHANGED <<sess, minted, rooted>>, lease'.owner = lease.owner,
         lease'.child = lease.child, lease'.takeover = lease.takeover,
         RecoveryInFlight => UNCHANGED <<lease, status, pauseReason, binding, epoch>>
  PROVE  ReservedInv'
<1>1. Drawn' /\ HeirUnbound'
  BY DEF ReservedInv, Drawn, HeirUnbound
<1> QED
  BY <1>1, ReservationKept DEF ReservedInv

(* Whoever takes the lease leaves nobody reserved.                           *)
LEMMA TakenKept ==
  ASSUME ReservedInv, NEW o \in Session, lease' = RecoveredLease(o), UNCHANGED rooted,
         \A s \in Session : RowKept(s), minted \subseteq minted', o \in minted'
  PROVE  ReservedInv'
<1>1. /\ lease'.owner = o /\ lease'.child = None /\ lease'.takeover = "none"
  BY DEF RecoveredLease
<1>2. Drawn'
  BY <1>1, DrawnKept DEF ReservedInv
<1> QED
  BY <1>1, <1>2, NoneInFlight DEF ReservedInv, HeirUnbound

LEMMA AcquireReserved ==
  ASSUME RootTypeOK, ReservedInv, UNCHANGED rooted, NEW o \in Session,
         AcquireTakeover(o) \/ AcquireRecovered(o) \/ AcquireAffinity(o) \/ AcquireRoot(o)
  PROVE  ReservedInv'
<1>1. \A s \in Session : sess[s] \in SessionRow
  BY DEF RootTypeOK, TypeOK
<1>2. CASE AcquireTakeover(o)
  <2>1. \A s \in Session : RowKept(s)
    BY <1>1, <1>2 DEF AcquireTakeover, RowKept, SessionRow, Predecessors
  <2>2. lease' = RecoveredLease(o) /\ minted' = minted \cup {o}
    BY <1>2 DEF AcquireTakeover, RecoveredLease
  <2> QED
    BY <2>1, <2>2, TakenKept
<1>3. CASE AcquireRecovered(o) \/ AcquireRoot(o)
  <2>1. /\ o = lease.child /\ HasRow(o) /\ lease' = RecoveredLease(o) /\ UNCHANGED minted
        /\ sess' = [sess EXCEPT ![o].started = TRUE]
    BY <1>3 DEF AcquireRecovered, MayAcquireRecovered, RecoveryReserved, AcquireRoot, RootReserved,
       ReservationWhole, AnyRecoveryReserved
  <2>2. \A s \in Session : RowKept(s)
    BY <1>1, <2>1 DEF RowKept, SessionRow, HasRow, RootTypeOK, TypeOK
  <2>3. o \in minted
    BY <2>1 DEF ReservedInv, Drawn, HasRow
  <2> QED
    BY <2>1, <2>2, <2>3, TakenKept
<1>4. CASE AcquireAffinity(o)
  <2> DEFINE pred == sess[o].from
  <2>1. /\ o = lease.child /\ HasRow(o) /\ HasRow(pred) /\ lease' = RecoveredLease(o)
        /\ sess' = [sess EXCEPT ![o].started = TRUE, ![pred].outcome = "took_over"]
        /\ UNCHANGED minted
    BY <1>4 DEF AcquireAffinity, MayAcquireAffinity, RecoveryReserved
  <2> HIDE DEF pred
  <2>2. \A s \in Session : RowKept(s)
    BY <1>1, <2>1 DEF RowKept, SessionRow, HasRow, RootTypeOK, TypeOK
  <2>3. o \in minted
    BY <2>1 DEF ReservedInv, Drawn, HasRow
  <2> QED
    BY <2>1, <2>2, <2>3, TakenKept
<1> QED
  BY <1>2, <1>3, <1>4

(* A reservation in flight is left alone: its run is released, so nobody     *)
(* passes a fence, and paused by recovery, so that no gate unpauses it.      *)
LEMMA LeaseNextReserved ==
  ASSUME RootTypeOK, ReservedInv, UNCHANGED <<binding, rooted, epoch>>, LeaseNext
  PROVE  ReservedInv'
<1>1. RecoveryInFlight => lease.state = "released" /\ lease.expires = "none"
  BY InFlight DEF ReservedInv
<1>2. CASE \E o \in Session : AcquireTakeover(o) \/ AcquireRecovered(o)
  BY <1>2, AcquireReserved
<1>3. CASE ReleaseLease
  <2>1. /\ UNCHANGED <<sess, minted>> /\ ~RecoveryInFlight
        /\ lease'.owner = lease.owner /\ lease'.child = lease.child
        /\ lease'.takeover = lease.takeover
    BY <1>3 DEF ReleaseLease, RootTypeOK, TypeOK, Lease
  <2> QED
    BY <2>1, ChainKept
<1>4. CASE Expire
  <2>1. /\ UNCHANGED <<sess, minted>> /\ ~RecoveryInFlight
        /\ lease'.owner = lease.owner /\ lease'.child = lease.child
        /\ lease'.takeover = lease.takeover
    BY <1>1, <1>4 DEF Expire, RootTypeOK, TypeOK, Lease
  <2> QED
    BY <2>1, ChainKept
<1>5. ASSUME NEW reason, PausePreserve(reason) \/ PauseRollback(reason) PROVE ReservedInv'
  <2>1. /\ UNCHANGED <<sess, minted>> /\ ~RecoveryInFlight
        /\ lease'.owner = lease.owner /\ lease'.child \in {lease.child, None}
        /\ lease'.takeover = lease.takeover
    BY <1>5 DEF PausePreserve, PauseRollback, MayPause, RootTypeOK, TypeOK, Lease
  <2>2. Drawn' /\ HeirUnbound'
    BY <2>1, OwnerTyped DEF ReservedInv, Drawn, HeirUnbound, RootTypeOK, Owner
  <2> QED
    BY <2>1, <2>2, ReservationKept DEF ReservedInv
<1>6. ASSUME \/ \E final \in {"completed", "stopped"} : FinishRun(final)
             \/ ExhaustBudget \/ TripBreaker \/ ExtendBudget \/ ResetBreaker
             \/ \E limit \in Blockers : MeetLimit(limit)
             \/ \E proof \in WorkStates : BusinessWrite(proof)
      PROVE  ReservedInv'
  <2>1. UNCHANGED <<lease, sess, minted>>
    BY <1>6 DEF FinishRun, ExhaustBudget, TripBreaker, ExtendBudget, ResetBreaker, MeetLimit,
       BusinessWrite
  <2>2. RecoveryInFlight => UNCHANGED <<status, pauseReason>>
    BY <1>1, <1>6 DEF FinishRun, ExhaustBudget, TripBreaker, ExtendBudget, MayExtendBudget,
       ResetBreaker, MayResetBreaker, MeetLimit, BusinessWrite, LeaseCheck
  <2> QED
    BY <2>1, <2>2, ChainKept
<1>7. ASSUME BindScope \/ \E proof \in WorkStates : CloseScope(proof) PROVE ReservedInv'
  <2>1. PICK scope \in {"bound", "closed"} : sess' = [sess EXCEPT ![Owner].scope = scope]
    BY <1>7 DEF BindScope, CloseScope
  <2>2. UNCHANGED <<lease, minted>> /\ ~RecoveryInFlight /\ HasRow(Owner) /\ Owner \in Session
    BY <1>1, <1>7, OwnerTyped DEF BindScope, CloseScope, LeaseCheck, IsOpenScope, RootTypeOK
  <2>3. \A s \in Session : RowKept(s) /\ (s # Owner => sess'[s] = sess[s])
    BY <2>1, <2>2 DEF RowKept, HasRow, RootTypeOK, TypeOK, SessionRow
  <2>4. Drawn'
    BY <2>2, <2>3, DrawnKept DEF ReservedInv, Drawn
  <2>5. HeirUnbound'
    BY <2>2, <2>3 DEF ReservedInv, Drawn, HeirUnbound, RootTypeOK, TypeOK, Lease, Owner
  <2> QED
    BY <2>2, <2>4, <2>5, ReservationKept DEF ReservedInv
<1> QED
  BY <1>2, <1>3, <1>4, <1>5, <1>6, <1>7 DEF LeaseNext

-----------------------------------------------------------------------------
(* Reservations of recover.mjs.  Only the owner had an open scope; it is     *)
(* retired and names the replacement, which has an id just drawn.            *)
LEMMA SupersedeReserved ==
  ASSUME RootTypeOK, IsFiniteSet(minted), ReservedInv, UNCHANGED rooted, NEW c \in Session,
         SupersedeAffinity(c)
  PROVE  ReservedInv'
<1>0. PICK p \in Session : p = lease.owner
  BY OwnerTyped DEF RootTypeOK, Owner
<1> DEFINE new == Replacement("affinity-supersession", p, "bound")
<1>1. /\ p = lease.owner /\ p \in Session /\ HasRow(p) /\ sess[p].scope = "bound" /\ IsOpenScope(p)
      /\ c \notin minted /\ minted' = minted \cup {c} /\ status' = "paused"
  BY <1>0 DEF SupersedeAffinity, AffinityReady, OpenAffinity, IsOpenScope, Owner
<1>w. /\ lease' = RecoveryLease("affinity-supersession", c, None)
      /\ sess' = [sess EXCEPT ![p].retired = TRUE, ![p].succ = c, ![c] = new]
  BY <1>0 DEF SupersedeAffinity, Owner
<1>2. /\ ~sess[c].row /\ c # p /\ c \notin rooted /\ p \in minted
      /\ \A s \in Session : sess[s].succ # c
  BY <1>1 DEF ReservedInv, Drawn, HasRow, Owner
<1>3. OpenScopes = {p}
  <2>1. OpenScopes \in SUBSET minted
    BY DEF ReservedInv, Drawn, OpenScopes, IsOpenScope, HasRow
  <2>2. IsFiniteSet(OpenScopes)
    BY <2>1, FS_Subset
  <2>3. Cardinality(OpenScopes) = 1
    BY DEF SupersedeAffinity, AffinityReady
  <2>4. \E s : OpenScopes = {s}
    BY <2>2, <2>3, FS_Singleton
  <2>5. p \in OpenScopes
    BY <1>1 DEF OpenScopes
  <2> QED
    BY <2>4, <2>5
<1>4. /\ lease'.owner = p /\ lease'.child = c /\ lease'.state = "released"
      /\ lease'.phase = "reserved" /\ lease'.expires = "none"
      /\ lease'.takeover = "affinity-supersession"
  BY <1>0, <1>w DEF RecoveryLease, RootTypeOK, TypeOK, Lease
<1>5. /\ sess'[c].row /\ sess'[c].scope = "bound" /\ sess'[c].from = p /\ ~sess'[c].started
      /\ sess'[c].outcome = "none" /\ sess'[c].succ = None /\ ~sess'[c].retired
      /\ sess'[c].recovery = "affinity-supersession"
  BY <1>w DEF Replacement, NoSession, RootTypeOK, TypeOK
<1>6. /\ sess'[p].row /\ sess'[p].scope = "bound" /\ sess'[p].retired /\ sess'[p].succ = c
      /\ \A s \in Session \ {p, c} : sess'[s] = sess[s]
  BY <1>1, <1>w, <1>2 DEF HasRow, RootTypeOK, TypeOK, SessionRow
<1> HIDE DEF new
<1>7. Drawn'
  <2>1. \A s \in Session :
          /\ sess'[s].row => s \in minted'
          /\ sess'[s].succ \in minted' \cup {None}
          /\ ~sess'[s].row => ~sess'[s].started /\ sess'[s].scope = "unbound"
    <3> TAKE s \in Session
    <3>1. CASE s = c
      BY <1>1, <1>5, <3>1
    <3>2. CASE s = p /\ s # c
      BY <1>1, <1>2, <1>6, <3>2
    <3>3. CASE s \notin {p, c}
      <4>1. /\ sess[s].row => s \in minted
            /\ sess[s].succ \in minted \cup {None}
            /\ ~sess[s].row => ~sess[s].started /\ sess[s].scope = "unbound"
        BY DEF ReservedInv, Drawn
      <4>2. sess'[s] = sess[s] /\ minted' = minted \cup {c}
        BY <1>1, <1>6, <3>3
      <4> QED
        BY <4>1, <4>2
    <3> QED
      BY <3>1, <3>2, <3>3
  <2> QED
    BY <1>1, <1>2, <1>4, <2>1 DEF ReservedInv, Drawn
<1>8. OpenScopes' = {c}
  <2>1. \A s \in Session \ {p, c} : ~(sess[s].row /\ sess[s].scope # "closed" /\ ~sess[s].retired)
    BY <1>3 DEF OpenScopes, IsOpenScope, HasRow
  <2>2. \A s \in Session :
          (sess'[s].row /\ sess'[s].scope # "closed" /\ ~sess'[s].retired) <=> s = c
    BY <1>2, <1>5, <1>6, <2>1
  <2> QED
    BY <2>2 DEF OpenScopes, IsOpenScope, HasRow
<1>9. Predecessors(c)' = {p}
  BY <1>1, <1>2, <1>5, <1>6 DEF Predecessors
<1>10. RecoveryReserved("affinity-supersession")'
  <2>1. c # None /\ p # None
    BY <1>1
  <2>2. HasRow(c)' /\ HasRow(p)' /\ c # p
    BY <1>2, <1>5, <1>6, <2>1 DEF HasRow
  <2> QED
    BY <1>1, <1>4, <1>5, <1>6, <1>8, <1>9, <2>2 DEF RecoveryReserved, Owner
<1> QED
  BY <1>2, <1>4, <1>7, <1>10 DEF ReservedInv, HeirUnbound, ReservationStaysWhole

(* What is given up has a row, or is only reserved; its parent has closed    *)
(* its scope.                                                                *)
LEMMA SourceFacts ==
  ASSUME RootTypeOK, ReservedInv, BoundaryRecoverable
  PROVE  LET stale  == StaleSession
             parent == StaleParent
         IN  /\ stale \in Session /\ parent \in Session /\ stale # parent
             /\ sess[parent].row /\ sess[parent].scope = "closed"
             /\ sess[stale].scope = "unbound"
             /\ \/ lease.owner = parent /\ ~sess[stale].started
                \/ lease.owner = stale /\ sess[stale].started
             /\ stale \in minted /\ parent \in minted
<1>1. /\ lease.owner \in Session /\ lease.child \in Optional
      /\ lease.owner \in minted /\ lease.child \in minted \cup {None} /\ lease.owner # lease.child
      /\ \A s \in Session : sess[s].row => s \in minted
      /\ \A s \in Session : ~sess[s].row => ~sess[s].started /\ sess[s].scope = "unbound"
  BY DEF RootTypeOK, TypeOK, Lease, ReservedInv, Drawn
<1>2. CASE ReservedSource
  BY <1>1, <1>2 DEF ReservedSource, StaleSession, StaleParent, Owner, ClosedBy, ClosedScope, HasRow
<1>3. CASE EmittedSource
  BY <1>1, <1>3 DEF EmittedSource, StaleSession, StaleParent, Owner, ClosedBy, ClosedScope, HasRow
<1>4. CASE AcquiredSource
  <2>1. sess[Owner].parent \in Session
    BY <1>4, SourceTyped DEF RootTypeOK, StaleParent, AcquiredSource
  <2> QED
    BY <1>1, <1>4, <2>1 DEF AcquiredSource, StaleSession, StaleParent, Owner, ClosedScope, HasRow
<1> QED
  BY <1>2, <1>3, <1>4 DEF BoundaryRecoverable

LEMMA RecoverReserved ==
  ASSUME RootTypeOK, ReservedInv, UNCHANGED rooted, NEW c \in Session, RecoverBoundary(c)
  PROVE  ReservedInv'
<1>0. PICK stale \in Session, parent \in Session : stale = StaleSession /\ parent = StaleParent
  BY SourceFacts DEF RecoverBoundary
<1> DEFINE new == Replacement("boundary-recovery", stale, "unbound")
<1>1. /\ stale # parent /\ sess[parent].row /\ sess[parent].scope = "closed"
      /\ sess[stale].scope = "unbound" /\ stale \in minted /\ parent \in minted
      /\ \/ lease.owner = parent /\ ~sess[stale].started
         \/ lease.owner = stale /\ sess[stale].started
  BY <1>0, SourceFacts DEF RecoverBoundary
<1>2. /\ c \notin minted /\ minted' = minted \cup {c}
      /\ status' = "paused" /\ OpenScopes \subseteq {stale}
  BY <1>0 DEF RecoverBoundary, BoundaryRecoverable
<1>w. /\ lease' = RecoveryLease("boundary-recovery", c, parent)
      /\ sess' = [sess EXCEPT
                    ![stale] = Abandoned([@ EXCEPT !.parent = parent], c),
                    ![parent].succ = stale, ![parent].retired = TRUE, ![c] = new]
  BY <1>0 DEF RecoverBoundary
<1>3. /\ ~sess[c].row /\ c \notin {stale, parent} /\ c \notin rooted
      /\ lease.owner \in minted /\ \A s \in Session : sess[s].succ # c
  BY <1>1, <1>2 DEF ReservedInv, Drawn
<1>4. /\ lease'.owner = lease.owner /\ lease'.child = c /\ lease'.state = "released"
      /\ lease'.phase = "reserved" /\ lease'.expires = "none" /\ lease'.event = parent
      /\ lease'.takeover = "boundary-recovery"
  BY <1>w DEF RecoveryLease, RootTypeOK, TypeOK, Lease
<1>5. sess'[c] = new /\ \A s \in Session \ {stale, parent, c} : sess'[s] = sess[s]
  BY <1>w, <1>3 DEF RootTypeOK, TypeOK
<1>6. /\ sess'[stale] = Abandoned([sess[stale] EXCEPT !.parent = parent], c)
      /\ sess'[parent] = [sess[parent] EXCEPT !.succ = stale, !.retired = TRUE]
  BY <1>1, <1>w, <1>3 DEF RootTypeOK, TypeOK
<1>7. /\ sess'[c].row /\ sess'[c].scope = "unbound" /\ sess'[c].from = stale /\ ~sess'[c].started
      /\ sess'[c].outcome = "none" /\ sess'[c].succ = None /\ ~sess'[c].retired
      /\ sess'[c].recovery = "boundary-recovery"
  BY <1>5 DEF Replacement, NoSession
<1>8. /\ sess'[stale].row /\ sess'[stale].scope = "unbound" /\ sess'[stale].retired
      /\ sess'[stale].succ = c /\ sess'[stale].outcome = "abandoned_recover"
      /\ sess'[stale].parent = parent /\ sess'[stale].started = sess[stale].started
  <2>1. sess[stale] \in SessionRow
    BY DEF RootTypeOK, TypeOK
  <2>2. LET row == [sess[stale] EXCEPT !.parent = parent]
        IN  row \in SessionRow /\ row.parent = parent /\ row.scope = "unbound"
            /\ row.started = sess[stale].started
    BY <1>1, <2>1 DEF SessionRow
  <2> QED
    BY <1>6, <2>2 DEF Abandoned, SessionRow
<1>9. /\ sess'[parent].row /\ sess'[parent].scope = "closed" /\ sess'[parent].retired
      /\ sess'[parent].succ = stale
  BY <1>1, <1>6 DEF RootTypeOK, TypeOK, SessionRow
<1> HIDE DEF new
<1>10. Drawn'
  <2>1. \A s \in Session :
          /\ sess'[s].row => s \in minted'
          /\ sess'[s].succ \in minted' \cup {None}
          /\ ~sess'[s].row => ~sess'[s].started /\ sess'[s].scope = "unbound"
    <3> TAKE s \in Session
    <3>1. CASE s \in {stale, c}
      BY <1>1, <1>2, <1>7, <1>8, <3>1
    <3>3. CASE s = parent
      BY <1>1, <1>2, <1>9, <3>3
    <3>2. CASE s \notin {stale, parent, c}
      <4>1. /\ sess[s].row => s \in minted
            /\ sess[s].succ \in minted \cup {None}
            /\ ~sess[s].row => ~sess[s].started /\ sess[s].scope = "unbound"
        BY DEF ReservedInv, Drawn
      <4>2. sess'[s] = sess[s] /\ minted' = minted \cup {c}
        BY <1>2, <1>5, <3>2
      <4> QED
        BY <4>1, <4>2
    <3> QED
      BY <3>1, <3>2, <3>3
  <2> QED
    BY <1>2, <1>3, <1>4, <2>1 DEF ReservedInv, Drawn
<1>11. OpenScopes' = {c}
  <2>1. \A s \in Session \ {stale} : ~(sess[s].row /\ sess[s].scope # "closed" /\ ~sess[s].retired)
    BY <1>2 DEF OpenScopes, IsOpenScope, HasRow
  <2>2. \A s \in Session :
          (sess'[s].row /\ sess'[s].scope # "closed" /\ ~sess'[s].retired) <=> s = c
    BY <1>3, <1>5, <1>7, <1>8, <1>9, <2>1
  <2> QED
    BY <2>2 DEF OpenScopes, IsOpenScope, HasRow
<1>12. Predecessors(c)' = {stale}
  BY <1>1, <1>3, <1>5, <1>7, <1>8, <1>9 DEF Predecessors
<1>13. RecoveryReserved("boundary-recovery")'
  <2>1. HasRow(c)' /\ HasRow(stale)' /\ HasRow(parent)' /\ HasRow(lease.owner)'
    BY <1>1, <1>4, <1>7, <1>8, <1>9 DEF HasRow
  <2>2. ClosedScope(parent)'
    BY <1>9, <2>1 DEF ClosedScope
  <2>3. \/ lease'.owner = parent /\ ~sess'[stale].started
        \/ lease'.owner = stale /\ sess'[stale].started
    BY <1>1, <1>4, <1>8
  <2> QED
    BY <1>1, <1>2, <1>3, <1>4, <1>7, <1>8, <1>9, <1>11, <1>12, <2>1, <2>2, <2>3
       DEF RecoveryReserved, Owner
<1> QED
  BY <1>3, <1>4, <1>7, <1>10, <1>13 DEF ReservedInv, HeirUnbound, ReservationStaysWhole

-----------------------------------------------------------------------------
(* No emitter touches a reservation of a recovery.                           *)
LEMMA ReserveReserved ==
  ASSUME RootTypeOK, ReservedInv, UNCHANGED rooted, NEW e \in Emitter, NEW c \in Session,
         Reserve(e, c)
  PROVE  ReservedInv'
<1>1. /\ ~RecoveryInFlight /\ c \notin minted /\ minted' = minted \cup {c} /\ UNCHANGED sess
      /\ lease'.owner = lease.owner /\ lease'.child = c /\ lease'.takeover = lease.takeover
  BY DEF Reserve, MayReserve, RootTypeOK, TypeOK, Lease
<1>2. \A s \in Session : RowKept(s)
  BY <1>1 DEF RowKept
<1>3. Drawn'
  BY <1>1, <1>2, DrawnKept DEF ReservedInv, Drawn
<1>4. HeirUnbound'
  BY <1>1 DEF ReservedInv, Drawn, HeirUnbound
<1> QED
  BY <1>1, <1>3, <1>4, ReservationKept DEF ReservedInv

LEMMA CommitReserved ==
  ASSUME RootTypeOK, ReservedInv, UNCHANGED rooted, NEW e \in Emitter, CommitEmit(e)
  PROVE  ReservedInv'
<1>0. PICK c \in Optional, p \in Session : c = lease.child /\ p = lease.owner
  BY OwnerTyped DEF RootTypeOK, Owner
<1>1. /\ c # p /\ c \in minted \cup {None} /\ p \in minted
      /\ sess[p].row /\ UNCHANGED minted
      /\ sess' = [sess EXCEPT ![c] = ChildRow(p), ![p].succ = c, ![p].retired = TRUE]
  BY <1>0 DEF CommitEmit, BoundaryReady, BoundaryReservable, Fenced, ClosedScope, HasRow, Owner,
     ReservedInv, Drawn
<1>2. /\ lease'.owner = p /\ lease'.child = c /\ lease'.takeover = "boundary-handoff"
  BY <1>0 DEF CommitEmit, RootTypeOK, TypeOK, Lease
<1>3. /\ c # None => sess'[c] = ChildRow(p)
      /\ sess'[p].row /\ sess'[p].succ = c
      /\ \A s \in Session \ {c, p} : sess'[s] = sess[s]
  BY <1>1 DEF RootTypeOK, TypeOK, SessionRow
<1>4. /\ ChildRow(p).row /\ ChildRow(p).succ = None /\ ChildRow(p).scope = "unbound"
  BY DEF ChildRow, NoSession
<1>5. \A s \in Session :
        /\ sess'[s].row => s \in minted
        /\ sess'[s].succ \in minted \cup {None}
        /\ ~sess'[s].row => ~sess'[s].started /\ sess'[s].scope = "unbound"
  <2> TAKE s \in Session
  <2>1. CASE s \in {c, p}
    BY <1>1, <1>3, <1>4, <2>1
  <2>2. CASE s \notin {c, p}
    <3>1. sess'[s] = sess[s]
      BY <1>3, <2>2
    <3> QED
      BY <3>1 DEF ReservedInv, Drawn
  <2> QED
    BY <2>1, <2>2
<1>6. Drawn'
  BY <1>1, <1>2, <1>5 DEF ReservedInv, Drawn
<1>7. HeirUnbound'
  BY <1>2, <1>3, <1>4 DEF HeirUnbound
<1> QED
  BY <1>2, <1>6, <1>7, NoneInFlight DEF ReservedInv

LEMMA UndoReserved ==
  ASSUME RootTypeOK, ReservedInv, UNCHANGED rooted, NEW e \in Emitter, UndoReserve(e)
  PROVE  ReservedInv'
<1>1. /\ lease'.owner = lease.owner /\ lease'.child = None /\ lease'.takeover = "none"
      /\ UNCHANGED <<sess, minted>> /\ lease.owner \in Session
  BY DEF UndoReserve, RootTypeOK, TypeOK, Lease
<1>2. Drawn' /\ HeirUnbound'
  BY <1>1 DEF ReservedInv, Drawn, HeirUnbound
<1> QED
  BY <1>1, <1>2, NoneInFlight DEF ReservedInv

LEMMA OrdinaryReserved ==
  ASSUME RootTypeOK, IsFiniteSet(minted), ReservedInv, Ordinary PROVE ReservedInv'
<1>1. UNCHANGED <<binding, rooted>>
  BY DEF Ordinary
<1>2. CASE OwnerStep
  <2>1. CASE LeaseNext /\ UNCHANGED epoch
    BY <1>1, <2>1, LeaseNextReserved
  <2>2. ASSUME NEW o \in Session, SupersedeAffinity(o) \/ AcquireAffinity(o) \/ RecoverBoundary(o)
        PROVE  ReservedInv'
    BY <1>1, <2>2, SupersedeReserved, AcquireReserved, RecoverReserved
  <2> QED
    BY <1>2, <2>1, <2>2 DEF OwnerStep
<1>3. ASSUME NEW e \in Emitter,
             \/ StartEmit(e) \/ RefuseReserve(e) \/ Snapshot(e) \/ AlreadyEmitted(e)
             \/ FailCommit(e) \/ GiveUpUndo(e) \/ CrashEmit(e) \/ JoinReservation(e)
             \/ UNCHANGED chainVars,
             UNCHANGED epoch
      PROVE  ReservedInv'
  <2>1. UNCHANGED <<lease, sess, minted, status, pauseReason>>
    BY <1>3 DEF StartEmit, RefuseReserve, Snapshot, AlreadyEmitted, FailCommit, GiveUpUndo,
       CrashEmit, JoinReservation, chainVars
  <2> QED
    BY <1>1, <1>3, <2>1, ChainKept
<1>4. CASE EmitterStep
  BY <1>1, <1>3, <1>4, ReserveReserved, CommitReserved, UndoReserved DEF EmitterStep
<1> QED
  BY <1>2, <1>4 DEF Ordinary

-----------------------------------------------------------------------------
(* A relocation retires whoever had an open scope, so its replacement is the *)
(* only one that has; a scope is bound only for affinity.                    *)
Scope(kind) == IF kind = "affinity-supersession" THEN "bound" ELSE "unbound"

LEMMA RelocateFacts ==
  ASSUME RootTypeOK, Drawn, NEW c \in Session, Relocate(c)
  PROVE  /\ Kind \in Recoveries /\ c \notin minted /\ minted' = minted \cup {c}
         /\ lease'.owner = lease.owner /\ lease'.child = c /\ lease'.state = "released"
         /\ lease'.phase = "reserved" /\ lease'.expires = "none" /\ lease'.takeover = Kind
         /\ sess'[c].row /\ sess'[c].scope = Scope(Kind) /\ ~sess'[c].started
         /\ sess'[c].outcome = "none" /\ sess'[c].succ = None /\ ~sess'[c].retired
         /\ sess'[c].recovery = Kind
         /\ \A s \in Session \ {c} :
              /\ sess'[s].row = sess[s].row
              /\ IF IsOpenScope(s) THEN sess'[s].retired /\ sess'[s].succ = c
                                   ELSE sess'[s] = sess[s]
<1> DEFINE kind == Kind
           from == Stale
           new  == Replacement(kind, from, Scope(kind))
<1>1. /\ kind \in Recoveries /\ c \notin minted /\ minted' = minted \cup {c}
      /\ lease' = ReservedLease(kind, c)
      /\ sess' = [s \in Session |-> IF s = c THEN new
                     ELSE IF IsOpenScope(s) THEN Tombstone(sess[s], c) ELSE sess[s]]
  BY DEF Relocate, Retired, Scope
<1> HIDE DEF kind, from
<1>2. /\ lease'.owner = lease.owner /\ lease'.child = c /\ lease'.state = "released"
      /\ lease'.phase = "reserved" /\ lease'.expires = "none" /\ lease'.takeover = kind
  <2> DEFINE reserved == RecoveryLease(kind, c, None)
  <2>1. /\ reserved \in Lease /\ reserved.owner = lease.owner /\ reserved.child = c
        /\ reserved.state = "released" /\ reserved.phase = "reserved"
        /\ reserved.expires = "none" /\ reserved.takeover = kind
    BY <1>1 DEF RootTypeOK, TypeOK, Lease, RecoveryLease
  <2>2. lease' = [reserved EXCEPT !.generation = @ + 1]
    BY <1>1 DEF ReservedLease
  <2> HIDE DEF reserved
  <2> QED
    BY <2>1, <2>2 DEF Lease
<1>3. /\ new.row /\ new.scope = Scope(kind) /\ ~new.started /\ new.outcome = "none"
      /\ new.succ = None /\ ~new.retired /\ new.recovery = kind
  BY DEF Replacement, NoSession
<1>4. \A s \in Session : LET row == Tombstone(sess[s], c)
                        IN  row.row = sess[s].row /\ row.retired /\ row.succ = c
  BY DEF Tombstone, RootTypeOK, TypeOK, SessionRow
<1> HIDE DEF new
<1>5. sess'[c] = new
  BY <1>1
<1>6. \A s \in Session \ {c} :
        sess'[s] = IF IsOpenScope(s) THEN Tombstone(sess[s], c) ELSE sess[s]
  BY <1>1
<1>7. \A s \in Session \ {c} :
        /\ sess'[s].row = sess[s].row
        /\ IF IsOpenScope(s) THEN sess'[s].retired /\ sess'[s].succ = c
                             ELSE sess'[s] = sess[s]
  BY <1>4, <1>6
<1> QED
  BY <1>1, <1>2, <1>3, <1>5, <1>7 DEF kind

LEMMA RelocateReserved ==
  ASSUME RootTypeOK, ReservedInv, NEW c \in Session, Relocate(c)
  PROVE  ReservedInv'
<1>0. PICK kind \in Recoveries : kind = Kind
  BY DEF Relocate
<1>1. /\ c \notin minted /\ minted' = minted \cup {c}
      /\ lease'.owner = lease.owner /\ lease'.child = c /\ lease'.state = "released"
      /\ lease'.phase = "reserved" /\ lease'.expires = "none" /\ lease'.takeover = kind
  BY <1>0, RelocateFacts DEF ReservedInv
<1>2. /\ sess'[c].row /\ sess'[c].scope = Scope(kind) /\ ~sess'[c].started
      /\ sess'[c].outcome = "none" /\ sess'[c].succ = None /\ ~sess'[c].retired
      /\ sess'[c].recovery = kind
  BY <1>0, RelocateFacts DEF ReservedInv
<1>3. \A s \in Session \ {c} :
        /\ sess'[s].row = sess[s].row
        /\ IF IsOpenScope(s) THEN sess'[s].retired /\ sess'[s].succ = c
                             ELSE sess'[s] = sess[s]
  BY RelocateFacts DEF ReservedInv
<1>4. /\ status' = "paused" /\ pauseReason' = "project-root-relocated"
      /\ rooted' = rooted \cup {c} /\ epoch'[c] = binding' /\ lease.owner \in minted
  BY DEF Relocate, Rebound, RootTypeOK, ReservedInv, Drawn
<1>5. \A s \in Session :
        /\ sess'[s].row => s \in minted'
        /\ sess'[s].succ \in minted' \cup {None}
        /\ ~sess'[s].row => ~sess'[s].started /\ sess'[s].scope = "unbound"
  <2> TAKE s \in Session
  <2>1. CASE s = c
    BY <1>1, <1>2, <2>1
  <2>2. CASE s # c
    <3>1. /\ sess[s].row => s \in minted
          /\ sess[s].succ \in minted \cup {None}
          /\ ~sess[s].row => ~sess[s].started /\ sess[s].scope = "unbound"
      BY DEF ReservedInv, Drawn
    <3>2. IsOpenScope(s) => sess[s].row
      BY DEF IsOpenScope, HasRow
    <3> QED
      BY <1>1, <1>3, <2>2, <3>1, <3>2
  <2> QED
    BY <2>1, <2>2
<1>6. Drawn'
  BY <1>1, <1>4, <1>5 DEF ReservedInv, Drawn
<1>7. HeirUnbound'
  BY <1>1, <1>2 DEF HeirUnbound, Scope
<1>8. OpenScopes' = {c}
  <2>1. \A s \in Session : IsOpenScope(s)' <=> s = c
    <3> TAKE s \in Session
    <3>1. CASE s = c
      BY <1>2, <3>1 DEF IsOpenScope, HasRow, Scope
    <3>2. CASE s # c
      BY <1>3, <3>2 DEF IsOpenScope, HasRow
    <3> QED
      BY <3>1, <3>2
  <2> QED
    BY <2>1 DEF OpenScopes
<1>9. ReservationStaysWhole'
  <2>1. ReservationWhole'
    BY <1>1, <1>2, <1>4, <1>8 DEF ReservationWhole, HasRow
  <2> QED
    BY <1>1, <1>4, <2>1 DEF ReservationStaysWhole
<1> QED
  BY <1>6, <1>7, <1>9 DEF ReservedInv

LEMMA NextReserved ==
  ASSUME RootTypeOK, IsFiniteSet(minted), ReservedInv, [Next]_vars PROVE ReservedInv'
<1>1. ASSUME NEW o \in orders, Execute(o) PROVE ReservedInv'
  <2>1. CASE Rebind
    <3>1. ~RecoveryInFlight
      <4>1. SUFFICES ASSUME RecoveryInFlight PROVE FALSE
        OBVIOUS
      <4>2. ~Terminal
        BY <4>1, InFlight DEF Terminal, ReservedInv
      <4>3. Kind = lease.takeover
        BY <4>1, <4>2 DEF Kind
      <4> QED
        BY <2>1, <4>1, <4>3 DEF Rebind, RecoveryInFlight
    <3>2. /\ lease'.owner = lease.owner /\ lease'.child = lease.child
          /\ lease'.takeover = lease.takeover /\ UNCHANGED <<sess, minted, rooted>>
      BY <2>1 DEF Rebind, Rebound, RootTypeOK, TypeOK, Lease
    <3> QED
      BY <3>1, <3>2, ChainKept
  <2> QED
    BY <1>1, <2>1, RelocateReserved DEF Execute
<1>2. ASSUME (\E place \in Place : Move(place)) \/ Diagnose \/ Relieve \/ UNCHANGED vars
      PROVE  ReservedInv'
  <2>1. UNCHANGED <<lease, sess, minted, rooted, status, pauseReason, binding, epoch>>
    BY <1>2 DEF Move, Diagnose, Relieve, vars, chainVars, rootVars
  <2> QED
    BY <2>1, ChainKept
<1>3. ASSUME NEW o \in Session, AcquireRoot(o) PROVE ReservedInv'
  <2>1. UNCHANGED rooted
    BY <1>3 DEF AcquireRoot, rootVars
  <2> QED
    BY <1>3, <2>1, AcquireReserved
<1> QED
  BY <1>1, <1>2, <1>3, OrdinaryReserved DEF Next

THEOREM ReservedSafety == Spec => []ReservedInv
<1>1. RootTypeOK /\ IsFiniteSet(minted) /\ ReservedInv /\ [Next]_vars => ReservedInv'
  BY NextReserved
<1> QED
  BY <1>1, InitReserved, RootTyping, FewDrawn, PTL DEF Spec

(* However often the project is moved, a reservation that recovery made      *)
(* keeps what its replacement needs to take the lease.                       *)
THEOREM ReservationsStand == Spec => []ReservationStaysWhole
<1>1. ReservedInv => ReservationStaysWhole
  BY DEF ReservedInv
<1> QED
  BY <1>1, ReservedSafety, PTL

(* A rebinding leaves every scope as it is.  A relocation opens one for its  *)
(* replacement, a bound one unless neither the owner nor its heir had one.   *)
THEOREM WorkIsKept == Spec => WorkstreamFollows
<1> DEFINE Follows == root' # root /\ BoundScope \cap {Owner, lease.child} # {} =>
                        \E s \in Session : /\ sess'[s].row /\ sess'[s].scope = "bound"
                                           /\ ~sess'[s].retired
<1>1. ASSUME RootTypeOK, ReservedInv, NEW c \in Session, Relocate(c),
             BoundScope \cap {Owner, lease.child} # {}
      PROVE  Kind = "affinity-supersession"
  <2>1. PICK b \in Session : /\ IsOpenScope(b) /\ sess[b].scope = "bound"
                             /\ b \in {Owner, lease.child}
    BY <1>1 DEF BoundScope, OpenScopes
  <2>2. SUFFICES ASSUME Kind = "boundary-recovery" PROVE FALSE
    BY <1>1 DEF Relocate
  <2>3. lease.takeover # "affinity-supersession"
    BY <2>2 DEF Kind, RecoveryInFlight
  <2>4. b # lease.child
    BY <1>1, <2>1, <2>3 DEF ReservedInv, HeirUnbound
  <2>5. OpenAffinity
    BY <2>1, <2>4 DEF OpenAffinity, Owner
  <2>6. RecoveryInFlight
    BY <2>2, <2>5 DEF Kind
  <2>7. b \in OpenScopes /\ OpenScopes = {lease.child}
    BY <1>1, <2>1, <2>6, InFlight DEF ReservedInv, OpenScopes
  <2> QED
    BY <2>4, <2>7
<1>2. ASSUME RootTypeOK, ReservedInv, NEW o \in orders, Execute(o) PROVE Follows
  <2>1. CASE Rebind
    BY <2>1 DEF Rebind, BoundScope, OpenScopes, IsOpenScope, HasRow
  <2>2. ASSUME NEW c \in Session, Relocate(c), BoundScope \cap {Owner, lease.child} # {}
        PROVE  \E s \in Session : sess'[s].row /\ sess'[s].scope = "bound" /\ ~sess'[s].retired
    BY <1>1, <1>2, <2>2, RelocateFacts DEF ReservedInv, Scope
  <2> QED
    BY <1>2, <2>1, <2>2 DEF Execute
<1>3. Next => Follows \/ \E o \in orders : Execute(o)
  BY DEF Next, Ordinary, Move, Diagnose, Relieve, AcquireRoot, rootVars
<1>4. RootTypeOK /\ ReservedInv /\ [Next]_vars => [Follows]_vars
  BY <1>2, <1>3
<1> QED
  BY <1>4, RootTyping, ReservedSafety, PTL DEF Spec, WorkstreamFollows
=============================================================================
