------------------------- MODULE HeadlessHostProofs -------------------------
(* Theorems about an unattended host and the books of the run it drives.     *)
EXTENDS HeadlessHost, ChainTyping, FiniteSetTheorems

USE RootAssumption, BoundAssumption, AttemptsAssumption, HostAssumption
    DEF Optional, States, Phases, Recoveries, Takeovers, Attempt

-----------------------------------------------------------------------------
(* Types.                                                                    *)
HostPc == {"off", "settle", "clean", "choose", "pause", "pauseFresh", "preflight",
           "read", "write", "review", "checking", "respawn", "maker"}

After   == {"off", "choose", "preflight", "review", "respawn", "pause", "pauseFresh"}
Refusal == {"off", "pause", "pauseFresh"}

HostState == [pc : HostPc, owner : Session, generation : 1..(MaxGeneration + 1),
              child : Optional, goal : {"none", "review", "respawn"},
              maker : {"none", "ok", "failed"}, todo : SUBSET Receipt, list : SUBSET Receipt,
              next : After, failed : Refusal]

CostTypes == {"floor", "report", "receipt", "finish"}
Cost == [type : CostTypes, owner : Session, generation : Nat, turns : 0..2,
         of : Receipt \cup {None}]

BooksTypeOK == log \in Seq(Cost) /\ turns \in [Session -> Nat] /\ spent \in Nat

CheckStates == {"none", "claimed", "imported", "blocked"}

DriveTypeOK ==
  /\ files \in SUBSET Receipt /\ running \in SUBSET Receipt /\ record \in SUBSET Receipt
  /\ checks \in [Attempt -> CheckStates]
  /\ tries \in 0..MaxAttempts /\ host \in HostState

(* What a receipt is made of is there: a host that goes on has a generation  *)
(* of the run, a child to start, an attempt to measure, and a reason for its *)
(* preflight.                                                                *)
Equipped ==
  /\ \/ host.generation <= MaxGeneration
     \/ host.pc \in {"settle", "clean", "off"} /\ host.next = "off" /\ host.failed = "off"
  /\ At("maker") => host.child \in Session
  /\ At("checking") => \E a \in Attempt : checks[a] # "none"
  /\ At("read") \/ At("write") => tries \in Attempt
  /\ host.pc \in {"preflight", "read", "write"} \/ host.next = "preflight" => host.goal # "none"

HostTypeOK == /\ TypeOK /\ RespawnTypeOK
              /\ BooksTypeOK /\ DriveTypeOK /\ Equipped

-----------------------------------------------------------------------------
LEMMA InitHostTyped == Init => HostTypeOK
<1> SUFFICES ASSUME Init PROVE HostTypeOK
  OBVIOUS
<1>1. TypeOK
  BY ChainInitTyped DEF Init
<1>2. RespawnTypeOK
  BY DEF Init, RespawnInit, RespawnTypeOK, SpawnIdle, SpawnState, SpawnPc, PauseReasons
<1>3. BooksTypeOK
  BY DEF Init, AccountingInit, BooksTypeOK
<1>4. DriveTypeOK
  BY DEF Init, AccountingInit, DriveTypeOK, HostOff, HostState, HostPc, After, Refusal, CheckStates
<1>5. Equipped
  BY DEF Init, HostOff, Equipped, At
<1> QED
  BY <1>1, <1>2, <1>3, <1>4, <1>5 DEF HostTypeOK

(* The sessions.                                                             *)
LEMMA EmitHandoffTyped ==
  ASSUME TypeOK, NEW child \in Session, EmitHandoff(child)
  PROVE  TypeOK'
<1> DEFINE first  == [NoSession EXCEPT !.row = TRUE, !.parent = Owner]
           s1     == [sess EXCEPT ![child] = first]
           second == [s1[Owner] EXCEPT !.succ = child, !.retired = TRUE]
<1>1. Owner \in Session /\ Owner \in Optional /\ child \in Optional
  BY OwnerTyped
<1>2. first \in SessionRow
  BY <1>1 DEF NoSession, SessionRow
<1>3. s1 \in [Session -> SessionRow]
  BY <1>2, ChainUpdate
<1>4. second \in SessionRow
  <2>1. s1[Owner] \in SessionRow
    BY <1>1, <1>3
  <2> HIDE DEF s1
  <2> QED
    BY <2>1, <1>1, RowUpdates
<1>5. sess' = [s1 EXCEPT ![Owner] = second]
  BY <1>1, <1>3 DEF EmitHandoff
<1>6. sess' \in [Session -> SessionRow]
  <2> HIDE DEF s1, second
  <2> QED
    BY <1>1, <1>3, <1>4, <1>5
<1>7. lease' \in Lease
  BY <1>1 DEF TypeOK, EmitHandoff, Lease
<1> QED
  BY <1>6, <1>7 DEF TypeOK, EmitHandoff, Write

LEMMA SessionChainTyped ==
  ASSUME TypeOK, SessionNext
  PROVE  TypeOK'
<1>1. ASSUME NEW o \in Session, SessionAcquires(o) PROVE TypeOK'
  BY <1>1, AcquireTyped DEF SessionAcquires
<1>2. ASSUME NEW o \in Session, Recovers(o) PROVE TypeOK'
  BY <1>2, RecoverTyped DEF Recovers
<1>3. ASSUME Works PROVE TypeOK'
  BY <1>3, WorkTyped DEF Works, WorkStates
<1>4. ASSUME WritesMore \/ \E n \in 1..2 : Reports(n) PROVE TypeOK'
  BY <1>4 DEF WritesMore, Reports, chainVars, TypeOK
<1>5. ASSUME Finishes PROVE TypeOK'
  BY <1>5 DEF Finishes, FinishRun, Write, TypeOK
<1> QED
  BY <1>1, <1>2, <1>3, <1>4, <1>5, EmitHandoffTyped DEF SessionNext

(* The respawner that the host is.                                           *)
LEMMA SpawnStepTyped ==
  ASSUME TypeOK, RespawnTypeOK, NEW r \in Respawner, SpawnStep(r)
  PROVE  TypeOK' /\ RespawnTypeOK'
  BY StartRespawnTyped, SpawnWritesTyped, SpawnerTyped DEF SpawnStep

LEMMA HostChainTyped ==
  ASSUME TypeOK, RespawnTypeOK, HostNext
  PROVE  TypeOK' /\ RespawnTypeOK'
<1>1. ASSUME UNCHANGED <<chainVars, resp, launches>> PROVE TypeOK' /\ RespawnTypeOK'
  BY <1>1 DEF chainVars, TypeOK, RespawnTypeOK
<1>2. CASE HostStart \/ Accounts \/ Choose \/ Preflight \/ ReadPasses \/ WritePasses
           \/ SmokeFails \/ MakerReturned
  BY <1>1, <1>2 DEF HostStart, Accounts, SettleNext, SettleRefused, RemoveNext, SettleDone,
     CleanDone, Choose, Preflight, ReadPasses, WritePasses, SmokeFails, MakerReturned, runVars
<1>3. ASSUME PausePreserve("other") \/ UNCHANGED chainVars, UNCHANGED <<resp, launches>>
      PROVE  TypeOK' /\ RespawnTypeOK'
  <2>1. CASE PausePreserve("other")
    <3>1. "other" \in PauseReasons
      BY DEF PauseReasons
    <3> QED
      BY <1>3, <2>1, <3>1, LeaseWritesTyped DEF RespawnTypeOK
  <2> QED
    BY <1>1, <1>3, <2>1
<1>4. CASE PauseOriginal \/ PauseFresh \/ \E measured \in BOOLEAN : ReviewFails(measured)
  BY <1>3, <1>4 DEF PauseOriginal, PauseFresh, ReviewFails
<1>5. CASE ClaimReview \/ Imported
  BY <1>1, <1>5 DEF ClaimReview, Imported, Write, chainVars, TypeOK, RespawnTypeOK
<1>6. CASE RespawnBegins
  BY <1>1, <1>6, StartRespawnTyped DEF RespawnBegins
<1>7. CASE RespawnStep
  BY <1>7, SpawnStepTyped DEF RespawnStep
<1>8. CASE MakerLaunches \/ MakerDrifted \/ \E ok \in BOOLEAN : MakerReturns(ok)
  BY <1>8, SpawnStepTyped DEF MakerLaunches, MakerDrifted, MakerReturns, SpawnStep
<1>9. CASE HostCrash
  <2>1. UNCHANGED <<chainVars, launches>> /\ StopRespawn(Host)
    BY <1>9 DEF HostCrash, runVars, StopRespawn
  <2> QED
    BY <2>1, SpawnUpdates DEF chainVars, TypeOK
<1> QED
  BY <1>2, <1>4, <1>5, <1>6, <1>7, <1>8, <1>9 DEF HostNext

LEMMA NextChainTyped ==
  ASSUME TypeOK, RespawnTypeOK, [Next]_vars
  PROVE  TypeOK' /\ RespawnTypeOK'
<1>1. CASE SessionNext
  BY <1>1, SessionChainTyped DEF SessionNext, RespawnTypeOK
<1>2. CASE UNCHANGED vars \/ \E r \in running, ok \in BOOLEAN : WorkerEnds(r, ok)
  BY <1>2 DEF WorkerEnds, vars, runVars, chainVars, TypeOK, RespawnTypeOK
<1> QED
  BY <1>1, <1>2, HostChainTyped DEF Next

-----------------------------------------------------------------------------
(* Whatever happens, the log grows by a cost that is charged, or by the end. *)
OwnerPays ==
  /\ LeaseCheck(Owner, lease.generation, "accounting")
  /\ \/ ChargeFloor
     \/ \E n \in 1..2 : Charge(Explicit("report", lease.owner, lease.generation, n, None))

ProcessPays ==
  \E r \in Receipt :
    /\ r \in host.todo /\ SettleNext(r)
    /\ MaySettle(r, host)
    /\ Charge(Explicit("receipt", Origin(r).owner, Origin(r).generation, 1, r))

LEMMA LogSteps ==
  ASSUME HostTypeOK, [Next]_vars
  PROVE  UNCHANGED <<log, turns, spent>> \/ OwnerPays \/ ProcessPays \/ Finishes
<1>1. \A intent \in {"business", "lease"} :
        LeaseCheck(Owner, lease.generation, intent) /\ (intent = "lease" => status = "running")
          => LeaseCheck(Owner, lease.generation, "accounting")
  BY DEF LeaseCheck
<1>2. CASE SessionNext
  <2>1. ASSUME NEW o \in Session, SessionAcquires(o) \/ Recovers(o)
        PROVE  UNCHANGED <<log, turns, spent>>
    BY <2>1 DEF SessionAcquires, Recovers, costVars
  <2>2. ASSUME NEW o \in Session, EmitHandoff(o) PROVE OwnerPays
    BY <1>1, <2>2 DEF EmitHandoff, OwnerPays
  <2>3. ASSUME Works \/ WritesMore PROVE OwnerPays
    BY <1>1, <2>3 DEF Works, WritesMore, BindScope, CloseScope, OwnerPays
  <2>4. ASSUME NEW n \in 1..2, Reports(n) PROVE OwnerPays
    BY <2>4 DEF Reports, OwnerPays
  <2> QED
    BY <1>2, <2>1, <2>2, <2>3, <2>4 DEF SessionNext
<1>3. CASE UNCHANGED vars \/ \E r \in running, ok \in BOOLEAN : WorkerEnds(r, ok)
  BY <1>3 DEF WorkerEnds, vars, runVars, costVars
<1>4. CASE Accounts
  <2>1. host.todo \in SUBSET Receipt
    BY DEF HostTypeOK, DriveTypeOK, HostState
  <2>2. ASSUME NEW r \in host.todo, SettleNext(r)
        PROVE  UNCHANGED <<log, turns, spent>> \/ ProcessPays
    BY <2>1, <2>2 DEF SettleNext, Settle, ProcessPays
  <2> QED
    BY <1>4, <2>2 DEF Accounts, SettleRefused, RemoveNext, SettleDone, CleanDone, runVars
<1>5. CASE Imported
  <2>1. LeaseCheck(host.owner, host.generation, "business") /\ ChargeFloor
    BY <1>5 DEF Imported
  <2> QED
    BY <1>1, <2>1 DEF LeaseCheck, OwnerPays, Owner
<1>6. CASE HostNext /\ ~Accounts /\ ~Imported
  BY <1>6 DEF HostNext, HostStart, PauseOriginal, PauseFresh, Choose, Preflight, ReadPasses,
     WritePasses, SmokeFails, ClaimReview, ReviewFails, RespawnBegins, RespawnStep, MakerLaunches,
     MakerDrifted, MakerReturns, MakerReturned, HostCrash, runVars, costVars
<1> QED
  BY <1>2, <1>3, <1>4, <1>5, <1>6 DEF Next

-----------------------------------------------------------------------------
(* The places of a log, and what they charge.                                *)
LEMMA PlacesFinite ==
  ASSUME NEW lines \in Seq(Cost), NEW S \in SUBSET (1..Len(lines))
  PROVE  IsFiniteSet(S) /\ Cardinality(S) \in Nat
<1>1. IsFiniteSet(1..Len(lines))
  BY FS_Interval
<1> QED
  BY <1>1, FS_Subset, FS_CardinalityType

LEMMA TrailingTyped ==
  ASSUME NEW lines \in Seq(Cost), NEW s, NEW g
  PROVE  TrailingFloor(lines, s, g) \in Nat
<1>1. Trailing(lines, s, g) \in SUBSET (1..Len(lines))
  BY DEF Trailing, OwnCosts
<1> QED
  BY <1>1, PlacesFinite DEF TrailingFloor

LEMMA CostsTyped ==
  ASSUME BooksTypeOK, NEW s \in Session, NEW g \in Nat, NEW n \in 1..2,
         NEW r \in Receipt \cup {None}, NEW type \in CostTypes
  PROVE  FloorOf(s, g) \in Cost /\ Explicit(type, s, g, n, r) \in Cost
<1>1. TrailingFloor(log, s, g) \in Nat
  BY TrailingTyped DEF BooksTypeOK
<1>2. LessFloor(n, TrailingFloor(log, s, g)) \in 0..2
  BY <1>1 DEF LessFloor
<1> QED
  BY <1>2 DEF FloorOf, Explicit, Cost, CostTypes

LEMMA FloorTyped ==
  ASSUME NEW s \in Session, NEW g \in Nat
  PROVE  FloorOf(s, g) \in Cost
  BY DEF FloorOf, Cost, CostTypes

LEMMA OriginTyped ==
  ASSUME NEW r \in Receipt
  PROVE  Origin(r).owner \in Session /\ Origin(r).generation \in Nat
<1>1. r.owner \in Session /\ r.generation \in Nat /\ (r.kind = "maker" => r.ref \in Session)
  BY DEF Receipt, Smokes
<1> QED
  BY <1>1 DEF Origin, OriginParent, OriginChild

LEMMA ChargeTyped ==
  ASSUME BooksTypeOK, NEW e \in Cost, Charge(e)
  PROVE  BooksTypeOK'
<1>1. e.owner \in Session /\ e.turns \in Nat
  BY DEF Cost
<1> QED
  BY <1>1 DEF BooksTypeOK, Charge

LEMMA NextBooksTyped ==
  ASSUME HostTypeOK, [Next]_vars
  PROVE  BooksTypeOK'
<1>1. lease.owner \in Session /\ lease.generation \in Nat /\ BooksTypeOK
  BY DEF HostTypeOK, TypeOK, Lease
<1>2. FloorOf(lease.owner, lease.generation) \in Cost
  BY <1>1, CostsTyped DEF CostTypes
<1>3. CASE OwnerPays
  BY <1>1, <1>2, <1>3, CostsTyped, ChargeTyped DEF OwnerPays, ChargeFloor, CostTypes
<1>4. CASE ProcessPays
  BY <1>1, <1>4, OriginTyped, CostsTyped, ChargeTyped DEF ProcessPays, CostTypes
<1>5. CASE Finishes
  <2> DEFINE floor == FloorOf(lease.owner, lease.generation)
  <2>1. FinishEvent \in Cost
    BY <1>1 DEF FinishEvent, Cost, CostTypes
  <2>2. floor \in Cost /\ floor.owner \in Session /\ floor.turns \in Nat
    BY <1>1, <1>2 DEF FloorOf
  <2>3. /\ log' = log \o <<FinishEvent, floor>> /\ spent' = spent + floor.turns
        /\ turns' = [turns EXCEPT ![floor.owner] = @ + floor.turns]
    BY <1>5 DEF Finishes
  <2> HIDE DEF floor
  <2>4. log' \in Seq(Cost)
    BY <1>1, <2>1, <2>2, <2>3 DEF BooksTypeOK
  <2>5. turns' \in [Session -> Nat] /\ spent' \in Nat
    BY <1>1, <2>2, <2>3, SMTT(30) DEF BooksTypeOK
  <2> QED
    BY <2>4, <2>5 DEF BooksTypeOK
<1> QED
  BY <1>1, <1>3, <1>4, <1>5, LogSteps DEF BooksTypeOK

-----------------------------------------------------------------------------
(* What the host remembers.                                                  *)
drive == <<files, running, record, checks, tries, host>>

LEMMA HostFields ==
  ASSUME host \in HostState
  PROVE  /\ host.pc \in HostPc /\ host.owner \in Session /\ host.child \in Optional
         /\ host.generation \in 1..(MaxGeneration + 1)
         /\ host.goal \in {"none", "review", "respawn"}
         /\ host.todo \in SUBSET Receipt /\ host.list \in SUBSET Receipt
         /\ host.next \in After /\ host.failed \in Refusal
  BY DEF HostState

LEMMA OffTyped == HostOff \in HostState
  BY DEF HostOff, HostState, HostPc, After, Refusal

LEMMA HostUpdates ==
  ASSUME host \in HostState
  PROVE  /\ \A l \in HostPc : [host EXCEPT !.pc = l] \in HostState
         /\ \A S \in SUBSET Receipt : [host EXCEPT !.todo = S] \in HostState
         /\ \A S \in SUBSET Receipt : [host EXCEPT !.list = S] \in HostState
         /\ \A l \in HostPc, goal \in {"review", "respawn"} :
              [host EXCEPT !.pc = l, !.goal = goal] \in HostState
         /\ \A word \in {"ok", "failed"} : [host EXCEPT !.maker = word] \in HostState
  BY DEF HostState

LEMMA SettleTyped ==
  ASSUME host \in HostState, NEW l \in HostPc, NEW n \in After, NEW m \in Refusal,
         NEW S \in SUBSET Receipt, NEW T \in SUBSET Receipt
  PROVE  /\ [host EXCEPT !.pc = l, !.todo = S, !.list = T] \in HostState
         /\ [host EXCEPT !.pc = l, !.todo = S, !.list = T, !.next = n, !.failed = m] \in HostState
  BY DEF HostState

LEMMA SameDrive ==
  ASSUME DriveTypeOK, Equipped, UNCHANGED drive
  PROVE  DriveTypeOK' /\ Equipped'
  BY DEF drive, DriveTypeOK, Equipped, At

LEMMA StopTyped ==
  ASSUME DriveTypeOK, Stop, UNCHANGED <<files, running, record, tries>>,
         checks' \in [Attempt -> CheckStates]
  PROVE  DriveTypeOK' /\ Equipped'
<1>1. DriveTypeOK'
  BY OffTyped DEF Stop, DriveTypeOK
<1>2. host'.generation = 1 /\ host'.pc = "off" /\ host'.next = "off"
  BY DEF Stop, HostOff
<1> QED
  BY <1>1, <1>2 DEF Equipped, At

(* The host goes on with what it knows.                                      *)
LEMMA GoesOn ==
  ASSUME DriveTypeOK, Equipped,
         host' \in HostState, UNCHANGED <<checks, tries>>,
         files' \in SUBSET Receipt, running' \in SUBSET Receipt, record' \in SUBSET Receipt,
         host'.generation = host.generation, host'.child = host.child,
         \/ host.generation <= MaxGeneration
         \/ host'.pc \in {"settle", "clean", "off"} /\ host'.next = "off" /\ host'.failed = "off",
         host'.pc \in {"maker", "checking", "read", "write"} => host'.pc = host.pc,
         host'.pc \in {"preflight", "read", "write"} \/ host'.next = "preflight"
           => host'.goal # "none"
  PROVE  DriveTypeOK' /\ Equipped'
  BY DEF DriveTypeOK, Equipped, At

(* Draining receipts.                                                        *)
LEMMA AccountsTyped ==
  ASSUME DriveTypeOK, Equipped, HostStart \/ Accounts, TypeOK
  PROVE  DriveTypeOK' /\ Equipped'
<1>1. CASE HostStart
  <2>1. lease.owner \in Session /\ lease.generation \in 1..MaxGeneration /\ lease.child \in Optional
    BY DEF TypeOK, Lease
  <2>2. host' \in HostState
    <3>1. lease.generation \in 1..(MaxGeneration + 1) /\ files \in SUBSET Receipt
      BY <2>1 DEF DriveTypeOK
    <3>2. ASSUME NEW h \in HostState
          PROVE  [h EXCEPT !.pc = "settle", !.owner = lease.owner,
                           !.generation = lease.generation, !.child = lease.child,
                           !.todo = files, !.list = files, !.next = "choose"] \in HostState
      BY <2>1, <3>1 DEF HostState, HostPc, After
    <3> QED
      BY <1>1, <3>2, OffTyped, Zenon DEF HostStart
  <2>3. host'.generation <= MaxGeneration /\ host'.pc = "settle" /\ host'.next = "choose"
    BY <1>1, <2>1 DEF HostStart, HostOff
  <2> QED
    BY <1>1, <2>2, <2>3 DEF HostStart, runVars, DriveTypeOK, Equipped, At
<1>0. host \in HostState /\ files \in SUBSET Receipt /\ running \in SUBSET Receipt
        /\ record \in SUBSET Receipt
  BY DEF DriveTypeOK
<1>2. ASSUME NEW r \in host.todo, SettleNext(r) PROVE DriveTypeOK' /\ Equipped'
  <2>1. host.todo \ {r} \in SUBSET Receipt
    BY <1>0, HostFields
  <2>2. host' = [host EXCEPT !.todo = host.todo \ {r}]
    BY <1>2 DEF SettleNext
  <2>3. host' \in HostState
    BY <1>0, <2>1, <2>2, HostUpdates
  <2>4. /\ host'.pc = host.pc /\ host'.generation = host.generation /\ host'.child = host.child
        /\ host'.next = host.next /\ host'.failed = host.failed /\ host'.goal = host.goal
    BY <1>0, <2>2 DEF HostState
  <2> QED
    BY <1>0, <1>2, <2>3, <2>4, GoesOn DEF SettleNext, Equipped
<1>3. ASSUME NEW r \in host.todo, SettleRefused(r) PROVE DriveTypeOK' /\ Equipped'
  <2>1. host' = [host EXCEPT !.pc = host.failed, !.todo = {}, !.list = {}]
    BY <1>3 DEF SettleRefused, Refused
  <2>2. host' \in HostState /\ host'.pc \in Refusal
    BY <1>0, <2>1 DEF HostState, HostPc, Refusal
  <2>4. /\ host'.pc = host.failed /\ host'.generation = host.generation /\ host'.child = host.child
        /\ host'.next = host.next /\ host'.failed = host.failed /\ host'.goal = host.goal
    BY <1>0, <2>1 DEF HostState
  <2> QED
    BY <1>0, <1>3, <2>2, <2>4, GoesOn DEF SettleRefused, runVars, Equipped, Refusal
<1>4. ASSUME NEW r \in host.list, RemoveNext(r) PROVE DriveTypeOK' /\ Equipped'
  <2>1. host.list \ {r} \in SUBSET Receipt
    BY <1>0, HostFields
  <2>2. host' = [host EXCEPT !.list = host.list \ {r}]
    BY <1>4 DEF RemoveNext
  <2>3. host' \in HostState
    BY <1>0, <2>1, <2>2, HostUpdates
  <2>4. /\ host'.pc = host.pc /\ host'.generation = host.generation /\ host'.child = host.child
        /\ host'.next = host.next /\ host'.failed = host.failed /\ host'.goal = host.goal
    BY <1>0, <2>2 DEF HostState
  <2> QED
    BY <1>0, <1>4, <2>3, <2>4, GoesOn DEF RemoveNext, runVars, Equipped
<1>5. CASE SettleDone \/ CleanDone
  <2>1. PICK l \in {"clean", host.next} : host' = [host EXCEPT !.pc = l] /\ (l = "clean" \/ At("clean"))
    BY <1>5 DEF SettleDone, CleanDone, Goto
  <2>2. l \in After \cup {"clean"} /\ l \in HostPc
    BY <1>0, <2>1 DEF HostState, After, HostPc
  <2>3. host' \in HostState
    BY <1>0, <2>1, <2>2, HostUpdates
  <2>4. /\ host'.pc = l /\ host'.generation = host.generation /\ host'.child = host.child
        /\ host'.next = host.next /\ host'.failed = host.failed /\ host'.goal = host.goal
    BY <1>0, <2>1 DEF HostState
  <2> QED
    BY <1>0, <1>5, <2>1, <2>2, <2>3, <2>4, GoesOn DEF SettleDone, CleanDone, runVars, Equipped, At, After
<1> QED
  BY <1>1, <1>2, <1>3, <1>4, <1>5 DEF Accounts

(* What the host's processes are called.                                     *)
LEMMA AttemptsCounted ==
  ASSUME checks \in [Attempt -> CheckStates]
  PROVE  /\ NextAttempt \in 1..(MaxAttempts + 1)
         /\ (\E a \in Attempt : checks[a] # "none") => NextAttempt - 1 \in Attempt
<1> DEFINE T == {a \in Attempt : checks[a] # "none"}
<1>1. IsFiniteSet(Attempt) /\ Cardinality(Attempt) = MaxAttempts
  BY FS_Interval
<1>2. IsFiniteSet(T) /\ Cardinality(T) \in Nat /\ Cardinality(T) <= MaxAttempts
  BY <1>1, FS_Subset, FS_CardinalityType
<1>3. T # {} => Cardinality(T) # 0
  BY <1>2, FS_EmptySet
<1>4. NextAttempt = Cardinality(T) + 1
  BY DEF NextAttempt
<1> HIDE DEF T
<1>5. NextAttempt \in 1..(MaxAttempts + 1) /\ (T # {} => NextAttempt - 1 \in Attempt)
  BY <1>2, <1>3, <1>4
<1> QED
  BY <1>5 DEF T

LEMMA ProcessesTyped ==
  ASSUME DriveTypeOK, Equipped
  PROVE  /\ At("read") \/ At("write") =>
              \A kind \in Smokes : Smoke(kind) \in Receipt
         /\ At("checking") => Check \in Receipt
         /\ At("maker") => Maker \in Receipt
<1>1. host.owner \in Session /\ host.generation \in 1..(MaxGeneration + 1)
  BY HostFields DEF DriveTypeOK
<1>2. At("read") \/ At("write") => \A kind \in Smokes : Smoke(kind) \in Receipt
  BY <1>1 DEF At, Equipped, Smoke, Smokes, Receipt
<1>3. At("checking") => Check \in Receipt
  BY <1>1, AttemptsCounted DEF At, Equipped, DriveTypeOK, Check, Receipt
<1>4. At("maker") => Maker \in Receipt
  BY <1>1 DEF At, Equipped, Maker, Receipt
<1> QED
  BY <1>2, <1>3, <1>4

(* Choosing and preparing.                                                   *)
LEMMA GotoTyped ==
  ASSUME DriveTypeOK, Equipped, NEW l \in HostPc, Goto(l),
         UNCHANGED <<checks, tries, files, record>>, running' \in SUBSET Receipt,
         host.generation <= MaxGeneration, l \notin {"maker", "checking", "read", "write", "preflight"}
  PROVE  DriveTypeOK' /\ Equipped'
<1>1. host \in HostState
  BY DEF DriveTypeOK
<1>2. host' \in HostState
  BY <1>1, HostUpdates DEF Goto
<1>3. /\ host'.pc = l /\ host'.generation = host.generation /\ host'.child = host.child
      /\ host'.next = host.next /\ host'.goal = host.goal
  BY <1>1 DEF Goto, HostState
<1> QED
  BY <1>2, <1>3, GoesOn DEF DriveTypeOK, Equipped

LEMMA SettleThenTyped ==
  ASSUME DriveTypeOK, Equipped, UNCHANGED <<checks, tries, files, running>>,
         record' \in SUBSET Receipt, host.generation <= MaxGeneration,
         NEW S \in SUBSET Receipt, NEW T \in SUBSET Receipt, NEW n \in After, NEW m \in Refusal,
         host' = [host EXCEPT !.pc = "settle", !.todo = S, !.list = T, !.next = n, !.failed = m],
         n = "preflight" => host.goal # "none"
  PROVE  DriveTypeOK' /\ Equipped'
<1>1. host \in HostState /\ files \in SUBSET Receipt /\ running \in SUBSET Receipt
  BY DEF DriveTypeOK
<1>2. host' \in HostState
  BY <1>1, SettleTyped DEF HostPc
<1>3. /\ host'.pc = "settle" /\ host'.generation = host.generation /\ host'.child = host.child
      /\ host'.next = n /\ host'.goal = host.goal
  BY <1>1 DEF HostState
<1> QED
  BY <1>1, <1>2, <1>3, GoesOn

LEMMA ActivateTyped ==
  ASSUME DriveTypeOK, Equipped, UNCHANGED <<checks, tries, files, running>>,
         record' \in SUBSET Receipt, host.generation <= MaxGeneration,
         NEW S \in SUBSET Receipt, Activate(S), host.goal # "none"
  PROVE  DriveTypeOK' /\ Equipped'
<1>1. host.goal \in After /\ host.goal # "preflight"
  BY HostFields DEF DriveTypeOK, After
<1>2. PICK passes \in BOOLEAN :
        host' = [host EXCEPT !.pc = "settle", !.todo = S,
                             !.list = IF passes THEN S ELSE {},
                             !.next = IF passes THEN host.goal ELSE "pause",
                             !.failed = "pause"]
  BY DEF Activate
<1>3. CASE passes
  <2>1. host' = [host EXCEPT !.pc = "settle", !.todo = S, !.list = S, !.next = host.goal,
                             !.failed = "pause"]
    BY <1>2, <1>3
  <2>2. "pause" \in Refusal
    BY DEF Refusal
  <2> QED
    BY <1>1, <2>1, <2>2, SettleThenTyped
<1>4. CASE ~passes
  <2>1. host' = [host EXCEPT !.pc = "settle", !.todo = S, !.list = {}, !.next = "pause",
                             !.failed = "pause"]
    BY <1>2, <1>4
  <2>2. "pause" \in Refusal /\ "pause" \in After
    BY DEF Refusal, After
  <2> QED
    BY <2>1, <2>2, SettleThenTyped
<1> QED
  BY <1>3, <1>4

LEMMA ChooseTyped ==
  ASSUME DriveTypeOK, Equipped, PauseOriginal \/ PauseFresh \/ HostCrash \/ Choose
  PROVE  DriveTypeOK' /\ Equipped'
<1>0. host \in HostState /\ checks \in [Attempt -> CheckStates] /\ running \in SUBSET Receipt
  BY DEF DriveTypeOK
<1>1. CASE PauseOriginal \/ PauseFresh \/ HostCrash \/ (Choose /\ Stop)
  <2>1. Stop /\ UNCHANGED <<files, running, record, tries, checks>>
    BY <1>1 DEF PauseOriginal, PauseFresh, HostCrash, Choose, runVars, costVars
  <2> QED
    BY <1>0, <2>1, StopTyped
<1>2. CASE Choose /\ ~Stop
  <2>1. At("choose") /\ UNCHANGED <<files, running, record, tries, checks>>
    BY <1>2 DEF Choose, runVars
  <2>2. host.generation <= MaxGeneration
    BY <2>1 DEF At, Equipped
  <2>3. ASSUME NEW goal \in {"review", "respawn"}, Prepare(goal) PROVE DriveTypeOK' /\ Equipped'
    <3>1. host' \in HostState
      BY <1>0, <2>3, HostUpdates DEF Prepare, HostPc
    <3>2. /\ host'.pc = "preflight" /\ host'.generation = host.generation
          /\ host'.child = host.child /\ host'.goal = goal
      BY <1>0, <2>3 DEF Prepare, HostState
    <3> QED
      BY <2>1, <2>2, <3>1, <3>2, GoesOn DEF DriveTypeOK
  <2>4. ASSUME Goto("pauseFresh") PROVE DriveTypeOK' /\ Equipped'
    BY <1>0, <2>1, <2>2, <2>4, GotoTyped DEF HostPc
  <2> QED
    BY <1>2, <2>3, <2>4 DEF Choose
<1> QED
  BY <1>1, <1>2

(* The smokes.                                                               *)
LEMMA RunsTyped ==
  ASSUME DriveTypeOK, Equipped, NEW l \in {"read", "write"}, Goto(l), tries' \in Attempt,
         NEW r \in Receipt, running' = running \cup {r}, UNCHANGED <<files, record, checks>>,
         host.pc \in {"preflight", "read"}
  PROVE  DriveTypeOK' /\ Equipped'
<1>1. host \in HostState /\ l \in HostPc
  BY DEF DriveTypeOK, HostPc
<1>2. host' \in HostState
  BY <1>1, HostUpdates DEF Goto
<1>3. /\ host'.pc = l /\ host'.generation = host.generation
      /\ host'.next = host.next /\ host'.goal = host.goal
  BY <1>1 DEF Goto, HostState
<1> QED
  BY <1>2, <1>3 DEF DriveTypeOK, Equipped, At

LEMMA SmokesTyped ==
  ASSUME DriveTypeOK, Equipped, Preflight \/ ReadPasses \/ WritePasses \/ SmokeFails
  PROVE  DriveTypeOK' /\ Equipped'
<1>0. /\ files \in SUBSET Receipt /\ running \in SUBSET Receipt /\ record \in SUBSET Receipt
      /\ host.owner \in Session
  BY HostFields DEF DriveTypeOK
<1>1. /\ host.pc \in {"preflight", "read", "write"} /\ host.generation <= MaxGeneration
      /\ host.generation \in 1..MaxGeneration /\ host.goal # "none"
  BY HostFields DEF Preflight, ReadPasses, WritePasses, SmokeFails, At, Equipped, DriveTypeOK
<1>2. {"pause", "preflight"} \subseteq After /\ "pause" \in Refusal /\ "pause" \in HostPc
  BY DEF After, Refusal, HostPc
<1>3. CASE Preflight
  <2>0. At("preflight") /\ UNCHANGED <<files, record, checks>>
    BY <1>3 DEF Preflight, runVars
  <2>1. CASE Goto("pause") /\ UNCHANGED <<running, tries>>
    BY <1>0, <1>1, <1>2, <2>0, <2>1, GotoTyped
  <2>2. CASE SettleThen(Orphans, "preflight", "pause") /\ UNCHANGED <<running, tries>>
    <3>1. Orphans \in SUBSET Receipt
      BY <1>0 DEF Orphans, SmokesOf
    <3> HIDE DEF Orphans
    <3> QED
      BY <1>0, <1>1, <1>2, <2>0, <2>2, <3>1, SettleThenTyped DEF SettleThen
  <2>3. CASE Activate(record) /\ UNCHANGED <<running, tries>>
    BY <1>0, <1>1, <2>0, <2>3, ActivateTyped
  <2>4. CASE /\ tries < MaxAttempts /\ tries' = tries + 1
             /\ Runs([Smoke("read") EXCEPT !.ref = tries']) /\ Goto("read")
    <3>1. tries' \in Attempt
      BY <2>4 DEF DriveTypeOK
    <3>2. [Smoke("read") EXCEPT !.ref = tries']
            = [kind |-> "read", owner |-> host.owner, generation |-> host.generation, ref |-> tries']
      BY DEF Smoke
    <3>3. [kind |-> "read", owner |-> host.owner, generation |-> host.generation,
           ref |-> tries'] \in Receipt
      BY <1>0, <1>1, <3>1 DEF Receipt, Smokes
    <3> QED
      BY <1>1, <2>0, <2>4, <3>1, <3>2, <3>3, RunsTyped DEF Runs, At
  <2> QED
    BY <1>3, <2>1, <2>2, <2>3, <2>4 DEF Preflight
<1>4. CASE ReadPasses
  <2>0. At("read") /\ "write" \in Smokes
    BY <1>4 DEF ReadPasses, Smokes
  <2>1. Smoke("write") \in Receipt /\ tries \in Attempt
    BY <2>0, ProcessesTyped DEF Equipped
  <2> QED
    BY <1>1, <1>4, <2>0, <2>1, RunsTyped DEF ReadPasses, runVars, Runs, At
<1>5. Measured \in SUBSET Receipt
  BY <1>0 DEF Measured
<1>6. CASE WritePasses
  <2> HIDE DEF Measured
  <2>1. record' \in SUBSET Receipt /\ Activate(Measured)
           /\ UNCHANGED <<checks, tries, files, running>>
    BY <1>5, <1>6 DEF WritePasses, runVars
  <2> QED
    BY <1>1, <1>5, <2>1, ActivateTyped
<1>7. CASE SmokeFails
  <2> HIDE DEF Measured
  <2>1. UNCHANGED <<files, running, record, tries, checks>>
    BY <1>7 DEF SmokeFails, runVars
  <2>2. CASE Goto("pause")
    BY <1>0, <1>1, <1>2, <2>1, <2>2, GotoTyped
  <2>3. CASE SettleThen(Measured, "pause", "pause")
    BY <1>0, <1>1, <1>2, <1>5, <2>1, <2>3, SettleThenTyped DEF SettleThen
  <2> QED
    BY <1>7, <2>2, <2>3 DEF SmokeFails
<1> QED
  BY <1>3, <1>4, <1>6, <1>7

(* The review, and the start of a child.                                     *)
LEMMA ReviewTyped ==
  ASSUME DriveTypeOK, Equipped,
         ClaimReview \/ Imported \/ \E measured \in BOOLEAN : ReviewFails(measured)
  PROVE  DriveTypeOK' /\ Equipped'
<1>0. /\ host \in HostState /\ checks \in [Attempt -> CheckStates]
      /\ files \in SUBSET Receipt /\ running \in SUBSET Receipt /\ record \in SUBSET Receipt
      /\ host.owner \in Session /\ host.generation \in 1..(MaxGeneration + 1)
  BY HostFields DEF DriveTypeOK
<1>1. CASE ClaimReview
  <2>1. UNCHANGED <<files, record, tries>> /\ host.generation <= MaxGeneration
    BY <1>1 DEF ClaimReview, At, Equipped
  <2>2. CASE Stop /\ UNCHANGED <<checks, running>>
    BY <1>0, <2>1, <2>2, StopTyped
  <2>3. CASE /\ CheckerMayPend
             /\ checks' = [checks EXCEPT ![NextAttempt] = "claimed"]
             /\ Runs([Check EXCEPT !.ref = NextAttempt]) /\ Goto("checking")
    <3>1. NextAttempt \in Attempt
      BY <2>3 DEF CheckerMayPend
    <3>2. checks' \in [Attempt -> CheckStates] /\ checks'[NextAttempt] # "none"
      BY <1>0, <2>3, <3>1 DEF CheckStates
    <3>3. [Check EXCEPT !.ref = NextAttempt]
            = [kind |-> "checker", owner |-> host.owner, generation |-> host.generation,
               ref |-> NextAttempt]
      BY DEF Check
    <3>4. [kind |-> "checker", owner |-> host.owner, generation |-> host.generation,
           ref |-> NextAttempt] \in Receipt
      BY <1>0, <2>1, <3>1 DEF Receipt
    <3>5. running' \in SUBSET Receipt
      BY <1>0, <2>3, <3>3, <3>4 DEF Runs
    <3>6. host' \in HostState
      BY <1>0, <2>3, HostUpdates DEF Goto, HostPc
    <3>7. /\ host'.pc = "checking" /\ host'.generation = host.generation
          /\ host'.next = host.next /\ host'.goal = host.goal
      BY <1>0, <2>3 DEF Goto, HostState
    <3> QED
      BY <2>1, <3>1, <3>2, <3>5, <3>6, <3>7 DEF DriveTypeOK, Equipped, At
  <2> QED
    BY <1>1, <2>2, <2>3 DEF ClaimReview
<1>2. CASE Imported \/ \E measured \in BOOLEAN : ReviewFails(measured)
  <2>1. At("checking") /\ UNCHANGED <<files, running, record, tries>>
    BY <1>2 DEF Imported, ReviewFails
  <2>2. Check \in Receipt /\ host.generation <= MaxGeneration /\ Check.ref \in Attempt
    BY <1>0, <2>1, ProcessesTyped, AttemptsCounted DEF At, Equipped, Check
  <2> HIDE DEF Check
  <2>3. checks' \in [Attempt -> CheckStates]
    <3>1. checks' = checks \/ \E word \in CheckStates : checks' = [checks EXCEPT ![Check.ref] = word]
      BY <1>2 DEF Imported, ReviewFails, CheckStates
    <3> QED
      BY <1>0, <2>2, <3>1
  <2>4. CASE Stop
    BY <1>0, <2>1, <2>3, <2>4, StopTyped
  <2>5. CASE SettleThen({Check}, "off", "off")
    <3>0. "settle" \in HostPc /\ "off" \in After /\ "off" \in Refusal /\ {Check} \in SUBSET Receipt
      BY <2>2 DEF HostPc, After, Refusal
    <3>1. host' \in HostState
      BY <1>0, <2>5, <3>0, SettleTyped DEF SettleThen
    <3>2. host'.pc = "settle" /\ host'.generation = host.generation /\ host'.next = "off"
      BY <1>0, <2>5 DEF SettleThen, HostState
    <3> QED
      BY <1>0, <2>1, <2>2, <2>3, <3>1, <3>2 DEF DriveTypeOK, Equipped, At
  <2> QED
    BY <1>2, <2>4, <2>5 DEF Imported, ReviewFails
<1> QED
  BY <1>1, <1>2

LEMMA MakerTyped ==
  ASSUME DriveTypeOK, Equipped,
         \/ RespawnBegins \/ RespawnStep \/ MakerLaunches \/ MakerDrifted
         \/ (\E ok \in BOOLEAN : MakerReturns(ok)) \/ MakerReturned
  PROVE  DriveTypeOK' /\ Equipped'
<1>0. /\ host \in HostState /\ checks \in [Attempt -> CheckStates]
      /\ files \in SUBSET Receipt /\ running \in SUBSET Receipt /\ record \in SUBSET Receipt
      /\ host.owner \in Session /\ host.generation \in 1..(MaxGeneration + 1)
      /\ host.child \in Optional
  BY HostFields DEF DriveTypeOK
<1>1. CASE RespawnBegins
  <2>1. UNCHANGED <<files, record, tries, running, checks>> /\ host.generation <= MaxGeneration
    BY <1>1 DEF RespawnBegins, At, Equipped, costVars
  <2>2. CASE Stop
    BY <1>0, <2>1, <2>2, StopTyped
  <2>3. CASE SameHandoff /\ Goto("maker")
    <3>1. host.child \in Session
      BY <1>0, <2>3 DEF SameHandoff
    <3>2. host' \in HostState
      BY <1>0, <2>3, HostUpdates DEF Goto, HostPc
    <3>3. /\ host'.pc = "maker" /\ host'.generation = host.generation /\ host'.child = host.child
          /\ host'.next = host.next /\ host'.goal = host.goal
      BY <1>0, <2>3 DEF Goto, HostState
    <3> QED
      BY <2>1, <3>1, <3>2, <3>3 DEF DriveTypeOK, Equipped, At
  <2> QED
    BY <1>1, <2>2, <2>3 DEF RespawnBegins
<1>2. CASE RespawnStep \/ MakerDrifted
  BY <1>2, SameDrive DEF RespawnStep, MakerDrifted, drive, costVars, hostVars
<1>3. CASE MakerLaunches
  <2>1. Maker \in Receipt
    BY <1>3, ProcessesTyped DEF MakerLaunches
  <2> HIDE DEF Maker
  <2>2. running' \in SUBSET Receipt /\ UNCHANGED <<files, record, tries, host, checks>>
    BY <1>0, <1>3, <2>1 DEF MakerLaunches, Runs, costVars
  <2> QED
    BY <2>2 DEF DriveTypeOK, Equipped, At
<1>4. ASSUME NEW ok \in BOOLEAN, MakerReturns(ok) PROVE DriveTypeOK' /\ Equipped'
  <2>1. PICK word \in {"ok", "failed"} : host' = [host EXCEPT !.maker = word]
    BY <1>4 DEF MakerReturns
  <2>2. host' \in HostState
    BY <1>0, <2>1, HostUpdates
  <2>3. /\ host'.pc = host.pc /\ host'.generation = host.generation /\ host'.child = host.child
        /\ host'.next = host.next /\ host'.goal = host.goal /\ host'.failed = host.failed
    BY <1>0, <2>1 DEF HostState
  <2>4. UNCHANGED <<files, record, tries, running, checks>>
    BY <1>4 DEF MakerReturns, costVars
  <2> QED
    BY <2>2, <2>3, <2>4 DEF DriveTypeOK, Equipped, At
<1>5. CASE MakerReturned
  <2>1. /\ UNCHANGED <<files, record, tries, running, checks>> /\ host.generation <= MaxGeneration
        /\ At("maker") /\ Maker \in Receipt /\ host.child \in Session
    BY <1>5, ProcessesTyped DEF MakerReturned, At, Equipped, runVars
  <2>2. CASE Stop
    BY <1>0, <2>1, <2>2, StopTyped
  <2> HIDE DEF Maker
  <2>3. CASE SettleThen({Maker}, "pauseFresh", "pauseFresh")
    <3>1. {Maker} \in SUBSET Receipt /\ record' \in SUBSET Receipt
      BY <1>0, <2>1 DEF DriveTypeOK
    <3>2. "pauseFresh" \in After /\ "pauseFresh" \in Refusal /\ "pauseFresh" # "preflight"
      BY DEF After, Refusal
    <3>3. host' = [host EXCEPT !.pc = "settle", !.todo = {Maker}, !.list = {Maker},
                               !.next = "pauseFresh", !.failed = "pauseFresh"]
      BY <2>3 DEF SettleThen
    <3>4. UNCHANGED <<checks, tries, files, running>>
      BY <2>1
    <3> QED
      BY <1>0, <2>1, <3>1, <3>2, <3>3, <3>4, SettleThenTyped, Zenon
  <2>4. CASE Goto("pauseFresh")
    BY <1>0, <2>1, <2>4, GotoTyped DEF HostPc
  <2>5. CASE host' = [host EXCEPT !.pc = "settle", !.todo = {Maker}, !.list = {Maker},
                                 !.owner = host.child, !.generation = @ + 1,
                                 !.next = "off", !.failed = "off"]
    <3>0. host.generation + 1 \in 1..(MaxGeneration + 1)
      BY <1>0, <2>1
    <3>1. host' \in HostState
      <4>1. host' = [pc |-> "settle", owner |-> host.child, generation |-> host.generation + 1,
                     child |-> host.child, goal |-> host.goal, maker |-> host.maker,
                     todo |-> {Maker}, list |-> {Maker}, next |-> "off", failed |-> "off"]
        BY <1>0, <2>5 DEF HostState
      <4>2. host.goal \in {"none", "review", "respawn"} /\ host.maker \in {"none", "ok", "failed"}
        BY <1>0 DEF HostState
      <4> QED
        BY <2>1, <3>0, <4>1, <4>2 DEF HostState, HostPc, After, Refusal
    <3>2. host'.pc = "settle" /\ host'.next = "off" /\ host'.failed = "off"
      BY <1>0, <2>5 DEF HostState
    <3> QED
      BY <2>1, <3>1, <3>2 DEF DriveTypeOK, Equipped, At
  <2> QED
    BY <1>5, <2>2, <2>3, <2>4, <2>5 DEF MakerReturned
<1> QED
  BY <1>1, <1>2, <1>3, <1>4, <1>5

LEMMA NextHostTyped == HostTypeOK /\ [Next]_vars => HostTypeOK'
<1> SUFFICES ASSUME HostTypeOK, [Next]_vars PROVE HostTypeOK'
  OBVIOUS
<1>0. TypeOK /\ RespawnTypeOK /\ DriveTypeOK /\ Equipped
  BY DEF HostTypeOK
<1>1. CASE UNCHANGED vars \/ SessionNext
  <2>1. UNCHANGED drive
    BY <1>1 DEF vars, costVars, hostVars, drive, SessionNext, SessionAcquires, Recovers,
       EmitHandoff, Works, WritesMore, Reports, Finishes
  <2> QED
    BY <1>0, <2>1, SameDrive, NextChainTyped, NextBooksTyped DEF HostTypeOK
<1>2. ASSUME NEW r \in running, NEW ok \in BOOLEAN, WorkerEnds(r, ok) PROVE HostTypeOK'
  <2>1. /\ files' \in SUBSET Receipt /\ running' \in SUBSET Receipt
        /\ UNCHANGED <<record, tries, host, checks>>
    BY <1>0, <1>2 DEF WorkerEnds, DriveTypeOK, runVars
  <2>2. DriveTypeOK' /\ Equipped'
    BY <1>0, <2>1 DEF DriveTypeOK, Equipped, At
  <2> QED
    BY <1>0, <2>2, NextChainTyped, NextBooksTyped DEF HostTypeOK
<1>3. CASE HostNext
  <2>1. DriveTypeOK' /\ Equipped'
    BY <1>0, <1>3, AccountsTyped, ChooseTyped, SmokesTyped, ReviewTyped, MakerTyped DEF HostNext
  <2> QED
    BY <1>0, <2>1, NextChainTyped, NextBooksTyped DEF HostTypeOK
<1> QED
  BY <1>1, <1>2, <1>3 DEF Next

(* Type correctness: the state of the run, of its books and of its host.     *)
THEOREM HostTyping == Spec => []HostTypeOK
  BY InitHostTyped, NextHostTyped, PTL DEF Spec

-----------------------------------------------------------------------------
(* A cost that is appended adds its turns to the sums that it is part of.    *)
Units(lines, places) == UNION {{i} \X (1..lines[i].turns) : i \in places}

LEMMA AppendCost ==
  ASSUME NEW lines \in Seq(Cost), NEW e \in Cost
  PROVE  /\ Append(lines, e) \in Seq(Cost) /\ Len(lines) \in Nat
         /\ Len(Append(lines, e)) = Len(lines) + 1
         /\ \A i \in 1..Len(lines) : Append(lines, e)[i] = lines[i]
         /\ Append(lines, e)[Len(lines) + 1] = e
         /\ 1..Len(Append(lines, e)) = (1..Len(lines)) \cup {Len(lines) + 1}
  OBVIOUS

LEMMA LineTyped ==
  ASSUME NEW lines \in Seq(Cost), NEW i \in 1..Len(lines)
  PROVE  lines[i] \in Cost /\ lines[i].turns \in 0..2
<1>1. lines[i] \in Cost
  OBVIOUS
<1> QED
  BY <1>1 DEF Cost

LEMMA UnitsFinite ==
  ASSUME NEW lines \in Seq(Cost), NEW P \in SUBSET (1..Len(lines))
  PROVE  IsFiniteSet(Units(lines, P)) /\ Paid(lines, P) \in Nat
<1> DEFINE All == (1..Len(lines)) \X (1..2)
<1>0. Len(lines) \in Int
  OBVIOUS
<1>1. IsFiniteSet(1..Len(lines)) /\ IsFiniteSet(1..2)
  <2>1. IsFiniteSet(1..Len(lines))
    BY <1>0, 1 \in Int, FS_Interval, Zenon
  <2>2. IsFiniteSet(1..2)
    BY 2 \in Int, 1 \in Int, FS_Interval, Zenon
  <2> QED
    BY <2>1, <2>2
<1>2. IsFiniteSet(All)
  BY <1>1, FS_Product
<1>3. Units(lines, P) \in SUBSET All
  <2> SUFFICES ASSUME NEW x \in Units(lines, P) PROVE x \in All
    OBVIOUS
  <2>0. PICK i \in P : x \in {i} \X (1..lines[i].turns)
    BY Zenon DEF Units
  <2>1. PICK k \in 1..lines[i].turns : x = <<i, k>>
    BY <2>0
  <2>2. lines[i].turns \in 0..2 /\ i \in 1..Len(lines)
    BY LineTyped
  <2>3. k \in 1..2
    BY <2>2
  <2> QED
    BY <2>1, <2>2, <2>3
<1> HIDE DEF All
<1>4. IsFiniteSet(Units(lines, P))
  BY <1>2, <1>3, FS_Subset, Zenon
<1>5. Paid(lines, P) = Cardinality(Units(lines, P))
  BY DEF Paid, Units
<1> QED
  BY <1>4, <1>5, FS_CardinalityType, Zenon

LEMMA PaidAppend ==
  ASSUME NEW lines \in Seq(Cost), NEW e \in Cost, NEW P \in SUBSET (1..Len(lines))
  PROVE  /\ Paid(Append(lines, e), P) = Paid(lines, P)
         /\ Paid(Append(lines, e), P \cup {Len(lines) + 1}) = Paid(lines, P) + e.turns
<1> DEFINE more == Append(lines, e)
           n    == Len(lines) + 1
           New  == {n} \X (1..e.turns)
<1>0. e.turns \in Nat /\ n \in Nat /\ n \notin P
  BY DEF Cost
<1>1. (\A i \in P : more[i] = lines[i]) /\ more[n] = e
  BY AppendCost
<1> HIDE DEF more, n
<1>2. Units(more, P) = Units(lines, P)
  BY <1>1 DEF Units
<1>3. Units(more, P \cup {n}) = Units(lines, P) \cup New
  <2>2. \A x : x \in Units(more, P \cup {n}) <=> x \in Units(lines, P) \cup New
    <3> SUFFICES ASSUME NEW x
                 PROVE  x \in Units(more, P \cup {n}) <=> x \in Units(lines, P) \/ x \in New
      OBVIOUS
    <3>1. x \in Units(more, P \cup {n})
            <=> \E i \in P \cup {n} : x \in {i} \X (1..more[i].turns)
      BY Zenon DEF Units
    <3>2. x \in Units(lines, P) <=> \E i \in P : x \in {i} \X (1..lines[i].turns)
      BY Zenon DEF Units
    <3> QED
      BY <1>1, <3>1, <3>2, Zenon
  <2> QED
    BY <2>2, Zenon
<1>4. Units(lines, P) \cap New = {}
  <2> SUFFICES ASSUME NEW x \in Units(lines, P), x \in New PROVE FALSE
    OBVIOUS
  <2>0. PICK i \in P : x \in {i} \X (1..lines[i].turns)
    BY Zenon DEF Units
  <2>1. PICK k \in 1..lines[i].turns : x = <<i, k>>
    BY <2>0
  <2>2. PICK k2 \in 1..e.turns : x = <<n, k2>>
    OBVIOUS
  <2>3. i = n
    BY <2>1, <2>2
  <2> QED
    BY <1>0, <2>3
<1>5. IsFiniteSet(New) /\ Cardinality(New) = e.turns
  <2>1. IsFiniteSet({n}) /\ Cardinality({n}) = 1
    BY FS_Singleton, Zenon
  <2>2. 1 \in Int /\ e.turns \in Int /\ (IF 1 > e.turns THEN 0 ELSE e.turns - 1 + 1) = e.turns
    BY <1>0
  <2>3. IsFiniteSet(1..e.turns) /\ Cardinality(1..e.turns) = e.turns
    BY <2>2, FS_Interval, Zenon
  <2>4. IsFiniteSet(New) /\ Cardinality(New) = 1 * e.turns
    BY <2>1, <2>3, FS_Product
  <2> QED
    BY <1>0, <2>4
<1> HIDE DEF New
<1>6. Cardinality(Units(lines, P) \cup New) = Cardinality(Units(lines, P)) + e.turns
  <2>0. IsFiniteSet(Units(lines, P))
    BY UnitsFinite, Zenon
  <2>1. Cardinality(Units(lines, P) \cap New) = 0
    BY <1>4, FS_EmptySet, Zenon
  <2>2. Cardinality(Units(lines, P)) \in Nat
    BY <2>0, FS_CardinalityType, Zenon
  <2>3. Cardinality(Units(lines, P) \cup New)
          = Cardinality(Units(lines, P)) + Cardinality(New) - Cardinality(Units(lines, P) \cap New)
    BY <1>5, <2>0, FS_Union, Zenon
  <2> QED
    BY <1>0, <1>5, <2>1, <2>2, <2>3
<1>7. \A l, Q : Paid(l, Q) = Cardinality(Units(l, Q))
  BY Zenon DEF Paid, Units
<1> QED
  BY <1>2, <1>3, <1>6, <1>7, Zenon DEF more, n

(* The books, for any log.                                                   *)
Books(lines, total, of) ==
  /\ total = Paid(lines, 1..Len(lines))
  /\ \A s \in Session : of[s] = Paid(lines, {i \in 1..Len(lines) : lines[i].owner = s})

LEMMA ChargeBooks ==
  ASSUME NEW lines \in Seq(Cost), NEW e \in Cost, NEW total \in Nat,
         NEW of \in [Session -> Nat], Books(lines, total, of)
  PROVE  Books(Append(lines, e), total + e.turns, [of EXCEPT ![e.owner] = @ + e.turns])
<1> DEFINE more == Append(lines, e)
           n    == Len(lines) + 1
           Of(l, s) == {i \in 1..Len(l) : l[i].owner = s}
<1>1. /\ \A i \in 1..Len(lines) : more[i] = lines[i]
      /\ more[n] = e /\ 1..Len(more) = (1..Len(lines)) \cup {n}
  BY AppendCost
<1>2. total + e.turns = Paid(more, 1..Len(more))
  BY <1>1, PaidAppend DEF Books
<1>3. ASSUME NEW s \in Session
      PROVE  [of EXCEPT ![e.owner] = @ + e.turns][s] = Paid(more, Of(more, s))
  <2>1. of[s] = Paid(lines, Of(lines, s)) /\ Of(lines, s) \in SUBSET (1..Len(lines))
    BY DEF Books
  <2>2. CASE e.owner = s
    <3>1. Of(more, s) = Of(lines, s) \cup {n}
      BY <1>1, <2>2
    <3> HIDE DEF Of
    <3>2. Paid(more, Of(lines, s) \cup {n}) = Paid(lines, Of(lines, s)) + e.turns
      BY <2>1, PaidAppend, Zenon
    <3>3. Paid(more, Of(more, s)) = of[s] + e.turns
      BY <2>1, <3>1, <3>2, Zenon
    <3> QED
      BY <2>2, <3>3
  <2>3. CASE e.owner # s
    <3>1. Of(more, s) = Of(lines, s)
      BY <1>1, <2>3
    <3> HIDE DEF Of
    <3>2. Paid(more, Of(lines, s)) = Paid(lines, Of(lines, s))
      BY <2>1, PaidAppend, Zenon
    <3> QED
      BY <2>1, <2>3, <3>1, <3>2
  <2> QED
    BY <2>2, <2>3
<1> QED
  BY <1>2, <1>3 DEF Books

LEMMA InitBooks == Init => BooksAgree
<1> SUFFICES ASSUME Init PROVE BooksAgree
  OBVIOUS
<1>1. log = <<>> /\ spent = 0 /\ \A s \in Session : turns[s] = 0
  BY DEF Init, AccountingInit
<1>2. 1..Len(log) = {} /\ \A s \in Session : ChargedTo(s) = {}
  BY <1>1 DEF ChargedTo
<1>3. Paid(log, {}) = 0
  BY FS_EmptySet DEF Paid
<1> QED
  BY <1>1, <1>2, <1>3 DEF BooksAgree

LEMMA NextBooks == HostTypeOK /\ BooksAgree /\ [Next]_vars => BooksAgree'
<1> SUFFICES ASSUME HostTypeOK, BooksAgree, [Next]_vars PROVE BooksAgree'
  OBVIOUS
<1>0. log \in Seq(Cost) /\ spent \in Nat /\ turns \in [Session -> Nat] /\ BooksTypeOK
  BY DEF HostTypeOK, BooksTypeOK
<1>1. Books(log, spent, turns) /\ (Books(log, spent, turns)' => BooksAgree')
  BY DEF BooksAgree, Books, ChargedTo
<1>2. ASSUME NEW e \in Cost, Charge(e) PROVE BooksAgree'
  BY <1>0, <1>1, <1>2, ChargeBooks DEF Charge
<1>3. lease.owner \in Session /\ lease.generation \in Nat
  BY DEF HostTypeOK, TypeOK, Lease
<1>4. CASE OwnerPays
  <2>1. FloorOf(lease.owner, lease.generation) \in Cost
    BY <1>3, FloorTyped
  <2>2. \A n \in 1..2 : Explicit("report", lease.owner, lease.generation, n, None) \in Cost
    BY <1>0, <1>3, CostsTyped DEF CostTypes
  <2> QED
    BY <1>2, <1>4, <2>1, <2>2, Zenon DEF OwnerPays, ChargeFloor
<1>5. CASE ProcessPays
  BY <1>0, <1>2, <1>5, OriginTyped, CostsTyped DEF ProcessPays, CostTypes
<1>6. CASE Finishes
  <2> DEFINE floor == FloorOf(lease.owner, lease.generation)
             once  == Append(log, FinishEvent)
  <2>1. floor \in Cost /\ floor.owner \in Session /\ floor.turns \in Nat
    BY <1>3, FloorTyped DEF FloorOf
  <2>2. FinishEvent \in Cost /\ FinishEvent.turns = 0 /\ FinishEvent.owner \in Session
    BY <1>3 DEF FinishEvent, Cost, CostTypes
  <2>3. log' = log \o <<FinishEvent, floor>> /\ spent' = spent + floor.turns
        /\ turns' = [turns EXCEPT ![floor.owner] = @ + floor.turns]
    BY <1>6 DEF Finishes
  <2> HIDE DEF floor
  <2>4. log' = Append(once, floor) /\ once \in Seq(Cost)
    BY <1>0, <2>1, <2>2, <2>3
  <2>5. spent + FinishEvent.turns = spent
        /\ [turns EXCEPT ![FinishEvent.owner] = @ + FinishEvent.turns] = turns
    BY <1>0, <2>2
  <2>6. Books(once, spent, turns)
    BY <1>0, <1>1, <2>2, <2>5, ChargeBooks
  <2> HIDE DEF once
  <2>7. Books(Append(once, floor), spent + floor.turns, [turns EXCEPT ![floor.owner] = @ + floor.turns])
    BY <1>0, <2>1, <2>4, <2>6, ChargeBooks, Zenon
  <2>8. Books(log, spent, turns)'
    BY <2>3, <2>4, <2>7 DEF Books
  <2> QED
    BY <1>1, <2>8, Zenon
<1>7. CASE UNCHANGED <<log, turns, spent>>
  BY <1>1, <1>7 DEF Books
<1> QED
  BY <1>4, <1>5, <1>6, <1>7, LogSteps

(* The three books of a run agree: what the budget and each session are said *)
(* to have spent is what the log charges.                                    *)
THEOREM BooksAreRight == Spec => []BooksAgree
  BY InitBooks, NextBooks, HostTyping, PTL DEF Spec

-----------------------------------------------------------------------------
(* The books of an ended run.                                                *)
LEMMA EndStays ==
  ASSUME Terminal, [Next]_vars
  PROVE  Terminal'
<1>1. UNCHANGED chainVars => Terminal'
  BY DEF chainVars, Terminal
<1>2. ~SessionNext
  <2>1. ~\E o \in Session : SessionAcquires(o) \/ Recovers(o) \/ EmitHandoff(o)
    BY DEF SessionAcquires, AcquireTakeover, MayTakeOver, AcquireRecovered, MayAcquireRecovered,
           Recovers, RecoverBoundary, BoundaryRecoverable, EmitHandoff, LeaseCheck, Terminal
  <2>2. ~Works /\ ~WritesMore /\ ~(\E n \in 1..2 : Reports(n)) /\ ~Finishes
    BY DEF Works, BindScope, CloseScope, WritesMore, Reports, Finishes, FinishRun, LeaseCheck
  <2> QED
    BY <2>1, <2>2 DEF SessionNext
<1>3. ~PausePreserve("other")
  BY DEF PausePreserve, MayPause
<1>4. ASSUME SpawnStep(Host) PROVE Terminal'
  BY <1>4, RespawnNextFinal DEF RespawnNext, FinalKept, Terminal
<1>5. CASE UNCHANGED vars \/ \E r \in running, ok \in BOOLEAN : WorkerEnds(r, ok)
  BY <1>1, <1>5 DEF WorkerEnds, vars, runVars
<1>6. CASE HostStart \/ Accounts \/ Choose \/ Preflight \/ ReadPasses \/ WritePasses
           \/ SmokeFails \/ MakerReturned \/ HostCrash \/ PauseOriginal \/ PauseFresh
           \/ \E measured \in BOOLEAN : ReviewFails(measured)
  BY <1>1, <1>3, <1>6 DEF HostStart, Accounts, SettleNext, SettleRefused, RemoveNext, SettleDone,
     CleanDone, Choose, Preflight, ReadPasses, WritePasses, SmokeFails, MakerReturned, HostCrash,
     PauseOriginal, PauseFresh, ReviewFails, runVars
<1>7. CASE ClaimReview \/ Imported
  BY <1>1, <1>7 DEF ClaimReview, Imported, Terminal
<1>8. CASE RespawnBegins \/ RespawnStep \/ MakerLaunches \/ MakerDrifted
           \/ \E ok \in BOOLEAN : MakerReturns(ok)
  BY <1>1, <1>4, <1>8 DEF RespawnBegins, RespawnStep, MakerLaunches, MakerDrifted, MakerReturns,
     SpawnStep
<1> QED
  BY <1>2, <1>5, <1>6, <1>7, <1>8 DEF Next, HostNext

(* A finish ends the run, and its floor follows it at once.                  *)
FinishIsLast ==
  \A i \in 1..Len(log) : log[i].type = "finish" =>
    /\ Terminal /\ i < Len(log)
    /\ log[i + 1].type = "floor" /\ log[i + 1].owner = log[i].owner

EndInv == FinishIsLast /\ EndedBooksClose

LEMMA InitEnd == Init => EndInv
<1> SUFFICES ASSUME Init PROVE EndInv
  OBVIOUS
<1>1. log = <<>>
  BY DEF Init, AccountingInit
<1> QED
  BY <1>1 DEF EndInv, FinishIsLast, EndedBooksClose

NoFinish(lines) == \A i \in 1..Len(lines) : lines[i].type # "finish"

LEMMA NotEnded == NoFinish(log) => EndInv
  BY DEF NoFinish, EndInv, FinishIsLast, EndedBooksClose

LEMMA NotEndedNext == NoFinish(log)' => EndInv'
  BY DEF NoFinish, EndInv, FinishIsLast, EndedBooksClose

LEMMA ChargeEnds ==
  ASSUME HostTypeOK, EndInv, ~Terminal, NEW e \in Cost, e.type # "finish", Charge(e)
  PROVE  EndInv'
<1>1. log \in Seq(Cost) /\ log' = Append(log, e)
  BY DEF HostTypeOK, BooksTypeOK, Charge
<1>2. NoFinish(log)
  BY DEF EndInv, FinishIsLast, NoFinish
<1>3. NoFinish(log)'
  BY <1>1, <1>2, AppendCost DEF NoFinish
<1> QED
  BY <1>3, NotEndedNext

LEMMA FinishEnds ==
  ASSUME HostTypeOK, EndInv, Finishes
  PROVE  EndInv'
<1> DEFINE floor == FloorOf(lease.owner, lease.generation)
           n     == Len(log)
<1>0. lease.owner \in Session /\ lease.generation \in Nat
  BY DEF HostTypeOK, TypeOK, Lease
<1>1. log \in Seq(Cost) /\ n \in Nat
  BY DEF HostTypeOK, BooksTypeOK
<1>2. NoFinish(log) /\ Terminal'
  BY DEF Finishes, FinishRun, LeaseCheck, EndInv, FinishIsLast, NoFinish, Terminal
<1>3. floor \in Cost /\ FinishEvent \in Cost
  <2>1. floor \in Cost
    BY <1>0, FloorTyped
  <2>2. FinishEvent \in Cost
    BY <1>0 DEF FinishEvent, Cost, CostTypes
  <2> QED
    BY <2>1, <2>2
<1>4. floor.type = "floor" /\ floor.owner = FinishEvent.owner /\ FinishEvent.type = "finish"
  BY DEF FloorOf, FinishEvent
<1>5. log' = log \o <<FinishEvent, floor>>
  BY DEF Finishes
<1> HIDE DEF floor
<1>6. /\ Len(log') = n + 2 /\ log'[n + 1] = FinishEvent /\ log'[n + 2] = floor
      /\ \A i \in 1..n : log'[i] = log[i]
  BY <1>1, <1>3, <1>5
<1>7. \A i \in 1..Len(log') : log'[i].type = "finish" => i = n + 1
  BY <1>1, <1>2, <1>4, <1>6 DEF NoFinish
<1> QED
  BY <1>1, <1>2, <1>4, <1>6, <1>7 DEF EndInv, FinishIsLast, EndedBooksClose

LEMMA ProcessEnds ==
  ASSUME HostTypeOK, EndInv, Terminal, Terminal', ProcessPays
  PROVE  EndInv'
<1> DEFINE n == Len(log)
<1>1. PICK r \in Receipt :
        MaySettle(r, host) /\ Charge(Explicit("receipt", Origin(r).owner, Origin(r).generation, 1, r))
  BY DEF ProcessPays
<1>2. PICK e \in Cost : e.type = "receipt" /\ e.owner = Origin(r).owner /\ log' = Append(log, e)
  <2> DEFINE e == Explicit("receipt", Origin(r).owner, Origin(r).generation, 1, r)
  <2>1. e \in Cost
    BY OriginTyped, CostsTyped DEF HostTypeOK, CostTypes
  <2> QED
    BY <1>1, <2>1 DEF Charge, Explicit
<1>3. log \in Seq(Cost) /\ n \in Nat
  BY DEF HostTypeOK, BooksTypeOK
<1>4. n >= 2 /\ log[n - 1].type = "finish" /\ log[n].type = "floor" /\ log[n].owner = Origin(r).owner
  BY <1>1 DEF MaySettle, LeaseCheck, TerminalProof, EndsWithFinish, FloorOf
<1>5. \A i \in 1..n : log[i].type = "finish" => i = n - 1
  BY <1>3, <1>4 DEF EndInv, FinishIsLast, EndedBooksClose
<1>6. /\ Len(log') = n + 1 /\ log'[n + 1] = e
      /\ \A i \in 1..n : log'[i] = log[i]
  BY <1>2, <1>3, AppendCost
<1>7. \A i \in 1..Len(log') : log'[i].type = "finish" => i = n - 1
  BY <1>2, <1>3, <1>5, <1>6
<1>8. log'[n - 1] = log[n - 1] /\ log'[n] = log[n] /\ log[n].owner = log[n - 1].owner
  BY <1>3, <1>4, <1>6 DEF EndInv, FinishIsLast
<1>9. FinishIsLast'
  BY <1>3, <1>4, <1>6, <1>7, <1>8 DEF FinishIsLast
<1>10. EndedBooksClose'
  <2> SUFFICES ASSUME NEW i \in 1..Len(log'), log'[i].type = "finish"
               PROVE  Len(log') = i + 2 /\ log'[i + 2].type = "receipt"
                      /\ log'[i + 2].owner = log'[i].owner
    BY DEF EndedBooksClose
  <2>1. i = n - 1 /\ i + 2 = n + 1
    BY <1>3, <1>7
  <2> QED
    BY <1>2, <1>3, <1>4, <1>6, <1>8, <2>1
<1> QED
  BY <1>9, <1>10 DEF EndInv

LEMMA NextEnd == HostTypeOK /\ EndInv /\ [Next]_vars => EndInv'
<1> SUFFICES ASSUME HostTypeOK, EndInv, [Next]_vars PROVE EndInv'
  OBVIOUS
<1>1. CASE OwnerPays
  <2>1. lease.owner \in Session /\ lease.generation \in Nat /\ BooksTypeOK /\ ~Terminal
    BY <1>1 DEF HostTypeOK, TypeOK, Lease, OwnerPays, LeaseCheck
  <2>2. FloorOf(lease.owner, lease.generation) \in Cost
        /\ FloorOf(lease.owner, lease.generation).type # "finish"
    BY <2>1, FloorTyped DEF FloorOf
  <2>3. \A n \in 1..2 : /\ Explicit("report", lease.owner, lease.generation, n, None) \in Cost
                        /\ Explicit("report", lease.owner, lease.generation, n, None).type # "finish"
    BY <2>1, CostsTyped DEF CostTypes, Explicit
  <2> QED
    BY <1>1, <2>1, <2>2, <2>3, ChargeEnds, Zenon DEF OwnerPays, ChargeFloor
<1>2. CASE ProcessPays
  <2>1. CASE Terminal
    BY <1>2, <2>1, EndStays, ProcessEnds
  <2>2. CASE ~Terminal
    <3>1. PICK r \in Receipt : Charge(Explicit("receipt", Origin(r).owner, Origin(r).generation, 1, r))
      BY <1>2 DEF ProcessPays
    <3> DEFINE e == Explicit("receipt", Origin(r).owner, Origin(r).generation, 1, r)
    <3>2. e \in Cost
      BY OriginTyped, CostsTyped DEF HostTypeOK, CostTypes
    <3>3. e.type # "finish"
      BY DEF Explicit
    <3> QED
      BY <2>2, <3>1, <3>2, <3>3, ChargeEnds, Zenon
  <2> QED
    BY <2>1, <2>2
<1>3. CASE Finishes
  BY <1>3, FinishEnds
<1>4. CASE UNCHANGED <<log, turns, spent>>
  BY <1>4, EndStays DEF EndInv, FinishIsLast, EndedBooksClose
<1> QED
  BY <1>1, <1>2, <1>3, <1>4, LogSteps

(* The books of an ended run close: at most one cost comes after the floor   *)
(* of the finish, and the session that ended the run pays it.                *)
THEOREM EndedBooksAreClosed == Spec => []EndedBooksClose
<1>1. EndInv => EndedBooksClose
  BY DEF EndInv
<1> QED
  BY <1>1, InitEnd, NextEnd, HostTyping, PTL DEF Spec

-----------------------------------------------------------------------------
(* What a session pays.  The floors that trail are paid for beyond its       *)
(* processes: the next explicit cost may absorb them, and only them.         *)
OfType(lines, s, g, type) == {i \in OwnCosts(lines, s, g) : lines[i].type = type}

Balanced(lines, s, g) ==
  LET paid     == Paid(lines, OwnCosts(lines, s, g))
      Of(type) == Cardinality(OfType(lines, s, g, type))
  IN  /\ paid >= Of("receipt") + TrailingFloor(lines, s, g)
      /\ paid >= Of("floor")
      /\ paid <= Of("receipt") + Of("floor") + 2 * Of("report")

TurnsInv == \A s \in Session, g \in 1..MaxGeneration : Balanced(log, s, g)

(* The turns that the code gives to a cost.                                  *)
Priced(lines, e) ==
  /\ e.type = "floor"   => e.turns = 1
  /\ e.type = "receipt" => e.turns = LessFloor(1, TrailingFloor(lines, e.owner, e.generation))
  /\ e.type = "report"  => \E n \in 1..2 :
                             e.turns = LessFloor(n, TrailingFloor(lines, e.owner, e.generation))

LEMMA OwnPlaces ==
  ASSUME NEW lines \in Seq(Cost), NEW s, NEW g
  PROVE  /\ OwnCosts(lines, s, g) \in SUBSET (1..Len(lines))
         /\ Trailing(lines, s, g) \in SUBSET (1..Len(lines))
         /\ \A type : OfType(lines, s, g, type) \in SUBSET (1..Len(lines))
  BY DEF OwnCosts, Trailing, OfType

LEMMA OnePlaceMore ==
  ASSUME NEW lines \in Seq(Cost), NEW S \in SUBSET (1..Len(lines))
  PROVE  Cardinality(S \cup {Len(lines) + 1}) = Cardinality(S) + 1
<1>1. IsFiniteSet(S) /\ Len(lines) + 1 \notin S
  BY PlacesFinite
<1> QED
  BY <1>1, FS_AddElement, Zenon

(* The costs of one session, after a cost of another and after one of its    *)
(* own.                                                                      *)
LEMMA OtherAppended ==
  ASSUME NEW lines \in Seq(Cost), NEW e \in Cost, NEW s, NEW g,
         e.type = "finish" \/ e.owner # s \/ e.generation # g
  PROVE  /\ OwnCosts(Append(lines, e), s, g) = OwnCosts(lines, s, g)
         /\ Trailing(Append(lines, e), s, g) = Trailing(lines, s, g)
         /\ \A type : OfType(Append(lines, e), s, g, type) = OfType(lines, s, g, type)
<1> DEFINE more == Append(lines, e)
<1>1. /\ \A i \in 1..Len(lines) : more[i] = lines[i]
      /\ more[Len(lines) + 1] = e /\ 1..Len(more) = (1..Len(lines)) \cup {Len(lines) + 1}
  BY AppendCost
<1> HIDE DEF more
<1>2. OwnCosts(more, s, g) = OwnCosts(lines, s, g)
  BY <1>1 DEF OwnCosts
<1>3. \A i \in OwnCosts(lines, s, g) : more[i] = lines[i]
  BY <1>1 DEF OwnCosts
<1>4. Trailing(more, s, g) = Trailing(lines, s, g)
  BY <1>2, <1>3 DEF Trailing
<1>5. \A type : OfType(more, s, g, type) = OfType(lines, s, g, type)
  BY <1>2, <1>3 DEF OfType
<1> QED
  BY <1>2, <1>4, <1>5 DEF more

LEMMA OwnAppended ==
  ASSUME NEW lines \in Seq(Cost), NEW e \in Cost, NEW s, NEW g,
         e.type # "finish", e.owner = s, e.generation = g
  PROVE  LET n == Len(lines) + 1
         IN  /\ OwnCosts(Append(lines, e), s, g) = OwnCosts(lines, s, g) \cup {n}
             /\ Trailing(Append(lines, e), s, g)
                  = IF e.type = "floor" THEN Trailing(lines, s, g) \cup {n} ELSE {}
             /\ \A type : OfType(Append(lines, e), s, g, type)
                  = IF e.type = type THEN OfType(lines, s, g, type) \cup {n}
                                     ELSE OfType(lines, s, g, type)
<1> DEFINE more == Append(lines, e)
           n    == Len(lines) + 1
           own  == OwnCosts(lines, s, g)
<1>1. /\ \A i \in 1..Len(lines) : more[i] = lines[i] /\ n > i
      /\ more[n] = e /\ 1..Len(more) = (1..Len(lines)) \cup {n} /\ n >= n
  BY AppendCost
<1> HIDE DEF more, n
<1>2. OwnCosts(more, s, g) = own \cup {n}
  BY <1>1 DEF OwnCosts
<1>3. \A i \in own : more[i] = lines[i] /\ ~(i >= n) /\ n >= i
  BY <1>1, OwnPlaces DEF n
<1>4. ASSUME e.type = "floor"
      PROVE  Trailing(more, s, g) = Trailing(lines, s, g) \cup {n}
  <2>1. \A x : x \in Trailing(more, s, g)
               <=> x \in own \cup {n} /\ \A j \in own \cup {n} : j >= x => more[j].type = "floor"
    BY <1>2, Zenon DEF Trailing
  <2>2. \A x : x \in Trailing(lines, s, g)
               <=> x \in own /\ \A j \in own : j >= x => lines[j].type = "floor"
    BY Zenon DEF Trailing
  <2> HIDE DEF own
  <2>3. \A x \in own : x \in Trailing(more, s, g) <=> x \in Trailing(lines, s, g)
    BY <1>1, <1>3, <1>4, <2>1, <2>2
  <2>4. n \in Trailing(more, s, g)
    BY <1>1, <1>3, <1>4, <2>1, Zenon
  <2> QED
    BY <2>1, <2>2, <2>3, <2>4, Zenon
<1>5. ASSUME e.type # "floor"
      PROVE  Trailing(more, s, g) = {}
  <2>1. \A x : x \in Trailing(more, s, g)
               => x \in own \cup {n} /\ (n >= x => more[n].type = "floor")
    BY <1>2, Zenon DEF Trailing
  <2> HIDE DEF own
  <2> QED
    BY <1>1, <1>3, <1>5, <2>1, Zenon
<1>6. \A type : OfType(more, s, g, type) = IF e.type = type THEN OfType(lines, s, g, type) \cup {n}
                                                            ELSE OfType(lines, s, g, type)
  BY <1>1, <1>2, <1>3 DEF OfType
<1> QED
  BY <1>2, <1>4, <1>5, <1>6 DEF more, n

LEMMA BalanceKept ==
  ASSUME NEW lines \in Seq(Cost), NEW e \in Cost, Priced(lines, e),
         NEW s, NEW g, Balanced(lines, s, g)
  PROVE  Balanced(Append(lines, e), s, g)
<1> DEFINE more == Append(lines, e)
           n    == Len(lines) + 1
           own  == OwnCosts(lines, s, g)
           paid == Paid(lines, own)
           t    == TrailingFloor(lines, s, g)
           Of(type) == Cardinality(OfType(lines, s, g, type))
           r0   == Of("receipt")
           f0   == Of("floor")
           p0   == Of("report")
           x    == e.turns
<1>0. paid \in Nat /\ t \in Nat /\ x \in Nat /\ r0 \in Nat /\ f0 \in Nat /\ p0 \in Nat
  <2>1. paid \in Nat
    BY OwnPlaces, UnitsFinite, Zenon
  <2>2. \A type : Of(type) \in Nat
    BY OwnPlaces, PlacesFinite, Zenon
  <2>3. t \in Nat
    BY TrailingTyped
  <2>4. e.turns \in Nat
    BY DEF Cost
  <2> QED
    BY <2>1, <2>2, <2>3, <2>4
<1>1. paid >= r0 + t /\ paid >= f0 /\ paid <= r0 + f0 + 2 * p0
  BY DEF Balanced
<1>2. CASE e.type = "finish" \/ e.owner # s \/ e.generation # g
  <2>1. Paid(more, OwnCosts(more, s, g)) = paid
    <3>1. Paid(more, own) = paid
      BY OwnPlaces, PaidAppend, Zenon
    <3>2. OwnCosts(more, s, g) = own
      BY <1>2, OtherAppended
    <3> QED
      BY <3>1, <3>2
  <2>2. TrailingFloor(more, s, g) = t /\ \A type : OfType(more, s, g, type) = OfType(lines, s, g, type)
    BY <1>2, OtherAppended DEF TrailingFloor
  <2> QED
    BY <1>1, <2>1, <2>2 DEF Balanced
<1>3. CASE ~(e.type = "finish" \/ e.owner # s \/ e.generation # g)
  <2>1. Paid(more, OwnCosts(more, s, g)) = paid + e.turns
    <3>1. Paid(more, own \cup {n}) = paid + e.turns
      BY OwnPlaces, PaidAppend, Zenon
    <3>2. OwnCosts(more, s, g) = own \cup {n}
      BY <1>3, OwnAppended
    <3> QED
      BY <3>1, <3>2
  <2>2. \A type : Cardinality(OfType(more, s, g, type)) = IF e.type = type THEN Of(type) + 1 ELSE Of(type)
    <3>1. \A type : Cardinality(OfType(lines, s, g, type) \cup {n}) = Of(type) + 1
      BY OwnPlaces, OnePlaceMore, Zenon
    <3>2. \A type : OfType(more, s, g, type) = IF e.type = type THEN OfType(lines, s, g, type) \cup {n}
                                                                ELSE OfType(lines, s, g, type)
      BY <1>3, OwnAppended
    <3> QED
      BY <3>1, <3>2
  <2>3. TrailingFloor(more, s, g) = IF e.type = "floor" THEN t + 1 ELSE 0
    <3>1. Cardinality(Trailing(lines, s, g) \cup {n}) = t + 1
      BY OwnPlaces, OnePlaceMore, Zenon DEF TrailingFloor
    <3>2. Trailing(more, s, g) = IF e.type = "floor" THEN Trailing(lines, s, g) \cup {n} ELSE {}
      BY <1>3, OwnAppended
    <3> QED
      BY <3>1, <3>2, FS_EmptySet DEF TrailingFloor
  <2>4. /\ e.type = "floor" => x = 1
        /\ e.type = "receipt" => x = IF 1 > t THEN 1 - t ELSE 0
        /\ e.type = "report" => \E k \in 1..2 : x = IF k > t THEN k - t ELSE 0
    BY <1>3 DEF Priced, LessFloor
  <2>5. e.type \in {"floor", "receipt", "report"}
    BY <1>3 DEF Cost, CostTypes
  <2> HIDE DEF paid, t, Of, more, r0, f0, p0, x
  <2> DEFINE now      == Paid(more, OwnCosts(more, s, g))
             receipts == Cardinality(OfType(more, s, g, "receipt"))
             floors   == Cardinality(OfType(more, s, g, "floor"))
             reports  == Cardinality(OfType(more, s, g, "report"))
             trailing == TrailingFloor(more, s, g)
  <2>7. /\ now = paid + x
        /\ receipts = IF e.type = "receipt" THEN r0 + 1 ELSE r0
        /\ floors = IF e.type = "floor" THEN f0 + 1 ELSE f0
        /\ reports = IF e.type = "report" THEN p0 + 1 ELSE p0
        /\ trailing = IF e.type = "floor" THEN t + 1 ELSE 0
    BY <2>1, <2>2, <2>3 DEF r0, f0, p0, x
  <2> HIDE DEF now, receipts, floors, reports, trailing
  <2>6. /\ now >= receipts + trailing /\ now >= floors
        /\ now <= receipts + floors + 2 * reports
    <3>1. CASE e.type = "floor"
      BY <1>0, <1>1, <2>4, <2>7, <3>1
    <3>2. CASE e.type = "receipt"
      BY <1>0, <1>1, <2>4, <2>7, <3>2
    <3>3. CASE e.type = "report"
      BY <1>0, <1>1, <2>4, <2>7, <3>3
    <3> QED
      BY <2>5, <3>1, <3>2, <3>3
  <2> QED
    BY <2>6 DEF Balanced, more, now, receipts, floors, reports, trailing
<1> QED
  BY <1>2, <1>3

(* Every cost is priced like that.                                           *)
LEMMA FloorPriced ==
  ASSUME NEW lines, NEW s, NEW g
  PROVE  Priced(lines, FloorOf(s, g))
  BY DEF Priced, FloorOf

LEMMA InitTurns == Init => TurnsInv
<1> SUFFICES ASSUME Init, NEW s \in Session, NEW g \in 1..MaxGeneration PROVE Balanced(log, s, g)
  BY DEF TurnsInv
<1>1. log = <<>>
  BY DEF Init, AccountingInit
<1>2. 1..Len(log) = {}
  BY <1>1
<1>3. /\ OwnCosts(log, s, g) = {} /\ Trailing(log, s, g) = {}
      /\ \A type : OfType(log, s, g, type) = {}
  BY <1>2, Zenon DEF OwnCosts, Trailing, OfType
<1>4. Cardinality({}) = 0 /\ Paid(log, {}) = 0
  BY FS_EmptySet DEF Paid
<1>5. /\ Paid(log, OwnCosts(log, s, g)) = 0 /\ TrailingFloor(log, s, g) = 0
      /\ Cardinality(OfType(log, s, g, "receipt")) = 0
      /\ Cardinality(OfType(log, s, g, "floor")) = 0
      /\ Cardinality(OfType(log, s, g, "report")) = 0
  BY <1>3, <1>4 DEF TrailingFloor
<1> QED
  BY <1>5 DEF Balanced

LEMMA ChargeBalance ==
  ASSUME HostTypeOK, TurnsInv, NEW e \in Cost, Priced(log, e), Charge(e)
  PROVE  TurnsInv'
<1>1. log \in Seq(Cost) /\ log' = Append(log, e)
  BY DEF HostTypeOK, BooksTypeOK, Charge
<1>2. \A s \in Session, g \in 1..MaxGeneration : Balanced(Append(log, e), s, g)
  BY <1>1, BalanceKept, Zenon DEF TurnsInv
<1> QED
  BY <1>1, <1>2, Zenon DEF TurnsInv

LEMMA NextTurns == HostTypeOK /\ TurnsInv /\ [Next]_vars => TurnsInv'
<1> SUFFICES ASSUME HostTypeOK, TurnsInv, [Next]_vars PROVE TurnsInv'
  OBVIOUS
<1>0. /\ lease.owner \in Session /\ lease.generation \in Nat
      /\ BooksTypeOK /\ log \in Seq(Cost)
  BY DEF HostTypeOK, BooksTypeOK, TypeOK, Lease
<1>1. CASE OwnerPays
  <2>1. FloorOf(lease.owner, lease.generation) \in Cost
    BY <1>0, FloorTyped
  <2>2. \A n \in 1..2 : Explicit("report", lease.owner, lease.generation, n, None) \in Cost
    BY <1>0, CostsTyped DEF CostTypes
  <2>3. \A n \in 1..2 : Priced(log, Explicit("report", lease.owner, lease.generation, n, None))
    BY DEF Priced, Explicit
  <2> QED
    BY <1>1, <2>1, <2>2, <2>3, FloorPriced, ChargeBalance, Zenon DEF OwnerPays, ChargeFloor
<1>2. CASE ProcessPays
  <2>1. PICK r \in Receipt : Charge(Explicit("receipt", Origin(r).owner, Origin(r).generation, 1, r))
    BY <1>2 DEF ProcessPays
  <2> DEFINE e == Explicit("receipt", Origin(r).owner, Origin(r).generation, 1, r)
  <2>2. e \in Cost
    BY <1>0, OriginTyped, CostsTyped DEF CostTypes
  <2>3. Priced(log, e)
    BY DEF Priced, Explicit
  <2> QED
    BY <2>1, <2>2, <2>3, ChargeBalance, Zenon
<1>3. CASE Finishes
  <2> DEFINE floor == FloorOf(lease.owner, lease.generation)
             once  == Append(log, FinishEvent)
  <2>1. floor \in Cost
    BY <1>0, FloorTyped
  <2>2. FinishEvent \in Cost
    BY <1>0 DEF FinishEvent, Cost, CostTypes
  <2>3. Priced(log, FinishEvent)
    BY DEF FinishEvent, Priced
  <2>4. log' = log \o <<FinishEvent, floor>>
    BY <1>3 DEF Finishes
  <2>5. Priced(once, floor)
    BY FloorPriced, Zenon
  <2> HIDE DEF floor
  <2>6. log' = Append(once, floor) /\ once \in Seq(Cost)
    BY <1>0, <2>1, <2>2, <2>4
  <2>7. \A s \in Session, g \in 1..MaxGeneration : Balanced(once, s, g)
    BY <1>0, <2>2, <2>3, BalanceKept, Zenon DEF TurnsInv
  <2> HIDE DEF once
  <2>8. \A s \in Session, g \in 1..MaxGeneration : Balanced(Append(once, floor), s, g)
    BY <2>1, <2>5, <2>6, <2>7, BalanceKept, Zenon
  <2> QED
    BY <2>6, <2>8, Zenon DEF TurnsInv
<1>4. CASE UNCHANGED <<log, turns, spent>>
  BY <1>4 DEF TurnsInv
<1> QED
  BY <1>1, <1>2, <1>3, <1>4, LogSteps

(* A turn is paid for, and not twice: a session pays at least for each of    *)
(* its processes, at least for each of its writes, and at most for both and  *)
(* its reports together.                                                     *)
THEOREM TurnsArePaidOnce == Spec => []NoTurnLostOrDoubled
<1>1. HostTypeOK /\ TurnsInv => NoTurnLostOrDoubled
  <2> SUFFICES ASSUME HostTypeOK, TurnsInv, NEW s \in Session, NEW g \in 1..MaxGeneration
               PROVE  LET own      == OwnCosts(log, s, g)
                          Of(type) == Cardinality({i \in own : log[i].type = type})
                      IN  /\ Paid(log, own) >= Of("receipt")
                          /\ Paid(log, own) >= Of("floor")
                          /\ Paid(log, own) <= Of("receipt") + Of("floor") + 2 * Of("report")
    BY DEF NoTurnLostOrDoubled
  <2>1. Balanced(log, s, g)
    BY DEF TurnsInv
  <2>2. log \in Seq(Cost)
    BY DEF HostTypeOK, BooksTypeOK
  <2>3. Paid(log, OwnCosts(log, s, g)) \in Nat
    BY <2>2, OwnPlaces, UnitsFinite, Zenon
  <2>4. TrailingFloor(log, s, g) \in Nat /\ Cardinality(OfType(log, s, g, "receipt")) \in Nat
    BY <2>2, OwnPlaces, TrailingTyped, PlacesFinite
  <2> QED
    BY <2>1, <2>3, <2>4 DEF Balanced, OfType
<1> QED
  BY <1>1, InitTurns, NextTurns, HostTyping, PTL DEF Spec

-----------------------------------------------------------------------------
(* Cleaning up.  A receipt is removed after it was settled, and a write      *)
(* smoke before its read smoke, for which the list of the host has to hold   *)
(* both: a smoke runs once, and its attempt is not drawn again.              *)
Known(o) == o \in files \/ o \in running \/ Recorded(o)

SmokesCounted == \A o \in Receipt : o.kind \in Smokes /\ Known(o) => o.ref <= tries
WriteIsNew    == At("read") => \A o \in Receipt : o.kind = "write" /\ Known(o) => o.ref # tries
WritesRunOnce == \A o \in running : o.kind = "write" => o \notin files /\ ~Recorded(o)
ReadIsKept    == At("write") => Smoke("read") \in files
Settleable(S) == \A o \in S : o.kind \in Smokes => o \in files \/ Recorded(o)
PairPublished == record # {} => \E o \in record : o.kind = "write" /\ record = {ReadOf(o), o}

(* A list to remove goes with the receipts that are still to be settled, and *)
(* holds the write smokes that were paid with their read smokes.             *)
Removable(todo, list) ==
  /\ \A r \in list : r \in todo \/ Recorded(r)
  /\ list # {} =>
       /\ todo \subseteq list
       /\ \A r \in list, o \in files :
            o.kind = "write" /\ ReadOf(o) = r /\ Recorded(o) => o \in list

Sweeping == /\ host.pc \in {"settle", "clean"} => Removable(host.todo, host.list)
            /\ At("clean") => host.todo = {}

CleanInv == /\ SmokesCounted /\ WriteIsNew /\ WritesRunOnce /\ ReadIsKept
            /\ Settleable(record) /\ Settleable(host.todo)
            /\ PairPublished /\ Sweeping

LEMMA Pairs ==
  ASSUME NEW o \in Receipt, NEW o2 \in Receipt, o.kind = "write", o2.kind = "write"
  PROVE  /\ ReadOf(o).kind = "read" /\ ReadOf(o) # o2
         /\ ReadOf(o) = ReadOf(o2) => o = o2
<1>1. /\ o = [kind |-> o.kind, owner |-> o.owner, generation |-> o.generation, ref |-> o.ref]
      /\ o2 = [kind |-> o2.kind, owner |-> o2.owner, generation |-> o2.generation, ref |-> o2.ref]
  BY DEF Receipt
<1>2. /\ ReadOf(o) = [kind |-> "read", owner |-> o.owner, generation |-> o.generation, ref |-> o.ref]
      /\ ReadOf(o2) = [kind |-> "read", owner |-> o2.owner, generation |-> o2.generation, ref |-> o2.ref]
  BY <1>1 DEF ReadOf
<1> QED
  BY <1>1, <1>2

LEMMA SmokePair ==
  /\ ReadOf(Smoke("write")) = Smoke("read") /\ Smoke("read").kind = "read"
  /\ Smoke("write").kind = "write" /\ Smoke("write").ref = tries /\ Smoke("read").ref = tries
  BY DEF ReadOf, Smoke

(* What the log records.                                                     *)
RecordedKept == \A o : Recorded(o)' <=> Recorded(o)

LEMMA SameLog == UNCHANGED log => RecordedKept
  BY DEF RecordedKept, Recorded, EventsOf

LEMMA RecordedCharge ==
  ASSUME BooksTypeOK, NEW e \in Cost, Charge(e)
  PROVE  \A o : Recorded(o)' <=> Recorded(o) \/ (e.type = "receipt" /\ e.of = o)
<1>1. log \in Seq(Cost) /\ log' = Append(log, e)
  BY DEF BooksTypeOK, Charge
<1> DEFINE n == Len(log) + 1
<1>2. /\ \A i \in 1..Len(log) : log'[i] = log[i]
      /\ log'[n] = e /\ 1..Len(log') = (1..Len(log)) \cup {n}
  BY <1>1, AppendCost
<1>3. \A o : Recorded(o) <=> \E i \in 1..Len(log) : log[i].type = "receipt" /\ log[i].of = o
  BY DEF Recorded, EventsOf
<1>4. \A o : Recorded(o)' <=> \E i \in 1..Len(log') : log'[i].type = "receipt" /\ log'[i].of = o
  BY DEF Recorded, EventsOf
<1> HIDE DEF n
<1> QED
  BY <1>2, <1>3, <1>4, Zenon

LEMMA OwnerRecords ==
  ASSUME BooksTypeOK, NEW s \in Session, NEW g \in Nat,
         \/ Charge(FloorOf(s, g))
         \/ \E n \in 1..2 : Charge(Explicit("report", s, g, n, None))
  PROVE  RecordedKept
<1>1. FloorOf(s, g) \in Cost /\ FloorOf(s, g).type = "floor"
  BY FloorTyped DEF FloorOf
<1>2. \A n \in 1..2 : /\ Explicit("report", s, g, n, None) \in Cost
                      /\ Explicit("report", s, g, n, None).type = "report"
  BY CostsTyped DEF CostTypes, Explicit
<1> QED
  BY <1>1, <1>2, RecordedCharge DEF RecordedKept

LEMMA FinishRecords ==
  ASSUME TypeOK, BooksTypeOK, Finishes
  PROVE  RecordedKept
<1> DEFINE floor == FloorOf(lease.owner, lease.generation)
           n     == Len(log)
<1>0. lease.owner \in Session /\ lease.generation \in Nat
  BY DEF TypeOK, Lease
<1>1. log \in Seq(Cost) /\ n \in Nat /\ log' = log \o <<FinishEvent, floor>>
  BY DEF BooksTypeOK, Finishes
<1>2. floor \in Cost /\ floor.type = "floor"
  BY <1>0, FloorTyped DEF FloorOf
<1>3. FinishEvent \in Cost /\ FinishEvent.type = "finish"
  BY <1>0 DEF FinishEvent, Cost, CostTypes
<1> HIDE DEF floor
<1>4. /\ log'[n + 1] = FinishEvent /\ log'[n + 2] = floor
      /\ 1..Len(log') = (1..n) \cup {n + 1, n + 2} /\ \A i \in 1..n : log'[i] = log[i]
  BY <1>1, <1>2, <1>3
<1>5. \A o : Recorded(o) <=> \E i \in 1..n : log[i].type = "receipt" /\ log[i].of = o
  BY DEF Recorded, EventsOf
<1>6. \A o : Recorded(o)' <=> \E i \in 1..Len(log') : log'[i].type = "receipt" /\ log'[i].of = o
  BY DEF Recorded, EventsOf
<1> HIDE DEF n
<1> QED
  BY <1>2, <1>3, <1>4, <1>5, <1>6 DEF RecordedKept

LEMMA LogRecords ==
  ASSUME HostTypeOK, [Next]_vars
  PROVE  RecordedKept \/ \E r \in host.todo : SettleNext(r)
<1>1. CASE OwnerPays
  <2>1. lease.owner \in Session /\ lease.generation \in Nat
    BY DEF HostTypeOK, TypeOK, Lease
  <2> QED
    BY <1>1, <2>1, OwnerRecords DEF OwnerPays, ChargeFloor, HostTypeOK
<1>2. CASE ProcessPays
  BY <1>2 DEF ProcessPays
<1>3. CASE Finishes
  BY <1>3, FinishRecords DEF HostTypeOK
<1>4. CASE UNCHANGED <<log, turns, spent>>
  BY <1>4, SameLog
<1> QED
  BY <1>1, <1>2, <1>3, <1>4, LogSteps

(* The host settles one receipt: it is recorded now.                         *)
LEMMA SettleRecords ==
  ASSUME HostTypeOK, NEW r \in Receipt, SettleNext(r)
  PROVE  /\ Recorded(r)'
         /\ \A o : Recorded(o) => Recorded(o)'
         /\ \A o : Recorded(o)' => Recorded(o) \/ o = r
<1>1. CASE MaySettle(r, host) /\ Charge(Explicit("receipt", Origin(r).owner, Origin(r).generation, 1, r))
  <2> DEFINE e == Explicit("receipt", Origin(r).owner, Origin(r).generation, 1, r)
  <2>1. e \in Cost
    BY OriginTyped, CostsTyped DEF HostTypeOK, CostTypes
  <2>2. e.type = "receipt" /\ e.of = r
    BY DEF Explicit
  <2> HIDE DEF e
  <2>3. \A o : Recorded(o)' <=> Recorded(o) \/ (e.type = "receipt" /\ e.of = o)
    BY <1>1, <2>1, RecordedCharge DEF HostTypeOK, e
  <2> QED
    BY <2>2, <2>3, Zenon
<1>2. CASE AlreadySettled(r, host) /\ UNCHANGED <<log, turns, spent>>
  <2>1. Recorded(r)
    BY <1>2 DEF AlreadySettled, Recorded
  <2> QED
    BY <1>2, <2>1, SameLog DEF RecordedKept
<1> QED
  BY <1>1, <1>2 DEF SettleNext, Settle

-----------------------------------------------------------------------------
(* What the invariant asks of a step, part by part.                          *)
LEMMA InitClean == Init => CleanInv
<1> SUFFICES ASSUME Init PROVE CleanInv
  OBVIOUS
<1>1. log = <<>> /\ files = {} /\ running = {} /\ record = {} /\ host = HostOff
  BY DEF Init, AccountingInit
<1>2. \A o : ~Recorded(o)
  BY <1>1 DEF Recorded, EventsOf
<1> QED
  BY <1>1, <1>2 DEF CleanInv, SmokesCounted, WriteIsNew, WritesRunOnce, ReadIsKept, Settleable,
     PairPublished, Sweeping, Removable, Known, At, HostOff

(* The host goes elsewhere, and nothing else changes.                        *)
LEMMA HostMoves ==
  ASSUME CleanInv, UNCHANGED <<files, running, record, tries>>, RecordedKept,
         host'.pc \notin {"read", "write"}, Settleable(host'.todo),
         host'.pc \in {"settle", "clean"} => Removable(host'.todo, host'.list),
         host'.pc = "clean" => host'.todo = {}
  PROVE  CleanInv'
<1>1. SmokesCounted' /\ WritesRunOnce'
  BY Zenon DEF CleanInv, SmokesCounted, WritesRunOnce, Known, RecordedKept
<1>2. WriteIsNew' /\ ReadIsKept'
  BY DEF WriteIsNew, ReadIsKept, At
<1>3. Settleable(record)' /\ Settleable(host.todo)'
  BY Zenon DEF CleanInv, Settleable, RecordedKept
<1>4. PairPublished'
  BY DEF CleanInv, PairPublished
<1>5. Sweeping'
  <2>1. Removable(host'.todo, host'.list) => Removable(host.todo, host.list)'
    BY Zenon DEF Removable, RecordedKept
  <2> QED
    BY <2>1 DEF Sweeping, At
<1> QED
  BY <1>1, <1>2, <1>3, <1>4, <1>5 DEF CleanInv

LEMMA NothingMoves ==
  ASSUME CleanInv, UNCHANGED <<files, running, record, tries, host>>, RecordedKept
  PROVE  CleanInv'
<1>1. SmokesCounted' /\ WritesRunOnce' /\ WriteIsNew'
  BY Zenon DEF CleanInv, SmokesCounted, WritesRunOnce, WriteIsNew, Known, RecordedKept, At
<1>2. ReadIsKept' /\ PairPublished'
  BY DEF CleanInv, ReadIsKept, PairPublished, At, Smoke
<1>3. Settleable(record)' /\ Settleable(host.todo)'
  BY Zenon DEF CleanInv, Settleable, RecordedKept
<1>4. Sweeping'
  <2>1. Removable(host.todo, host.list) => Removable(host.todo, host.list)'
    BY Zenon DEF Removable, RecordedKept
  <2> QED
    BY <2>1 DEF CleanInv, Sweeping, At
<1> QED
  BY <1>1, <1>2, <1>3, <1>4 DEF CleanInv

(* A worker is started for a receipt that is no smoke.                       *)
LEMMA WorkerStarts ==
  ASSUME CleanInv, NEW r, r.kind \notin Smokes, Runs(r),
         UNCHANGED <<files, record, tries>>, RecordedKept,
         host'.pc \notin {"read", "write", "settle", "clean"}, host'.todo = host.todo
  PROVE  CleanInv'
<1>1. \A o : o \in running' <=> o \in running \/ o = r
  BY DEF Runs
<1>2. \A o : o.kind \in Smokes \/ o.kind = "write" => o # r
  BY DEF Smokes
<1>3. SmokesCounted' /\ WritesRunOnce'
  BY <1>1, <1>2, Zenon DEF CleanInv, SmokesCounted, WritesRunOnce, Known, RecordedKept
<1>4. WriteIsNew' /\ ReadIsKept' /\ Sweeping'
  BY DEF WriteIsNew, ReadIsKept, Sweeping, At
<1>5. Settleable(record)' /\ Settleable(host.todo)'
  BY Zenon DEF CleanInv, Settleable, RecordedKept
<1>6. PairPublished'
  BY DEF CleanInv, PairPublished
<1> QED
  BY <1>3, <1>4, <1>5, <1>6 DEF CleanInv

LEMMA WorkerEndsClean ==
  ASSUME CleanInv, NEW r, NEW ok \in BOOLEAN, WorkerEnds(r, ok), RecordedKept
  PROVE  CleanInv'
<1>1. /\ \A o : o \in running' <=> o \in running /\ o # r
      /\ \A o : o \in files' => o \in files \/ (o = r /\ r \in running)
      /\ \A o : o \in files => o \in files'
      /\ UNCHANGED <<host, record, tries>>
  BY DEF WorkerEnds
<1>2. SmokesCounted' /\ WritesRunOnce' /\ WriteIsNew'
  <2>1. \A o : Known(o)' => Known(o)
    BY <1>1 DEF Known, RecordedKept
  <2>2. SmokesCounted'
    BY <1>1, <2>1, Zenon DEF CleanInv, SmokesCounted
  <2>3. WriteIsNew'
    BY <1>1, <2>1 DEF CleanInv, WriteIsNew, At
  <2>4. WritesRunOnce'
    BY <1>1, Zenon DEF CleanInv, WritesRunOnce, RecordedKept
  <2> QED
    BY <2>2, <2>3, <2>4
<1>3. ReadIsKept' /\ PairPublished'
  BY <1>1 DEF CleanInv, ReadIsKept, PairPublished, At, Smoke
<1>4. Settleable(record)' /\ Settleable(host.todo)'
  BY <1>1, Zenon DEF CleanInv, Settleable, RecordedKept
<1>5. Sweeping'
  <2>1. Removable(host.todo, host.list) => Removable(host.todo, host.list)'
    BY <1>1, Zenon DEF CleanInv, WritesRunOnce, Removable, RecordedKept
  <2> QED
    BY <1>1, <2>1 DEF CleanInv, Sweeping, At
<1> QED
  BY <1>2, <1>3, <1>4, <1>5 DEF CleanInv

-----------------------------------------------------------------------------
(* The drain.                                                                *)
LEMMA SettleClean ==
  ASSUME HostTypeOK, CleanInv, NEW r \in host.todo, SettleNext(r)
  PROVE  CleanInv'
<1>0. r \in Receipt /\ host.todo \in SUBSET Receipt /\ host \in HostState
  BY HostFields DEF HostTypeOK, DriveTypeOK
<1>1. /\ Recorded(r)'
      /\ \A o : Recorded(o) => Recorded(o)'
      /\ \A o : Recorded(o)' => Recorded(o) \/ o = r
  BY <1>0, SettleRecords
<1>2. /\ UNCHANGED <<files, running, record, tries>>
      /\ host.pc = "settle" /\ host'.pc = "settle" /\ host'.list = host.list
      /\ \A o : o \in host'.todo <=> o \in host.todo /\ o # r
  BY <1>0 DEF SettleNext, At, HostState
<1>3. r.kind \in Smokes => r \in files \/ Recorded(r)
  BY DEF CleanInv, Settleable
<1>4. "write" \in Smokes
  BY DEF Smokes
<1>5. SmokesCounted' /\ WritesRunOnce'
  BY <1>1, <1>2, <1>3, <1>4, Zenon DEF CleanInv, SmokesCounted, WritesRunOnce, Known
<1>6. WriteIsNew' /\ ReadIsKept' /\ PairPublished'
  BY <1>2 DEF CleanInv, WriteIsNew, ReadIsKept, PairPublished, At
<1>7. Settleable(record)' /\ Settleable(host.todo)'
  BY <1>1, <1>2, Zenon DEF CleanInv, Settleable
<1>8. Sweeping'
  <2>1. Removable(host.todo, host.list)
    BY <1>2 DEF CleanInv, Sweeping
  <2>2. \A o \in host'.list : o \in host'.todo \/ Recorded(o)'
    BY <1>1, <1>2, <2>1, Zenon DEF Removable
  <2>3. ASSUME host'.list # {}
        PROVE  /\ host'.todo \subseteq host'.list
               /\ \A x \in host'.list, o \in files' :
                    o.kind = "write" /\ ReadOf(o) = x /\ Recorded(o)' => o \in host'.list
    <3>1. host'.todo \subseteq host'.list /\ r \in host'.list
      BY <1>2, <2>1, <2>3, Zenon DEF Removable
    <3>2. \A x \in host.list, o \in files :
            o.kind = "write" /\ ReadOf(o) = x /\ Recorded(o) => o \in host.list
      BY <1>2, <2>1, <2>3, Zenon DEF Removable
    <3> QED
      BY <1>1, <1>2, <3>1, <3>2, Zenon
  <2>4. Removable(host.todo, host.list)'
    BY <2>2, <2>3, Zenon DEF Removable
  <2> QED
    BY <1>2, <2>4 DEF Sweeping, At
<1> QED
  BY <1>5, <1>6, <1>7, <1>8 DEF CleanInv

LEMMA RemoveClean ==
  ASSUME HostTypeOK, CleanInv, NEW r \in host.list, RemoveNext(r)
  PROVE  CleanInv'
<1>0. host \in HostState
  BY DEF HostTypeOK, DriveTypeOK
<1>1. /\ UNCHANGED <<running, record, tries, log>>
      /\ host.pc = "clean" /\ host'.pc = "clean" /\ host'.todo = host.todo
      /\ \A o : o \in host'.list <=> o \in host.list /\ o # r
      /\ \A o : o \in files' <=> o \in files /\ o # r
  BY <1>0 DEF RemoveNext, At, HostState, runVars
<1>2. RecordedKept
  BY <1>1, SameLog
<1>3. Removable(host.todo, host.list) /\ host.todo = {}
  BY <1>1 DEF CleanInv, Sweeping, At
<1>4. Recorded(r)
  BY <1>3 DEF Removable
<1>5. SmokesCounted' /\ WritesRunOnce'
  BY <1>1, <1>2, Zenon DEF CleanInv, SmokesCounted, WritesRunOnce, Known, RecordedKept
<1>6. WriteIsNew' /\ ReadIsKept' /\ PairPublished'
  BY <1>1 DEF CleanInv, WriteIsNew, ReadIsKept, PairPublished, At
<1>7. Settleable(record)' /\ Settleable(host.todo)'
  BY <1>1, <1>2, <1>4, Zenon DEF CleanInv, Settleable, RecordedKept
<1>8. Removable(host.todo, host.list)'
  <2>1. \A o \in host'.list : o \in host'.todo \/ Recorded(o)'
    BY <1>1, <1>2, <1>3, Zenon DEF Removable, RecordedKept
  <2>2. host'.todo \subseteq host'.list
    BY <1>1, <1>3
  <2>3. \A x \in host'.list, o \in files' :
          o.kind = "write" /\ ReadOf(o) = x /\ Recorded(o)' => o \in host'.list
    BY <1>1, <1>2, <1>3, Zenon DEF Removable, RecordedKept
  <2> QED
    BY <2>1, <2>2, <2>3, Zenon DEF Removable
<1>9. Sweeping'
  BY <1>1, <1>3, <1>8 DEF Sweeping, At
<1> QED
  BY <1>5, <1>6, <1>7, <1>9 DEF CleanInv

LEMMA AccountsClean ==
  ASSUME HostTypeOK, CleanInv, Accounts, RecordedKept \/ \E r \in host.todo : SettleNext(r)
  PROVE  CleanInv'
<1>0. host \in HostState /\ host.next \in After /\ host.failed \in Refusal
  BY HostFields DEF HostTypeOK, DriveTypeOK
<1>1. CASE \E r \in host.todo : SettleNext(r)
  BY <1>1, SettleClean
<1>2. CASE \E r \in host.list : RemoveNext(r)
  BY <1>2, RemoveClean
<1>3. CASE \E r \in host.todo : SettleRefused(r)
  <2>1. UNCHANGED <<files, running, record, tries, log>> /\ host' = Refused
    BY <1>3 DEF SettleRefused, runVars
  <2>2. host'.pc \in Refusal /\ host'.todo = {}
    BY <1>0, <2>1 DEF Refused, HostState
  <2> QED
    BY <2>1, <2>2, SameLog, HostMoves DEF Refusal, Settleable
<1>4. CASE SettleDone
  <2>1. UNCHANGED <<files, running, record, tries, log>>
    BY <1>4 DEF SettleDone, runVars
  <2>2. host'.pc = "clean" /\ host'.todo = host.todo /\ host'.list = host.list /\ host.todo = {}
        /\ host.pc = "settle"
    BY <1>0, <1>4 DEF SettleDone, Goto, HostState, At
  <2>3. Removable(host'.todo, host'.list) /\ Settleable(host'.todo)
    BY <2>2 DEF CleanInv, Sweeping
  <2> QED
    BY <2>1, <2>2, <2>3, SameLog, HostMoves
<1>5. CASE CleanDone
  <2>1. UNCHANGED <<files, running, record, tries, log>>
    BY <1>5 DEF CleanDone, runVars
  <2>2. host'.pc = host.next /\ host'.todo = host.todo
    BY <1>0, <1>5 DEF CleanDone, Goto, HostState, At
  <2> QED
    BY <1>0, <2>1, <2>2, SameLog, HostMoves DEF After, CleanInv
<1> QED
  BY <1>1, <1>2, <1>3, <1>4, <1>5 DEF Accounts

-----------------------------------------------------------------------------
(* The preflight.                                                            *)
LEMMA HeldPair ==
  ASSUME HostTypeOK, CleanInv, record # {}, NEW o \in Receipt, o.kind = "write", ReadOf(o) \in record
  PROVE  o \in record
<1>1. PICK o2 \in record : o2.kind = "write" /\ record = {ReadOf(o2), o2}
  BY DEF CleanInv, PairPublished
<1>2. o2 \in Receipt
  BY DEF HostTypeOK, DriveTypeOK
<1> QED
  BY <1>1, <1>2, Pairs

LEMMA OrphansRemovable ==
  ASSUME HostTypeOK, CleanInv
  PROVE  Removable(Orphans, Orphans) /\ Settleable(Orphans)
<1>1. \A o : o \in Orphans <=> o \in files /\ o.kind \in Smokes /\ o \notin record
  BY Zenon DEF Orphans, SmokesOf
<1>2. ASSUME NEW r \in Orphans, NEW o \in files, o.kind = "write", ReadOf(o) = r
      PROVE  o \in Orphans
  <2>1. o \in Receipt /\ o.kind \in Smokes
    BY <1>2 DEF HostTypeOK, DriveTypeOK, Smokes
  <2>2. o \notin record
    <3> SUFFICES ASSUME o \in record PROVE FALSE
      OBVIOUS
    <3>1. PICK o2 \in record : o2.kind = "write" /\ record = {ReadOf(o2), o2}
      BY DEF CleanInv, PairPublished
    <3>2. o2 \in Receipt
      BY DEF HostTypeOK, DriveTypeOK
    <3>3. o = o2
      BY <1>2, <2>1, <3>1, <3>2, Pairs
    <3> QED
      BY <1>1, <1>2, <3>1, <3>3
  <2> QED
    BY <1>1, <2>1, <2>2
<1> QED
  BY <1>1, <1>2, Zenon DEF Removable, Settleable

LEMMA RecordRemovable ==
  ASSUME HostTypeOK, CleanInv, NEW list \in {record, {}}
  PROVE  Removable(record, list) /\ Settleable(record)
<1>1. Settleable(record)
  BY DEF CleanInv
<1>2. \A r \in record, o \in files : o.kind = "write" /\ ReadOf(o) = r => o \in record
  BY HeldPair DEF HostTypeOK, DriveTypeOK
<1> QED
  BY <1>1, <1>2 DEF Removable

(* The smokes of the attempt under way.                                      *)
LEMMA MeasuredRemovable ==
  ASSUME HostTypeOK, NEW list \in {Measured, {}}
  PROVE  Removable(Measured, list) /\ Settleable(Measured)
<1>1. \A o : o \in Measured <=> o \in files /\ (o = Smoke("read") \/ o = Smoke("write"))
  BY Zenon DEF Measured
<1>2. \A r \in Measured, o \in files : o.kind = "write" /\ ReadOf(o) = r => o \in Measured
  <2> SUFFICES ASSUME NEW r \in Measured, NEW o \in files, o.kind = "write", ReadOf(o) = r
               PROVE  o \in Measured
    OBVIOUS
  <2>1. o \in Receipt
    BY DEF HostTypeOK, DriveTypeOK
  <2>2. ReadOf(o).kind = "read" /\ ReadOf(o).owner = o.owner
        /\ ReadOf(o).generation = o.generation /\ ReadOf(o).ref = o.ref
    BY <2>1 DEF ReadOf, Receipt
  <2>3. r = Smoke("read")
    BY <1>1, <2>2, SmokePair
  <2>4. o.owner = host.owner /\ o.generation = host.generation /\ o.ref = tries
    BY <2>2, <2>3 DEF Smoke
  <2>5. o = [kind |-> "write", owner |-> host.owner, generation |-> host.generation, ref |-> tries]
    BY <2>1, <2>4 DEF Receipt
  <2> QED
    BY <1>1, <2>5 DEF Smoke
<1> QED
  BY <1>1, <1>2 DEF Removable, Settleable

LEMMA ActivateMoves ==
  ASSUME host \in HostState, NEW pair, Activate(pair)
  PROVE  /\ host'.pc = "settle" /\ host'.todo = pair /\ host'.list \in {pair, {}}
         /\ host'.owner = host.owner /\ host'.generation = host.generation
  BY DEF Activate, HostState

LEMMA SettleThenMoves ==
  ASSUME host \in HostState, NEW S, NEW next, NEW failed, SettleThen(S, next, failed)
  PROVE  host'.pc = "settle" /\ host'.todo = S /\ host'.list = S
  BY DEF SettleThen, HostState

LEMMA PreflightClean ==
  ASSUME HostTypeOK, CleanInv, Preflight
  PROVE  CleanInv'
<1>0. host \in HostState /\ UNCHANGED <<files, record, log>>
  BY DEF Preflight, HostTypeOK, DriveTypeOK, runVars
<1>1. RecordedKept
  BY <1>0, SameLog
<1>2. CASE Goto("pause") /\ UNCHANGED <<running, tries>>
  <2>1. host'.pc = "pause" /\ host'.todo = host.todo
    BY <1>0, <1>2 DEF Goto, HostState
  <2> QED
    BY <1>0, <1>1, <1>2, <2>1, HostMoves DEF CleanInv
<1>3. CASE SettleThen(Orphans, "preflight", "pause") /\ UNCHANGED <<running, tries>>
  <2>1. host'.pc = "settle" /\ host'.todo = Orphans /\ host'.list = Orphans
    BY <1>0, <1>3, SettleThenMoves
  <2> QED
    BY <1>0, <1>1, <1>3, <2>1, OrphansRemovable, HostMoves
<1>4. CASE Activate(record) /\ UNCHANGED <<running, tries>>
  <2>1. host'.pc = "settle" /\ host'.todo = record /\ host'.list \in {record, {}}
    BY <1>0, <1>4, ActivateMoves
  <2>2. Removable(host'.todo, host'.list) /\ Settleable(host'.todo)
    BY <2>1, RecordRemovable
  <2> QED
    BY <1>0, <1>1, <1>4, <2>1, <2>2, HostMoves
<1>5. CASE /\ tries' = tries + 1 /\ Runs([Smoke("read") EXCEPT !.ref = tries']) /\ Goto("read")
  <2> DEFINE new == [Smoke("read") EXCEPT !.ref = tries']
  <2>1. tries \in Nat /\ tries' = tries + 1
    BY <1>5 DEF HostTypeOK, DriveTypeOK
  <2>2. new.kind = "read" /\ new.ref = tries' /\ (\A o : o \in running' <=> o \in running \/ o = new)
    BY <1>5 DEF Runs, Smoke
  <2>3. host'.pc = "read" /\ host'.todo = host.todo
    BY <1>0, <1>5 DEF Goto, HostState
  <2> HIDE DEF new
  <2>4. \A o : Known(o)' => Known(o) \/ o = new
    BY <1>0, <1>1, <2>2, Zenon DEF Known, RecordedKept
  <2>5. \A o \in Receipt : o.kind \in Smokes => o.ref \in Nat
    BY DEF Receipt, Smokes
  <2>6. SmokesCounted'
    BY <2>1, <2>2, <2>4, <2>5 DEF CleanInv, SmokesCounted
  <2>7. WriteIsNew'
    BY <2>1, <2>2, <2>4, <2>5 DEF CleanInv, WriteIsNew, SmokesCounted, Smokes
  <2>8. WritesRunOnce'
    BY <1>0, <1>1, <2>2 DEF CleanInv, WritesRunOnce, RecordedKept
  <2>9. ReadIsKept' /\ PairPublished' /\ Sweeping'
    BY <1>0, <2>3 DEF CleanInv, ReadIsKept, PairPublished, Sweeping, At
  <2>10. Settleable(record)' /\ Settleable(host.todo)'
    BY <1>0, <1>1, <2>3, Zenon DEF CleanInv, Settleable, RecordedKept
  <2> QED
    BY <2>6, <2>7, <2>8, <2>9, <2>10 DEF CleanInv
<1> QED
  BY <1>2, <1>3, <1>4, <1>5 DEF Preflight

LEMMA ReadPassesClean ==
  ASSUME HostTypeOK, CleanInv, ReadPasses
  PROVE  CleanInv'
<1> DEFINE new == Smoke("write")
<1>0. host \in HostState /\ UNCHANGED <<files, record, log, tries>> /\ host.pc = "read"
  BY DEF ReadPasses, HostTypeOK, DriveTypeOK, runVars, At
<1>1. RecordedKept
  BY <1>0, SameLog
<1>2. new \in Receipt /\ new.kind = "write" /\ new.ref = tries /\ tries \in Nat
  BY <1>0, ProcessesTyped, SmokePair DEF HostTypeOK, DriveTypeOK, At, Smokes
<1>3. ~Known(new)
  BY <1>0, <1>2 DEF CleanInv, WriteIsNew, At
<1>4. host'.pc = "write" /\ host'.todo = host.todo
      /\ host'.owner = host.owner /\ host'.generation = host.generation
  BY <1>0 DEF ReadPasses, Goto, HostState
<1>5. \A o : o \in running' <=> o \in running \/ o = new
  BY DEF ReadPasses, Runs
<1>6. Smoke("read") \in files
  BY DEF ReadPasses
<1> HIDE DEF new
<1>7. \A o : Known(o)' => Known(o) \/ o = new
  BY <1>0, <1>1, <1>5, Zenon DEF Known, RecordedKept
<1>8. SmokesCounted'
  BY <1>0, <1>2, <1>7 DEF CleanInv, SmokesCounted
<1>9. WritesRunOnce'
  BY <1>0, <1>1, <1>3, <1>5, Zenon DEF CleanInv, WritesRunOnce, RecordedKept, Known
<1>10. WriteIsNew' /\ Sweeping' /\ PairPublished'
  BY <1>0, <1>4 DEF CleanInv, WriteIsNew, Sweeping, PairPublished, At
<1>11. ReadIsKept'
  BY <1>0, <1>4, <1>6 DEF ReadIsKept, Smoke
<1>12. Settleable(record)' /\ Settleable(host.todo)'
  BY <1>0, <1>1, <1>4, Zenon DEF CleanInv, Settleable, RecordedKept
<1> QED
  BY <1>8, <1>9, <1>10, <1>11, <1>12 DEF CleanInv

LEMMA WritePassesClean ==
  ASSUME HostTypeOK, CleanInv, WritePasses
  PROVE  CleanInv'
<1>0. host \in HostState /\ UNCHANGED <<files, running, log, tries>> /\ host.pc = "write"
      /\ record' = Measured /\ Activate(Measured)
  BY DEF WritePasses, HostTypeOK, DriveTypeOK, runVars, At
<1>1. RecordedKept
  BY <1>0, SameLog
<1>2. host'.pc = "settle" /\ host'.todo = Measured /\ host'.list \in {Measured, {}}
  BY <1>0, ActivateMoves
<1>3. Removable(Measured, host'.list) /\ Settleable(Measured)
  BY <1>2, MeasuredRemovable
<1>4. Measured = {ReadOf(Smoke("write")), Smoke("write")} /\ Smoke("write").kind = "write"
  BY <1>0, SmokePair DEF WritePasses, CleanInv, ReadIsKept, At, Measured
<1>5. SmokesCounted' /\ WritesRunOnce'
  BY <1>0, <1>1, Zenon DEF CleanInv, SmokesCounted, WritesRunOnce, Known, RecordedKept
<1>6. WriteIsNew' /\ ReadIsKept'
  BY <1>2 DEF WriteIsNew, ReadIsKept, At
<1>7. Settleable(record)' /\ Settleable(host.todo)'
  BY <1>0, <1>1, <1>2, <1>3 DEF Settleable, RecordedKept
<1>8. PairPublished'
  <2>1. \E o \in Measured : o.kind = "write" /\ Measured = {ReadOf(o), o}
    BY <1>4
  <2>2. \E o \in record' : o.kind = "write" /\ record' = {ReadOf(o), o}
    BY <1>0, <2>1, Zenon
  <2> QED
    BY <2>2 DEF PairPublished
<1>9. Sweeping'
  <2>1. Removable(host.todo, host.list)'
    BY <1>0, <1>1, <1>2, <1>3 DEF Removable, RecordedKept
  <2> QED
    BY <1>2, <2>1 DEF Sweeping, At
<1> QED
  BY <1>5, <1>6, <1>7, <1>8, <1>9 DEF CleanInv

LEMMA SmokeFailsClean ==
  ASSUME HostTypeOK, CleanInv, SmokeFails
  PROVE  CleanInv'
<1>0. host \in HostState /\ UNCHANGED <<files, running, record, log, tries>>
  BY DEF SmokeFails, HostTypeOK, DriveTypeOK, runVars
<1>1. RecordedKept
  BY <1>0, SameLog
<1>2. CASE Goto("pause")
  <2>1. host'.pc = "pause" /\ host'.todo = host.todo
    BY <1>0, <1>2 DEF Goto, HostState
  <2> QED
    BY <1>0, <1>1, <2>1, HostMoves DEF CleanInv
<1>3. CASE SettleThen(Measured, "pause", "pause")
  <2>1. host'.pc = "settle" /\ host'.todo = Measured /\ host'.list = Measured
    BY <1>0, <1>3, SettleThenMoves
  <2> QED
    BY <1>0, <1>1, <2>1, MeasuredRemovable, HostMoves
<1> QED
  BY <1>2, <1>3 DEF SmokeFails

-----------------------------------------------------------------------------
(* A checker, a maker, and the host itself.                                  *)
LEMMA AloneRemovable ==
  ASSUME HostTypeOK, NEW r, r.kind \notin Smokes
  PROVE  Removable({r}, {r}) /\ Settleable({r})
<1>1. \A o \in files : o.kind = "write" => ReadOf(o).kind = "read"
  BY Pairs DEF HostTypeOK, DriveTypeOK
<1> QED
  BY <1>1 DEF Removable, Settleable, Smokes

LEMMA StopClean ==
  ASSUME CleanInv, UNCHANGED <<files, running, record, tries>>, RecordedKept, Stop
  PROVE  CleanInv'
<1>1. host'.pc = "off" /\ host'.todo = {}
  BY DEF Stop, HostOff
<1> QED
  BY <1>1, HostMoves DEF Settleable

LEMMA GotoClean ==
  ASSUME HostTypeOK, CleanInv, UNCHANGED <<files, running, record, tries>>, RecordedKept,
         NEW l \in {"pause", "pauseFresh", "maker"}, Goto(l)
  PROVE  CleanInv'
<1>1. host'.pc = l /\ host'.todo = host.todo
  BY DEF Goto, HostState, HostTypeOK, DriveTypeOK
<1> QED
  BY <1>1, HostMoves DEF CleanInv

LEMMA AloneClean ==
  ASSUME HostTypeOK, CleanInv, UNCHANGED <<files, running, record, tries>>, RecordedKept,
         NEW r, r.kind \notin Smokes, NEW next, NEW failed, SettleThen({r}, next, failed)
  PROVE  CleanInv'
<1>1. host'.pc = "settle" /\ host'.todo = {r} /\ host'.list = {r}
  BY SettleThenMoves DEF HostTypeOK, DriveTypeOK
<1> QED
  BY <1>1, AloneRemovable, HostMoves

LEMMA ReviewClean ==
  ASSUME HostTypeOK, CleanInv, RecordedKept,
         ClaimReview \/ Imported \/ \E measured \in BOOLEAN : ReviewFails(measured)
  PROVE  CleanInv'
<1>0. host \in HostState /\ Check.kind \notin Smokes
  BY DEF HostTypeOK, DriveTypeOK, Check, Smokes
<1>1. CASE ClaimReview
  <2>1. UNCHANGED <<files, record, tries>>
    BY <1>1 DEF ClaimReview
  <2>2. CASE CheckerMayPend
    <3> DEFINE r == [Check EXCEPT !.ref = NextAttempt]
    <3>1. r.kind \notin Smokes /\ Runs(r) /\ Goto("checking")
      BY <1>1, <2>2 DEF ClaimReview, Check, Smokes
    <3>2. host'.pc = "checking" /\ host'.todo = host.todo
      BY <1>0, <3>1 DEF Goto, HostState
    <3> HIDE DEF r
    <3> QED
      BY <2>1, <3>1, <3>2, WorkerStarts
  <2>3. CASE ~CheckerMayPend
    BY <1>1, <2>1, <2>3, StopClean DEF ClaimReview
  <2> QED
    BY <2>2, <2>3
<1>2. CASE Imported
  BY <1>0, <1>2, AloneClean DEF Imported
<1>3. CASE \E measured \in BOOLEAN : ReviewFails(measured)
  BY <1>0, <1>3, AloneClean, StopClean DEF ReviewFails
<1> QED
  BY <1>1, <1>2, <1>3

LEMMA MakerClean ==
  ASSUME HostTypeOK, CleanInv, RecordedKept,
         RespawnBegins \/ MakerLaunches \/ MakerReturned \/ \E ok \in BOOLEAN : MakerReturns(ok)
  PROVE  CleanInv'
<1>0. host \in HostState /\ Maker.kind \notin Smokes
  BY DEF HostTypeOK, DriveTypeOK, Maker, Smokes
<1>1. CASE RespawnBegins
  BY <1>1, StopClean, GotoClean DEF RespawnBegins, costVars
<1>2. CASE MakerLaunches
  BY <1>0, <1>2, WorkerStarts DEF MakerLaunches, costVars, At
<1>3. ASSUME NEW ok \in BOOLEAN, MakerReturns(ok) PROVE CleanInv'
  <2>1. host'.pc = "maker" /\ host'.todo = host.todo
    BY <1>0, <1>3 DEF MakerReturns, At, HostState
  <2> QED
    BY <1>3, <2>1, HostMoves DEF MakerReturns, costVars, CleanInv
<1>4. CASE MakerReturned
  <2>0. UNCHANGED <<files, running, record, tries>>
    BY <1>4 DEF MakerReturned
  <2>1. ASSUME SettleThen({Maker}, "pauseFresh", "pauseFresh") PROVE CleanInv'
    BY <1>0, <2>0, <2>1, AloneClean
  <2>2. ASSUME host' = [host EXCEPT !.pc = "settle", !.todo = {Maker}, !.list = {Maker},
                                    !.owner = host.child, !.generation = @ + 1,
                                    !.next = "off", !.failed = "off"]
        PROVE  CleanInv'
    <3>1. host'.pc = "settle" /\ host'.todo = {Maker} /\ host'.list = {Maker}
      BY <1>0, <2>2 DEF HostState
    <3> QED
      BY <1>0, <2>0, <3>1, AloneRemovable, HostMoves
  <2>3. ASSUME Goto("pauseFresh") \/ Stop PROVE CleanInv'
    BY <2>0, <2>3, GotoClean, StopClean
  <2> QED
    BY <1>4, <2>1, <2>2, <2>3 DEF MakerReturned
<1> QED
  BY <1>1, <1>2, <1>3, <1>4

LEMMA HostClean ==
  ASSUME HostTypeOK, CleanInv, HostNext, RecordedKept \/ \E r \in host.todo : SettleNext(r),
         ~Accounts => RecordedKept
  PROVE  CleanInv'
<1>0. host \in HostState
  BY DEF HostTypeOK, DriveTypeOK
<1>1. CASE HostStart
  <2>1. UNCHANGED <<files, running, record, tries, log>>
    BY <1>1 DEF HostStart, runVars
  <2>2. host'.pc = "settle" /\ host'.todo = files /\ host'.list = files
    BY <1>1 DEF HostStart, HostOff
  <2> QED
    BY <2>1, <2>2, SameLog, HostMoves DEF Removable, Settleable
<1>2. CASE Accounts
  BY <1>2, AccountsClean
<1>3. CASE PauseOriginal \/ PauseFresh \/ HostCrash
  BY <1>3, SameLog, StopClean DEF PauseOriginal, PauseFresh, HostCrash, runVars, costVars
<1>4. CASE Choose
  <2>1. UNCHANGED <<files, running, record, tries, log>>
    BY <1>4 DEF Choose, runVars
  <2>2. ASSUME NEW goal, Prepare(goal) PROVE CleanInv'
    <3>1. host'.pc = "preflight" /\ host'.todo = host.todo
      BY <1>0, <2>2 DEF Prepare, HostState
    <3> QED
      BY <2>1, <3>1, SameLog, HostMoves DEF CleanInv
  <2> QED
    BY <1>4, <2>1, <2>2, SameLog, StopClean, GotoClean DEF Choose
<1>5. CASE Preflight \/ ReadPasses \/ WritePasses \/ SmokeFails
  BY <1>5, PreflightClean, ReadPassesClean, WritePassesClean, SmokeFailsClean
<1>6. CASE ClaimReview \/ Imported \/ \E measured \in BOOLEAN : ReviewFails(measured)
  <2>1. ~Accounts \/ Accounts
    OBVIOUS
  <2> QED
    BY <1>2, <1>6, <2>1, ReviewClean
<1>7. CASE RespawnBegins \/ MakerLaunches \/ MakerReturned \/ \E ok \in BOOLEAN : MakerReturns(ok)
  <2>1. ~Accounts \/ Accounts
    OBVIOUS
  <2> QED
    BY <1>2, <1>7, <2>1, MakerClean
<1>8. CASE RespawnStep \/ MakerDrifted
  <2>1. UNCHANGED <<files, running, record, tries, host, log>>
    BY <1>8 DEF RespawnStep, MakerDrifted, costVars, hostVars
  <2> QED
    BY <2>1, SameLog, NothingMoves
<1> QED
  BY <1>1, <1>2, <1>3, <1>4, <1>5, <1>6, <1>7, <1>8 DEF HostNext

LEMMA NextClean == HostTypeOK /\ CleanInv /\ [Next]_vars => CleanInv'
<1> SUFFICES ASSUME HostTypeOK, CleanInv, [Next]_vars PROVE CleanInv'
  OBVIOUS
<1>1. RecordedKept \/ \E r \in host.todo : SettleNext(r)
  BY LogRecords
<1>2. (\E r \in host.todo : SettleNext(r)) => Accounts
  BY DEF Accounts
<1>3. CASE SessionNext \/ UNCHANGED vars
  <2>1. UNCHANGED <<files, running, record, tries, host>>
    BY <1>3 DEF SessionNext, SessionAcquires, Recovers, EmitHandoff, Works, WritesMore, Reports,
       Finishes, hostVars, costVars, vars
  <2>2. CASE RecordedKept
    BY <2>1, <2>2, NothingMoves
  <2>3. CASE \E r \in host.todo : SettleNext(r)
    BY <2>3, SettleClean
  <2> QED
    BY <1>1, <2>2, <2>3
<1>4. ASSUME NEW r \in running, NEW ok \in BOOLEAN, WorkerEnds(r, ok) PROVE CleanInv'
  BY <1>4, SameLog, WorkerEndsClean DEF WorkerEnds, runVars
<1>5. CASE HostNext
  BY <1>1, <1>2, <1>5, HostClean
<1> QED
  BY <1>3, <1>4, <1>5 DEF Next

(* No receipt disappears before the log has its cost, and the receipt of a   *)
(* read smoke not before a paid one of its write smoke.                      *)
THEOREM CleanUpSpares == Spec => CleanUpIsSafe
<1>1. HostTypeOK /\ CleanInv /\ [Next]_vars
        => [\A r \in files \ files' :
              /\ Recorded(r)
              /\ \A o \in files' : o.kind = "write" /\ ReadOf(o) = r => ~Recorded(o)]_vars
  <2> SUFFICES ASSUME HostTypeOK, CleanInv, Next, NEW r \in files, r \notin files'
               PROVE  /\ Recorded(r)
                      /\ \A o \in files' : o.kind = "write" /\ ReadOf(o) = r => ~Recorded(o)
    OBVIOUS
  <2>1. RemoveNext(r)
    <3>1. ~SessionNext
      BY DEF SessionNext, SessionAcquires, Recovers, EmitHandoff, Works, WritesMore, Reports,
         Finishes, costVars
    <3>2. ~\E x \in running, ok \in BOOLEAN : WorkerEnds(x, ok)
      BY DEF WorkerEnds
    <3>3. Accounts
      BY <3>1, <3>2 DEF Next, HostNext, HostStart, PauseOriginal, PauseFresh, Choose, Preflight,
         ReadPasses, WritePasses, SmokeFails, ClaimReview, Imported, ReviewFails, RespawnBegins,
         RespawnStep, MakerLaunches, MakerDrifted, MakerReturns, MakerReturned, HostCrash,
         runVars, costVars
    <3>4. PICK x \in host.list : RemoveNext(x)
      BY <3>3 DEF Accounts, SettleNext, SettleRefused, SettleDone, CleanDone, runVars
    <3>5. x = r
      BY <3>4 DEF RemoveNext
    <3> QED
      BY <3>4, <3>5
  <2>2. r \in host.list /\ Removable(host.todo, host.list) /\ host.todo = {}
    BY <2>1 DEF RemoveNext, NextRemoved, At, CleanInv, Sweeping
  <2>3. Recorded(r)
    BY <2>2 DEF Removable
  <2>4. ASSUME NEW o \in files', o.kind = "write", ReadOf(o) = r, Recorded(o)
        PROVE  FALSE
    <3>1. o \in files /\ o \in Receipt
      BY <2>1 DEF RemoveNext, HostTypeOK, DriveTypeOK
    <3>2. o \in host.list
      BY <2>2, <2>4, <3>1 DEF Removable
    <3>3. r.kind = "read"
      BY <2>4, <3>1, Pairs
    <3> QED
      BY <2>1, <2>4, <3>2, <3>3 DEF RemoveNext, NextRemoved
  <2> QED
    BY <2>3, <2>4
<1> QED
  BY <1>1, InitClean, NextClean, HostTyping, PTL DEF Spec, CleanUpIsSafe

-----------------------------------------------------------------------------
(* What the steps leave of a row.                                            *)
LEMMA RowFields ==
  ASSUME NEW row \in SessionRow
  PROVE  /\ LET new == [row EXCEPT !.started = TRUE]
            IN  /\ new.started /\ new.row = row.row /\ new.succ = row.succ
                /\ new.outcome = row.outcome /\ new.scope = row.scope
                /\ new.retired = row.retired /\ new.recovery = row.recovery
         /\ \A word \in {"took_over", "failed_launch"} :
              LET new == [row EXCEPT !.outcome = word]
              IN  /\ new.outcome = word /\ new.row = row.row /\ new.succ = row.succ
                  /\ new.started = row.started /\ new.scope = row.scope
                  /\ new.retired = row.retired /\ new.recovery = row.recovery
         /\ \A word \in {"bound", "closed"} :
              LET new == [row EXCEPT !.scope = word]
              IN  /\ new.scope = word /\ new.row = row.row /\ new.succ = row.succ
                  /\ new.started = row.started /\ new.outcome = row.outcome
                  /\ new.retired = row.retired /\ new.recovery = row.recovery
         /\ \A c \in Session :
              LET new == [row EXCEPT !.succ = c, !.retired = TRUE]
              IN  /\ new.succ = c /\ new.retired /\ new.row = row.row /\ new.scope = row.scope
                  /\ new.started = row.started /\ new.outcome = row.outcome
                  /\ new.recovery = row.recovery
         /\ LET new == [row EXCEPT !.succ = None, !.retired = FALSE]
            IN  /\ new.succ = None /\ new.row = row.row /\ new.scope = row.scope
                /\ new.started = row.started /\ new.outcome = row.outcome
                /\ new.recovery = row.recovery
  BY DEF SessionRow

(* Some fields of a row are as they were.                                    *)
SameTale(s)    == /\ sess'[s].row = sess[s].row /\ sess'[s].recovery = sess[s].recovery
SameLinks(s)   == sess'[s].succ = sess[s].succ /\ sess'[s].retired = sess[s].retired
SameScope(s)   == sess'[s].scope = sess[s].scope
SameStart(s)   == sess'[s].started = sess[s].started
SameOutcome(s) == sess'[s].outcome = sess[s].outcome

LEMMA TakeoverRows ==
  ASSUME TypeOK, NEW o \in Session, HasRow(o), AcquireTakeover(o), NEW s \in Session
  PROVE  /\ SameTale(s) /\ SameLinks(s) /\ SameScope(s)
         /\ IF s = o THEN sess'[s].started ELSE SameStart(s)
         /\ IF s # o /\ s \in Predecessors(o) THEN sess'[s].outcome = "took_over" ELSE SameOutcome(s)
<1>1. sess[s] \in SessionRow /\ sess[o].row
  BY DEF TypeOK, HasRow
<1>2. sess'[s] = IF s = o THEN [sess[s] EXCEPT !.started = TRUE]
                 ELSE IF s \in Predecessors(o) THEN [sess[s] EXCEPT !.outcome = "took_over"]
                 ELSE sess[s]
  BY <1>1, Zenon DEF AcquireTakeover
<1> QED
  BY <1>1, <1>2, RowFields DEF SameTale, SameLinks, SameScope, SameStart, SameOutcome

LEMMA RecoveredRows ==
  ASSUME TypeOK, NEW o \in Session, AcquireRecovered(o), NEW s \in Session
  PROVE  /\ SameTale(s) /\ SameLinks(s) /\ SameScope(s) /\ SameOutcome(s)
         /\ IF s = o THEN sess'[s].started ELSE SameStart(s)
<1>1. sess[s] \in SessionRow /\ sess \in [Session -> SessionRow]
  BY DEF TypeOK
<1>2. sess' = [sess EXCEPT ![o].started = TRUE]
  BY DEF AcquireRecovered
<1>3. sess'[s] = IF s = o THEN [sess[s] EXCEPT !.started = TRUE] ELSE sess[s]
  BY <1>1, <1>2
<1> QED
  BY <1>1, <1>3, RowFields DEF SameTale, SameLinks, SameScope, SameStart, SameOutcome

LEMMA WorkRows ==
  ASSUME TypeOK, BindScope \/ CloseScope("open"), NEW s \in Session
  PROVE  /\ SameTale(s) /\ SameLinks(s) /\ SameStart(s) /\ SameOutcome(s)
         /\ sess[s].scope = "closed" => sess'[s].scope = "closed"
<1>1. sess[s] \in SessionRow /\ sess \in [Session -> SessionRow]
  BY DEF TypeOK
<1>2. PICK word \in {"bound", "closed"} :
        sess' = [sess EXCEPT ![Owner].scope = word] /\ sess[Owner].scope # "closed"
  BY DEF BindScope, CloseScope
<1>3. sess'[s] = IF s = Owner THEN [sess[s] EXCEPT !.scope = word] ELSE sess[s]
  BY <1>1, <1>2
<1> QED
  BY <1>1, <1>2, <1>3, RowFields DEF SameTale, SameLinks, SameStart, SameOutcome

LEMMA EmittedRows ==
  ASSUME TypeOK, NEW child \in Session, child # Owner, EmitHandoff(child), NEW s \in Session
  PROVE  /\ s \notin {Owner, child} => sess'[s] = sess[s]
         /\ s = child => sess'[s] = [NoSession EXCEPT !.row = TRUE, !.parent = Owner]
         /\ s = Owner => /\ sess'[s].succ = child /\ sess'[s].retired
                         /\ SameTale(s) /\ SameScope(s) /\ SameStart(s) /\ SameOutcome(s)
<1>1. sess[s] \in SessionRow /\ sess \in [Session -> SessionRow] /\ Owner \in Session
  BY OwnerTyped DEF TypeOK
<1> DEFINE new == [NoSession EXCEPT !.row = TRUE, !.parent = Owner]
<1>2. sess' = [sess EXCEPT ![child] = new, ![Owner].succ = child, ![Owner].retired = TRUE]
  BY DEF EmitHandoff
<1> HIDE DEF new
<1>3. sess'[s] = IF s = child THEN new
                 ELSE IF s = Owner THEN [sess[s] EXCEPT !.succ = child, !.retired = TRUE]
                 ELSE sess[s]
  BY <1>1, <1>2
<1>4. s = Owner => /\ sess'[s].succ = child /\ sess'[s].retired
                   /\ SameTale(s) /\ SameScope(s) /\ SameStart(s) /\ SameOutcome(s)
  <2> SUFFICES ASSUME s = Owner PROVE /\ sess'[s].succ = child /\ sess'[s].retired
                   /\ SameTale(s) /\ SameScope(s) /\ SameStart(s) /\ SameOutcome(s)
    OBVIOUS
  <2>1. sess'[s] = [sess[s] EXCEPT !.succ = child, !.retired = TRUE]
    BY <1>3
  <2> QED
    BY <1>1, <2>1, RowFields DEF SameTale, SameScope, SameStart, SameOutcome
<1> QED
  BY <1>3, <1>4 DEF new

LEMMA UndoneRows ==
  ASSUME TypeOK, NEW c \in Session, sess' = Invalidated(c), NEW s \in Session
  PROVE  /\ SameTale(s) /\ SameScope(s) /\ SameStart(s)
         /\ sess'[s].outcome = "failed_launch" \/ SameOutcome(s)
         /\ s # c => SameOutcome(s)
         /\ s = c /\ sess[s].row => sess'[s].outcome = "failed_launch"
         /\ SameLinks(s) \/ (s \in Predecessors(c) /\ sess'[s].succ = None)
<1>1. sess[s] \in SessionRow
  BY DEF TypeOK
<1>2. sess'[s] = IF s = c /\ sess[s].row THEN [sess[s] EXCEPT !.outcome = "failed_launch"]
                 ELSE IF s \in Predecessors(c)
                      THEN [sess[s] EXCEPT !.succ = None, !.retired = FALSE]
                 ELSE sess[s]
  BY Zenon DEF Invalidated
<1>3. CASE s = c /\ sess[s].row
  <2>1. sess'[s] = [sess[s] EXCEPT !.outcome = "failed_launch"]
    BY <1>2, <1>3
  <2>2. /\ sess'[s].outcome = "failed_launch" /\ sess'[s].row = sess[s].row
        /\ sess'[s].succ = sess[s].succ /\ sess'[s].started = sess[s].started
        /\ sess'[s].scope = sess[s].scope /\ sess'[s].retired = sess[s].retired
        /\ sess'[s].recovery = sess[s].recovery
    BY <1>1, <2>1 DEF SessionRow
  <2> QED
    BY <1>3, <2>2 DEF SameTale, SameLinks, SameScope, SameStart
<1>4. CASE ~(s = c /\ sess[s].row) /\ s \in Predecessors(c)
  <2>1. sess'[s] = [sess[s] EXCEPT !.succ = None, !.retired = FALSE]
    BY <1>2, <1>4
  <2> QED
    BY <1>1, <1>4, <2>1, RowFields DEF SameTale, SameScope, SameStart, SameOutcome
<1> QED
  BY <1>2, <1>3, <1>4 DEF SameTale, SameLinks, SameScope, SameStart, SameOutcome

(* A recovery gives up a child that never came, or a session that has not    *)
(* bound its scope yet; what else it writes of their parent is there already.*)
LEMMA AbandonedRows ==
  ASSUME TypeOK, NEW x \in Session, RecoverBoundary(x), x # StaleSession, x # StaleParent,
         StaleSession # StaleParent, sess[StaleSession].row, NEW s \in Session
  PROVE  /\ s \notin {x, StaleSession, StaleParent} => sess'[s] = sess[s]
         /\ s = x => sess'[s] = Replacement("boundary-recovery", StaleSession, "unbound")
         /\ s = StaleSession =>
              /\ SameTale(s) /\ SameScope(s) /\ SameStart(s)
              /\ sess'[s].outcome = "abandoned_recover" /\ sess'[s].succ = x /\ sess'[s].retired
         /\ s = StaleParent =>
              /\ SameTale(s) /\ SameScope(s) /\ SameStart(s) /\ SameOutcome(s)
              /\ sess'[s].succ = StaleSession /\ sess'[s].retired
<1> DEFINE stale  == StaleSession
           parent == StaleParent
           new    == Replacement("boundary-recovery", stale, "unbound")
           gone   == Abandoned([sess[stale] EXCEPT !.parent = parent], x)
<1>1. stale \in Session /\ parent \in Session
  BY SourceTyped DEF RecoverBoundary
<1>2. sess \in [Session -> SessionRow] /\ sess[s] \in SessionRow /\ sess[stale] \in SessionRow
  BY <1>1 DEF TypeOK
<1>3. sess' = [sess EXCEPT
                 ![stale] = Abandoned([@ EXCEPT !.parent = parent], x),
                 ![parent].succ = stale, ![parent].retired = TRUE, ![x] = new]
  BY DEF RecoverBoundary
<1>4. /\ gone.row = sess[stale].row /\ gone.recovery = sess[stale].recovery
      /\ gone.scope = sess[stale].scope /\ gone.started = sess[stale].started
      /\ gone.outcome = "abandoned_recover" /\ gone.succ = x /\ gone.retired
  <2> HIDE DEF stale, parent
  <2> QED
    BY <1>2 DEF Abandoned, SessionRow, stale
<1> HIDE DEF gone, new
<1>5. sess'[s] = IF s = x THEN new ELSE IF s = stale THEN gone
                 ELSE IF s = parent THEN [sess[s] EXCEPT !.succ = stale, !.retired = TRUE]
                 ELSE sess[s]
  <2> HIDE DEF stale, parent
  <2>1. sess' = [sess EXCEPT ![stale] = gone, ![parent].succ = stale, ![parent].retired = TRUE,
                             ![x] = new]
    BY <1>1, <1>2, <1>3 DEF gone
  <2>2. x # stale /\ x # parent /\ stale # parent
    BY DEF stale, parent
  <2> QED
    BY <1>1, <1>2, <2>1, <2>2
<1>6. ASSUME s = parent
      PROVE  /\ SameTale(s) /\ SameScope(s) /\ SameStart(s) /\ SameOutcome(s)
             /\ sess'[s].succ = stale /\ sess'[s].retired
  <2>1. sess'[s] = [sess[s] EXCEPT !.succ = stale, !.retired = TRUE]
    BY <1>5, <1>6
  <2> HIDE DEF stale
  <2> QED
    BY <1>1, <1>2, <2>1, RowFields DEF SameTale, SameScope, SameStart, SameOutcome
<1>7. ASSUME s = stale
      PROVE  /\ SameTale(s) /\ SameScope(s) /\ SameStart(s)
             /\ sess'[s].outcome = "abandoned_recover" /\ sess'[s].succ = x /\ sess'[s].retired
  BY <1>4, <1>5, <1>7 DEF SameTale, SameScope, SameStart
<1> QED
  BY <1>5, <1>6, <1>7 DEF new

-----------------------------------------------------------------------------
(* The chain that a host drives: nobody but the owner waits for the child of *)
(* a handoff, the child has not been there yet, and the respawner of the     *)
(* host gives up a child only before it comes.                               *)
Rooted ==
  /\ \A s \in Session : sess[s].row => s \in minted
  /\ \A s \in Session : sess[s].succ # None => sess[s].retired /\ sess[s].succ \in minted
  /\ HasRow(Owner) /\ sess[Owner].started

Awaited ==
  lease.state = "releasing" =>
    /\ lease.takeover = "boundary-handoff" /\ HasRow(lease.child)
    /\ ~sess[lease.child].started
    /\ sess[lease.child].outcome = "none" /\ sess[lease.child].recovery = "none"
    /\ sess[Owner].scope = "closed" /\ sess[Owner].succ = lease.child
    /\ \A s \in Session : sess[s].succ = lease.child => s = Owner

RecoveryOnly == /\ lease.state = "released" => lease.takeover = "boundary-recovery"
                /\ lease.phase = "reserved" => lease.state = "released"

SpawnerKnows ==
  resp[Host].pc # "idle" =>
    /\ resp[Host].child \in Session /\ resp[Host].generation <= lease.generation
    /\ Holds(Host) => ~sess[resp[Host].child].started

DrivenInv == Rooted /\ Awaited /\ RecoveryOnly /\ SpawnerKnows

(* The story of a maker: it acquired, or nobody came in its place, or its    *)
(* launch failed before it came.                                             *)
Story(r) ==
  /\ HasRow(r.owner) /\ HasRow(r.ref)
  /\ Parent(r).started /\ Parent(r).scope = "closed" /\ Child(r).recovery = "none"
  /\ \/ ChildAcquired(r) /\ Parent(r).succ = r.ref
     \/ /\ ~Child(r).started
        /\ Child(r).outcome = "failed_launch" \/ Parent(r).succ = r.ref

StoryKept(r) == Story(r) => Story(r)' /\ (ChildAcquired(r) => ChildAcquired(r)')

-----------------------------------------------------------------------------
(* What the steps do to the chain.                                           *)
LeaseKept == /\ UNCHANGED <<sess, minted>>
             /\ \A f \in {"owner", "generation", "state", "child", "takeover"} : lease'[f] = lease[f]
             /\ lease'.phase \in {lease.phase, "spawned"}

SpawnerKept == \/ resp'[Host].pc = "idle"
               \/ /\ resp[Host].pc # "idle"
                  /\ \A f \in {"owner", "generation", "child"} : resp'[Host][f] = resp[Host][f]

Undoes == /\ resp[Host].pc # "idle" /\ Holds(Host)
          /\ sess' = Invalidated(resp[Host].child) /\ lease' = ReturnedLease
          /\ UNCHANGED minted /\ resp'[Host].pc = "idle"

LEMMA KeptWrites ==
  ASSUME TypeOK, UNCHANGED <<sess, minted>>,
         \/ UNCHANGED lease \/ lease' = [lease EXCEPT !.expires = "none"]
         \/ lease' = [lease EXCEPT !.phase = "spawned"]
  PROVE  LeaseKept
  BY DEF LeaseKept, TypeOK, Lease

LEMMA SpawnSteps ==
  ASSUME TypeOK, RespawnTypeOK, SpawnStep(Host), resp[Host].pc # "idle"
  PROVE  (LeaseKept /\ SpawnerKept) \/ Undoes
<1>0. Host \in Respawner /\ resp[Host] \in SpawnState /\ resp \in [Respawner -> SpawnState]
  BY DEF RespawnTypeOK
<1>1. UNCHANGED chainVars => LeaseKept
  BY KeptWrites DEF chainVars
<1>2. \A l \in SpawnPc : SpawnGoto(Host, l) => SpawnerKept
  BY <1>0 DEF SpawnGoto, SpawnerKept, SpawnState
<1>3. \A why \in PauseReasons : RollbackFor(Host, why) => SpawnerKept
  BY <1>0 DEF RollbackFor, SpawnerKept, SpawnState
<1>4. StopRespawn(Host) => SpawnerKept /\ resp'[Host].pc = "idle"
  BY <1>0 DEF StopRespawn, SpawnerKept, SpawnIdle
<1>5. CASE ClaimSpawn(Host)
  BY <1>2, <1>5, KeptWrites DEF ClaimSpawn, SpawnPc
<1>6. CASE PreservePause(Host) \/ RecordSpawned(Host)
  BY <1>1, <1>2, <1>4, <1>6, KeptWrites DEF PreservePause, RecordSpawned, SpawnPc
<1>7. CASE RollbackAndPause(Host) \/ CancelForFinish(Host)
  BY <1>1, <1>4, <1>7 DEF RollbackAndPause, CancelForFinish, Undoes
<1>8. CASE ClaimUnauthorized(Host) \/ ClaimFinish(Host) \/ ClaimBlocked(Host) \/ ClaimRefused(Host)
  BY <1>1, <1>2, <1>3, <1>4, <1>8 DEF ClaimUnauthorized, ClaimFinish, ClaimBlocked, ClaimRefused,
     SpawnPc, PauseReasons
<1>9. CASE Launch(Host) \/ LaunchFails(Host) \/ \E ok \in BOOLEAN : LaunchReturns(Host, ok)
  BY <1>1, <1>2, <1>3, <1>9 DEF Launch, LaunchFails, LaunchReturns, SpawnPc, PauseReasons
<1>10. CASE StopWaiting(Host) \/ WaitTimeout(Host)
  BY <1>1, <1>2, <1>4, <1>10 DEF StopWaiting, WaitTimeout, SpawnPc
<1> QED
  BY <1>5, <1>6, <1>7, <1>8, <1>9, <1>10 DEF SpawnStep, StartRespawn

LEMMA ChainSteps ==
  ASSUME HostTypeOK, [Next]_vars
  PROVE  \/ /\ \/ \E o \in Session : \/ o = lease.child /\ AcquireTakeover(o)
                                     \/ AcquireRecovered(o) \/ RecoverBoundary(o)
                                     \/ EmitHandoff(o)
               \/ BindScope \/ CloseScope("open")
            /\ UNCHANGED resp
         \/ LeaseKept /\ (UNCHANGED resp \/ SpawnerKept)
         \/ Undoes
         \/ UNCHANGED chainVars /\ StartRespawn(Host, FALSE)
<1>0. TypeOK /\ RespawnTypeOK /\ Host \in Respawner /\ resp \in [Respawner -> SpawnState]
  BY DEF HostTypeOK, RespawnTypeOK
<1>1. UNCHANGED chainVars => LeaseKept
  BY <1>0, KeptWrites DEF chainVars
<1>2. PausePreserve("other") => LeaseKept
  BY <1>0, KeptWrites DEF PausePreserve
<1>3. SpawnStep(Host) /\ resp[Host].pc # "idle" => (LeaseKept /\ SpawnerKept) \/ Undoes
  BY <1>0, SpawnSteps
<1>4. CASE SessionNext
  <2>1. Finishes => LeaseKept
    BY <1>0, KeptWrites DEF Finishes, FinishRun
  <2>2. WritesMore \/ (\E n \in 1..2 : Reports(n)) => LeaseKept
    BY <1>1 DEF WritesMore, Reports
  <2> QED
    BY <1>4, <2>1, <2>2 DEF SessionNext, SessionAcquires, Recovers, Works
<1>5. CASE UNCHANGED vars \/ \E r \in running, ok \in BOOLEAN : WorkerEnds(r, ok)
  BY <1>1, <1>5 DEF WorkerEnds, vars, runVars
<1>6. CASE HostStart \/ Accounts \/ Choose \/ Preflight \/ ReadPasses \/ WritePasses
           \/ SmokeFails \/ MakerReturned
  BY <1>1, <1>6 DEF HostStart, Accounts, SettleNext, SettleRefused, RemoveNext, SettleDone,
     CleanDone, Choose, Preflight, ReadPasses, WritePasses, SmokeFails, MakerReturned, runVars
<1>7. CASE PauseOriginal \/ PauseFresh \/ Imported \/ \E measured \in BOOLEAN : ReviewFails(measured)
  BY <1>1, <1>2, <1>7 DEF PauseOriginal, PauseFresh, Imported, ReviewFails
<1>8. CASE ClaimReview
  BY <1>0, <1>8, KeptWrites DEF ClaimReview
<1>9. CASE RespawnBegins
  BY <1>1, <1>9 DEF RespawnBegins, StartRespawn
<1>10. CASE RespawnStep
  BY <1>3, <1>10 DEF RespawnStep
<1>11. CASE MakerLaunches \/ MakerDrifted \/ \E ok \in BOOLEAN : MakerReturns(ok)
  <2>1. SpawnStep(Host) /\ resp[Host].pc # "idle"
    BY <1>11 DEF MakerLaunches, MakerDrifted, MakerReturns, SpawnStep, Launch, LaunchFails,
       LaunchReturns
  <2> QED
    BY <1>3, <2>1
<1>12. CASE HostCrash
  BY <1>0, <1>1, <1>12 DEF HostCrash, runVars, SpawnerKept, SpawnIdle
<1> QED
  BY <1>4, <1>5, <1>6, <1>7, <1>8, <1>9, <1>10, <1>11, <1>12 DEF Next, HostNext

-----------------------------------------------------------------------------
(* Each of them keeps the chain as it should be, and every story.            *)
DrivenKept == DrivenInv' /\ \A r \in Receipt : r.kind = "maker" => StoryKept(r)

LEMMA MakerSessions ==
  ASSUME NEW r \in Receipt, r.kind = "maker"
  PROVE  r.owner \in Session /\ r.ref \in Session
  BY DEF Receipt, Smokes

LEMMA ChildOfLease ==
  ASSUME TypeOK, DrivenInv, NEW o \in Session, o = lease.child, MayTakeOver(o)
  PROVE  /\ HasRow(o) /\ lease.state = "releasing" /\ ~sess[o].started /\ o # Owner
         /\ sess[o].scope = "unbound" /\ sess[o].outcome = "none"
         /\ Owner \in Predecessors(o) /\ Predecessors(o) \subseteq {Owner}
<1>1. lease.state = "releasing"
  BY DEF MayTakeOver, Takeable, DrivenInv, RecoveryOnly, RecoveryInFlight
<1>2. Owner \in Session
  BY OwnerTyped
<1> QED
  BY <1>1, <1>2 DEF MayTakeOver, TopologyOK, DrivenInv, Rooted, Awaited, Predecessors, HasRow

LEMMA TakeoverKeeps ==
  ASSUME TypeOK, RespawnTypeOK, DrivenInv, NEW o \in Session, o = lease.child,
         AcquireTakeover(o), UNCHANGED resp
  PROVE  DrivenKept
<1>1. /\ HasRow(o) /\ lease.state = "releasing" /\ ~sess[o].started /\ o # Owner
      /\ sess[o].scope = "unbound" /\ sess[o].outcome = "none"
      /\ Owner \in Predecessors(o) /\ Predecessors(o) \subseteq {Owner}
  BY ChildOfLease DEF AcquireTakeover
<1>2. /\ lease'.owner = o /\ lease'.generation = lease.generation + 1 /\ lease'.state = "active"
      /\ lease'.phase = "acquired" /\ minted' = minted \cup {o} /\ lease.generation \in Nat
  BY DEF AcquireTakeover, TypeOK, Lease
<1>3. \A s \in Session :
        /\ SameTale(s) /\ SameLinks(s) /\ SameScope(s)
        /\ IF s = o THEN sess'[s].started ELSE SameStart(s)
        /\ IF s # o /\ s \in Predecessors(o) THEN sess'[s].outcome = "took_over" ELSE SameOutcome(s)
  BY <1>1, TakeoverRows
<1>4. Rooted'
  BY <1>1, <1>2, <1>3 DEF DrivenInv, Rooted, HasRow, Owner, SameTale, SameLinks
<1>5. Awaited' /\ RecoveryOnly'
  BY <1>2 DEF Awaited, RecoveryOnly
<1>6. SpawnerKnows'
  <2>1. resp[Host].generation \in Nat
    BY DEF RespawnTypeOK, SpawnState
  <2> QED
    BY <1>2, <2>1 DEF DrivenInv, SpawnerKnows, Holds
<1>7. ASSUME NEW r \in Receipt, r.kind = "maker", Story(r) PROVE Story(r)' /\ (ChildAcquired(r) => ChildAcquired(r)')
  <2>1. r.owner \in Session /\ r.ref \in Session
    BY <1>7, MakerSessions
  <2>2. r.owner # o
    BY <1>1, <1>7 DEF Story, Parent
  <2>3. r.ref = o => sess[r.owner].succ = o
    BY <1>1, <1>7 DEF Story, Parent, Child, ChildAcquired
  <2>4. /\ HasRow(r.owner)' /\ HasRow(r.ref)'
        /\ Parent(r)'.started /\ Parent(r)'.scope = "closed" /\ Child(r)'.recovery = "none"
    BY <1>3, <1>7, <2>1 DEF Story, Parent, Child, HasRow, SameTale, SameScope, SameStart
  <2>5. CASE r.ref = o
    <3>1. r.owner \in Predecessors(o)
      BY <1>7, <2>1, <2>3, <2>5 DEF Story, HasRow, Predecessors
    <3>2. Parent(r)'.outcome = "took_over" /\ Parent(r)'.succ = r.ref
      BY <1>3, <2>1, <2>2, <2>3, <2>5, <3>1 DEF Parent, SameLinks
    <3>3. Child(r)'.started /\ Child(r)'.outcome = "none"
      BY <1>1, <1>3, <2>1, <2>5 DEF Child, SameOutcome
    <3> QED
      BY <2>4, <3>2, <3>3 DEF Story, ChildAcquired
  <2>6. CASE r.ref # o
    <3>1. Child(r)'.started = Child(r).started /\ Parent(r)'.succ = Parent(r).succ
      BY <1>3, <2>1, <2>6 DEF Child, Parent, SameStart, SameLinks
    <3>2. Parent(r).outcome = "took_over" => Parent(r)'.outcome = "took_over"
      BY <1>3, <2>1, <2>2 DEF Parent, SameOutcome
    <3>3. ~Child(r).started => Child(r)'.outcome = Child(r).outcome
      BY <1>1, <1>3, <2>1, <2>6 DEF Child, SameOutcome, DrivenInv, Rooted
    <3>4. Child(r).outcome # "failed_launch" => Child(r)'.outcome # "failed_launch"
      BY <1>3, <2>1 DEF Child, SameOutcome
    <3> QED
      BY <1>7, <2>4, <3>1, <3>2, <3>3, <3>4 DEF Story, ChildAcquired
  <2> QED
    BY <2>5, <2>6
<1> QED
  BY <1>4, <1>5, <1>6, <1>7 DEF DrivenKept, DrivenInv, StoryKept

LEMMA RecoveredKeeps ==
  ASSUME TypeOK, RespawnTypeOK, DrivenInv, NEW o \in Session, AcquireRecovered(o), UNCHANGED resp
  PROVE  DrivenKept
<1>1. sess[o].row /\ sess[o].recovery = "boundary-recovery" /\ HasRow(o)
  BY DEF AcquireRecovered, MayAcquireRecovered, RecoveryReserved, HasRow
<1>2. /\ lease'.owner = o /\ lease'.generation = lease.generation + 1 /\ lease'.state = "active"
      /\ lease'.phase = "acquired" /\ minted' = minted /\ lease.generation \in Nat
  BY DEF AcquireRecovered, RecoveredLease, TypeOK, Lease
<1>3. \A s \in Session :
        /\ SameTale(s) /\ SameLinks(s) /\ SameScope(s) /\ SameOutcome(s)
        /\ IF s = o THEN sess'[s].started ELSE SameStart(s)
  BY RecoveredRows
<1>4. Rooted'
  BY <1>1, <1>2, <1>3 DEF DrivenInv, Rooted, HasRow, Owner, SameTale, SameLinks
<1>5. Awaited' /\ RecoveryOnly'
  BY <1>2 DEF Awaited, RecoveryOnly
<1>6. SpawnerKnows'
  <2>1. resp[Host].generation \in Nat
    BY DEF RespawnTypeOK, SpawnState
  <2> QED
    BY <1>2, <2>1 DEF DrivenInv, SpawnerKnows, Holds
<1>7. ASSUME NEW r \in Receipt, r.kind = "maker", Story(r) PROVE Story(r)' /\ (ChildAcquired(r) => ChildAcquired(r)')
  <2>1. r.owner \in Session /\ r.ref \in Session
    BY <1>7, MakerSessions
  <2>2. r.ref # o
    BY <1>1, <1>7 DEF Story, Child
  <2>3. Parent(r)'.started
    BY <1>3, <1>7, <2>1 DEF Story, Parent, SameStart
  <2> QED
    BY <1>3, <1>7, <2>1, <2>2, <2>3 DEF Story, ChildAcquired, Parent, Child, HasRow,
       SameTale, SameLinks, SameScope, SameOutcome, SameStart
<1> QED
  BY <1>4, <1>5, <1>6, <1>7 DEF DrivenKept, DrivenInv, StoryKept

LEMMA WorkKeeps ==
  ASSUME TypeOK, RespawnTypeOK, DrivenInv, BindScope \/ CloseScope("open"), UNCHANGED resp
  PROVE  DrivenKept
<1>1. UNCHANGED <<lease, minted>> /\ lease.state # "releasing"
  BY DEF BindScope, CloseScope, LeaseCheck
<1>2. \A s \in Session :
        /\ SameTale(s) /\ SameLinks(s) /\ SameStart(s) /\ SameOutcome(s)
        /\ sess[s].scope = "closed" => sess'[s].scope = "closed"
  BY WorkRows
<1>3. Rooted'
  BY <1>1, <1>2, OwnerTyped DEF DrivenInv, Rooted, HasRow, Owner, SameTale, SameLinks, SameStart
<1>4. Awaited' /\ RecoveryOnly'
  BY <1>1 DEF DrivenInv, Awaited, RecoveryOnly
<1>5. SpawnerKnows'
  BY <1>1, <1>2 DEF DrivenInv, SpawnerKnows, Holds, SameStart
<1>6. ASSUME NEW r \in Receipt, r.kind = "maker", Story(r) PROVE Story(r)' /\ (ChildAcquired(r) => ChildAcquired(r)')
  <2>1. r.owner \in Session /\ r.ref \in Session
    BY <1>6, MakerSessions
  <2> QED
    BY <1>2, <1>6, <2>1 DEF Story, ChildAcquired, Parent, Child, HasRow,
       SameTale, SameLinks, SameOutcome, SameStart
<1> QED
  BY <1>3, <1>4, <1>5, <1>6 DEF DrivenKept, DrivenInv, StoryKept

LEMMA EmitKeeps ==
  ASSUME TypeOK, RespawnTypeOK, DrivenInv, NEW c \in Session, EmitHandoff(c), UNCHANGED resp
  PROVE  DrivenKept
<1>0. Owner \in Session
  BY OwnerTyped
<1>1. /\ c \notin minted /\ c # Owner /\ ~sess[Owner].retired /\ sess[Owner].scope = "closed"
      /\ minted' = minted \cup {c}
  BY DEF EmitHandoff, ClosedScope, DrivenInv, Rooted, HasRow
<1>2. /\ lease'.owner = lease.owner /\ lease'.generation = lease.generation
      /\ lease'.state = "releasing" /\ lease'.phase = "emitted" /\ lease'.child = c
      /\ lease'.takeover = "boundary-handoff"
  BY DEF EmitHandoff, TypeOK, Lease
<1> DEFINE new == [NoSession EXCEPT !.row = TRUE, !.parent = Owner]
<1>3. /\ new.row /\ new.succ = None /\ ~new.started /\ new.outcome = "none"
      /\ new.recovery = "none"
  BY DEF NoSession
<1>4. \A s \in Session :
        /\ s \notin {Owner, c} => sess'[s] = sess[s]
        /\ s = c => sess'[s] = new
        /\ s = Owner => /\ sess'[s].succ = c /\ sess'[s].retired
                        /\ SameTale(s) /\ SameScope(s) /\ SameStart(s) /\ SameOutcome(s)
  BY <1>1, EmittedRows
<1> HIDE DEF new
<1>5. Rooted'
  <2>1. ASSUME NEW s \in Session, sess'[s].row PROVE s \in minted'
    BY <1>1, <1>4, <2>1 DEF DrivenInv, Rooted, SameTale
  <2>2. ASSUME NEW s \in Session, sess'[s].succ # None
        PROVE  sess'[s].retired /\ sess'[s].succ \in minted'
    BY <1>1, <1>3, <1>4, <2>2 DEF DrivenInv, Rooted
  <2>3. HasRow(Owner)' /\ sess'[Owner'].started
    BY <1>0, <1>2, <1>4, <1>1 DEF DrivenInv, Rooted, HasRow, Owner, SameTale, SameStart
  <2> QED
    BY <2>1, <2>2, <2>3 DEF Rooted
<1>6. Awaited'
  <2>1. \A s \in Session : sess'[s].succ = c => s = Owner
    BY <1>1, <1>3, <1>4 DEF DrivenInv, Rooted
  <2>2. Owner' = Owner
    BY <1>2 DEF Owner
  <2> QED
    BY <1>0, <1>1, <1>2, <1>3, <1>4, <2>1, <2>2 DEF Awaited, HasRow, SameScope
<1>7. RecoveryOnly'
  BY <1>2 DEF RecoveryOnly
<1>8. SpawnerKnows'
  BY <1>1, <1>2, <1>3, <1>4 DEF DrivenInv, SpawnerKnows, Holds, SameStart
<1>9. ASSUME NEW r \in Receipt, r.kind = "maker", Story(r) PROVE Story(r)' /\ (ChildAcquired(r) => ChildAcquired(r)')
  <2>1. r.owner \in Session /\ r.ref \in Session /\ r.owner # c /\ r.ref # c
    BY <1>1, <1>9, MakerSessions DEF Story, HasRow, DrivenInv, Rooted
  <2>2. r.owner = Owner => Parent(r).succ = None
    BY <1>1, <2>1 DEF Parent, DrivenInv, Rooted
  <2>3. /\ SameTale(r.owner) /\ SameScope(r.owner) /\ SameStart(r.owner) /\ SameOutcome(r.owner)
        /\ SameTale(r.ref) /\ SameStart(r.ref) /\ SameOutcome(r.ref)
    BY <1>4, <2>1 DEF SameTale, SameScope, SameStart, SameOutcome
  <2>4. Parent(r).succ = r.ref => Parent(r)'.succ = r.ref
    BY <1>4, <2>1, <2>2 DEF Parent
  <2> QED
    BY <1>9, <2>1, <2>3, <2>4 DEF Story, ChildAcquired, Parent, Child, HasRow,
       SameTale, SameScope, SameOutcome, SameStart
<1> QED
  BY <1>5, <1>6, <1>7, <1>8, <1>9 DEF DrivenKept, DrivenInv, StoryKept

(* The session that a recovery gives up tells no story as a parent.          *)
LEMMA GivenUp ==
  ASSUME TypeOK, DrivenInv, NEW x \in Session, RecoverBoundary(x)
  PROVE  /\ StaleSession \in Session /\ StaleParent \in Session /\ StaleSession # StaleParent
         /\ sess[StaleSession].row /\ sess[StaleParent].row
         /\ x \notin minted /\ x # StaleSession /\ x # StaleParent
         /\ sess[StaleParent].succ = StaleSession
         /\ ~sess[StaleSession].started \/ sess[StaleSession].scope = "unbound"
         /\ sess[StaleSession].started \/ sess[StaleSession].outcome = "none"
<1>1. StaleSession \in Session /\ StaleParent \in Session /\ Owner \in Session
  BY SourceTyped, OwnerTyped DEF RecoverBoundary
<1>2. x \notin minted
  BY DEF RecoverBoundary
<1>3. CASE EmittedSource
  <2>1. StaleSession = lease.child /\ StaleParent = Owner
    BY <1>3 DEF EmittedSource, StaleSession, StaleParent
  <2> QED
    BY <1>1, <1>2, <1>3, <2>1 DEF EmittedSource, HasRow, ClosedBy, ClosedScope, DrivenInv, Rooted
<1>4. CASE AcquiredSource
  <2>1. StaleSession = Owner /\ StaleParent = sess[Owner].parent
    BY <1>4 DEF AcquiredSource, StaleSession, StaleParent
  <2> QED
    BY <1>1, <1>2, <1>4, <2>1 DEF AcquiredSource, HasRow, ClosedScope, DrivenInv, Rooted
<1>5. ~ReservedSource
  BY DEF ReservedSource, DrivenInv, RecoveryOnly
<1> QED
  BY <1>3, <1>4, <1>5 DEF RecoverBoundary, BoundaryRecoverable

LEMMA RecoverKeeps ==
  ASSUME TypeOK, RespawnTypeOK, DrivenInv, NEW x \in Session, RecoverBoundary(x), UNCHANGED resp
  PROVE  DrivenKept
<1> DEFINE stale  == StaleSession
           parent == StaleParent
<1>1. /\ stale \in Session /\ parent \in Session /\ stale # parent
      /\ sess[stale].row /\ sess[parent].row
      /\ x \notin minted /\ x # stale /\ x # parent
      /\ sess[parent].succ = stale
      /\ ~sess[stale].started \/ sess[stale].scope = "unbound"
      /\ sess[stale].started \/ sess[stale].outcome = "none"
  BY GivenUp
<1>2. /\ lease'.owner = lease.owner /\ lease'.generation = lease.generation
      /\ lease'.state = "released" /\ lease'.phase = "reserved"
      /\ lease'.takeover = "boundary-recovery" /\ minted' = minted \cup {x}
  BY DEF RecoverBoundary, RecoveryLease, TypeOK, Lease
<1> DEFINE new == Replacement("boundary-recovery", stale, "unbound")
<1>3. new.row /\ new.succ = None /\ ~new.started
  BY DEF Replacement, NoSession
<1>4. \A s \in Session :
        /\ s \notin {x, stale, parent} => sess'[s] = sess[s]
        /\ s = x => sess'[s] = new
        /\ s = stale =>
             /\ SameTale(s) /\ SameScope(s) /\ SameStart(s)
             /\ sess'[s].outcome = "abandoned_recover" /\ sess'[s].succ = x /\ sess'[s].retired
        /\ s = parent =>
             /\ SameTale(s) /\ SameScope(s) /\ SameStart(s) /\ SameOutcome(s)
             /\ sess'[s].succ = stale /\ sess'[s].retired
  BY <1>1, AbandonedRows
<1>0. Owner \in Session /\ Owner # x /\ stale \in minted /\ parent \in minted
  BY <1>1, OwnerTyped DEF DrivenInv, Rooted, HasRow
<1> HIDE DEF new, stale, parent
<1>5. Rooted'
  <2>1. ASSUME NEW s \in Session, sess'[s].row PROVE s \in minted'
    BY <1>0, <1>2, <1>4, <2>1 DEF DrivenInv, Rooted
  <2>2. ASSUME NEW s \in Session, sess'[s].succ # None
        PROVE  sess'[s].retired /\ sess'[s].succ \in minted'
    BY <1>0, <1>2, <1>3, <1>4, <2>2 DEF DrivenInv, Rooted
  <2>3. HasRow(Owner)' /\ sess'[Owner'].started
    BY <1>0, <1>2, <1>4 DEF DrivenInv, Rooted, HasRow, Owner, SameTale, SameStart
  <2> QED
    BY <2>1, <2>2, <2>3 DEF Rooted
<1>6. Awaited' /\ RecoveryOnly'
  BY <1>2 DEF Awaited, RecoveryOnly
<1>7. SpawnerKnows'
  BY <1>2, <1>3, <1>4 DEF DrivenInv, SpawnerKnows, Holds, SameStart
<1>8. ASSUME NEW r \in Receipt, r.kind = "maker", Story(r) PROVE Story(r)' /\ (ChildAcquired(r) => ChildAcquired(r)')
  <2>1. r.owner \in Session /\ r.ref \in Session /\ r.owner # x /\ r.ref # x
    BY <1>1, <1>8, MakerSessions DEF Story, HasRow, DrivenInv, Rooted
  <2>2. r.owner # stale
    BY <1>1, <1>8 DEF Story, Parent
  <2>3. /\ SameTale(r.owner) /\ SameScope(r.owner) /\ SameStart(r.owner) /\ SameOutcome(r.owner)
        /\ SameTale(r.ref) /\ SameStart(r.ref)
    BY <1>4, <2>1, <2>2 DEF SameTale, SameScope, SameStart, SameOutcome
  <2>4. Parent(r).succ = r.ref => Parent(r)'.succ = r.ref
    BY <1>1, <1>4, <2>1, <2>2 DEF Parent
  <2>5. r.ref = stale => Child(r)'.outcome = "abandoned_recover" /\ (Child(r).started \/ Child(r).outcome = "none")
    BY <1>1, <1>4 DEF Child
  <2>6. r.ref # stale => SameOutcome(r.ref)
    BY <1>4, <2>1 DEF SameOutcome
  <2> QED
    BY <1>8, <2>1, <2>3, <2>4, <2>5, <2>6 DEF Story, ChildAcquired, Parent, Child, HasRow,
       SameTale, SameScope, SameOutcome, SameStart
<1> QED
  BY <1>5, <1>6, <1>7, <1>8 DEF DrivenKept, DrivenInv, StoryKept

LEMMA UndoKeeps ==
  ASSUME TypeOK, RespawnTypeOK, DrivenInv, Undoes
  PROVE  DrivenKept
<1> DEFINE c == resp[Host].child
<1>1. c \in Session /\ ~sess[c].started
  BY DEF Undoes, DrivenInv, SpawnerKnows
<1>2. /\ lease'.owner = lease.owner /\ lease'.generation = lease.generation
      /\ lease'.state = "active" /\ lease'.phase = "idle" /\ minted' = minted
      /\ resp'[Host].pc = "idle"
  BY DEF Undoes, ReturnedLease, TypeOK, Lease
<1>3. \A s \in Session :
        /\ SameTale(s) /\ SameScope(s) /\ SameStart(s)
        /\ sess'[s].outcome = "failed_launch" \/ SameOutcome(s)
        /\ s # c => SameOutcome(s)
        /\ s = c /\ sess[s].row => sess'[s].outcome = "failed_launch"
        /\ SameLinks(s) \/ (s \in Predecessors(c) /\ sess'[s].succ = None)
  BY <1>1, UndoneRows DEF Undoes
<1> HIDE DEF c
<1>4. Rooted'
  BY <1>2, <1>3, OwnerTyped DEF DrivenInv, Rooted, HasRow, Owner, SameTale, SameLinks, SameStart
<1>5. Awaited' /\ RecoveryOnly' /\ SpawnerKnows'
  BY <1>2 DEF Awaited, RecoveryOnly, SpawnerKnows
<1>6. ASSUME NEW r \in Receipt, r.kind = "maker", Story(r) PROVE Story(r)' /\ (ChildAcquired(r) => ChildAcquired(r)')
  <2>1. r.owner \in Session /\ r.ref \in Session /\ r.owner # c
    BY <1>1, <1>6, MakerSessions DEF Story, Parent
  <2>2. /\ SameTale(r.owner) /\ SameScope(r.owner) /\ SameStart(r.owner) /\ SameOutcome(r.owner)
        /\ SameTale(r.ref) /\ SameStart(r.ref)
    BY <1>3, <2>1
  <2>3. CASE r.ref = c
    <3>1. ~Child(r).started /\ Child(r)'.outcome = "failed_launch"
      BY <1>1, <1>3, <1>6, <2>1, <2>3 DEF Child, Story, HasRow
    <3> QED
      BY <1>6, <2>1, <2>2, <3>1 DEF Story, ChildAcquired, Parent, Child, HasRow,
         SameTale, SameScope, SameStart
  <2>4. CASE r.ref # c
    <3>1. SameOutcome(r.ref)
      BY <1>3, <2>1, <2>4
    <3>2. Parent(r).succ = r.ref => Parent(r)'.succ = r.ref
      BY <1>3, <2>1, <2>4 DEF Parent, Predecessors, SameLinks
    <3> QED
      BY <1>6, <2>1, <2>2, <3>1, <3>2 DEF Story, ChildAcquired, Parent, Child, HasRow,
         SameTale, SameScope, SameOutcome, SameStart
  <2> QED
    BY <2>3, <2>4
<1> QED
  BY <1>4, <1>5, <1>6 DEF DrivenKept, DrivenInv, StoryKept

LEMMA SameStories ==
  ASSUME UNCHANGED sess
  PROVE  \A r \in Receipt : r.kind = "maker" => StoryKept(r)
  BY DEF StoryKept, Story, ChildAcquired, Parent, Child, HasRow

LEMMA StartKeeps ==
  ASSUME TypeOK, RespawnTypeOK, DrivenInv, UNCHANGED chainVars, StartRespawn(Host, FALSE)
  PROVE  /\ DrivenKept
         /\ lease.state = "releasing"
<1>0. Host \in Respawner /\ resp \in [Respawner -> SpawnState] /\ lease.generation \in Nat
  BY DEF RespawnTypeOK, TypeOK, Lease
<1>1. lease.state = "releasing" /\ lease.child \in Session
  BY DEF StartRespawn, DrivenInv, Awaited, TypeOK, Lease
<1>2. resp'[Host].child = lease.child /\ resp'[Host].generation = lease.generation
  BY <1>0 DEF StartRespawn, Remember
<1>3. SpawnerKnows'
  BY <1>0, <1>1, <1>2 DEF SpawnerKnows, DrivenInv, Awaited, chainVars
<1>4. Rooted' /\ Awaited' /\ RecoveryOnly'
  BY DEF DrivenInv, Rooted, Awaited, RecoveryOnly, chainVars, HasRow, Owner
<1> QED
  BY <1>1, <1>3, <1>4, SameStories DEF DrivenKept, DrivenInv, chainVars

LEMMA KeptKeeps ==
  ASSUME TypeOK, RespawnTypeOK, DrivenInv, LeaseKept, UNCHANGED resp \/ SpawnerKept
  PROVE  DrivenKept
<1>1. /\ UNCHANGED <<sess, minted>>
      /\ lease'.owner = lease.owner /\ lease'.generation = lease.generation
      /\ lease'.state = lease.state /\ lease'.child = lease.child
      /\ lease'.takeover = lease.takeover /\ lease'.phase \in {lease.phase, "spawned"}
  BY DEF LeaseKept
<1>2. Rooted' /\ Awaited' /\ RecoveryOnly'
  BY <1>1 DEF DrivenInv, Rooted, Awaited, RecoveryOnly, HasRow, Owner
<1>3. SpawnerKnows'
  <2>1. CASE UNCHANGED resp
    BY <1>1, <2>1 DEF DrivenInv, SpawnerKnows, Holds
  <2>2. CASE resp'[Host].pc = "idle"
    BY <2>2 DEF SpawnerKnows
  <2>3. CASE /\ resp[Host].pc # "idle"
             /\ \A f \in {"owner", "generation", "child"} : resp'[Host][f] = resp[Host][f]
    <3>1. /\ resp'[Host].owner = resp[Host].owner /\ resp'[Host].child = resp[Host].child
          /\ resp'[Host].generation = resp[Host].generation
      BY <2>3
    <3> QED
      BY <1>1, <2>3, <3>1 DEF DrivenInv, SpawnerKnows, Holds
  <2> QED
    BY <2>1, <2>2, <2>3 DEF SpawnerKept
<1> QED
  BY <1>1, <1>2, <1>3, SameStories DEF DrivenKept, DrivenInv

LEMMA NextDriven == HostTypeOK /\ DrivenInv /\ [Next]_vars => DrivenKept
<1> SUFFICES ASSUME HostTypeOK, DrivenInv, [Next]_vars PROVE DrivenKept
  OBVIOUS
<1>1. TypeOK /\ RespawnTypeOK
  BY DEF HostTypeOK
<1> QED
  BY <1>1, ChainSteps, TakeoverKeeps, RecoveredKeeps, RecoverKeeps, EmitKeeps, WorkKeeps,
     KeptKeeps, UndoKeeps, StartKeeps

LEMMA InitDriven == Init => DrivenInv
<1> SUFFICES ASSUME Init PROVE DrivenInv
  OBVIOUS
<1>1. /\ lease.owner = Root /\ lease.state = "active" /\ lease.phase = "idle" /\ minted = {Root}
      /\ Root \in Session /\ Root # None /\ resp[Host].pc = "idle"
  BY DEF Init, ChainInit, RespawnInit, SpawnIdle
<1>2. \A s \in Session : /\ sess[s].row = (s = Root) /\ sess[s].succ = None
                         /\ s = Root => sess[s].started
  BY DEF Init, ChainInit, NoSession
<1> QED
  BY <1>1, <1>2 DEF DrivenInv, Rooted, Awaited, RecoveryOnly, SpawnerKnows, HasRow, Owner

-----------------------------------------------------------------------------
(* Whatever the host has to do with a maker, it has to do with a session     *)
(* that handed off and with the child of the handoff.                        *)
MakerAtWork(r) == At("maker") /\ r = Maker

Seen(r) == \/ r \in files \/ r \in running \/ r \in host.todo \/ r \in record
           \/ Recorded(r) \/ MakerAtWork(r)

Told == \A r \in Receipt : r.kind = "maker" /\ Seen(r) => Story(r)

NothingNew == \A r : r.kind = "maker" /\ Seen(r)' => Seen(r)

LEMMA SeenMoves ==
  ASSUME \A r : r.kind = "maker" =>
           /\ r \in files' => r \in files \/ r \in running
           /\ r \in running' => r \in running \/ MakerAtWork(r)
           /\ r \in record' => r \in record \/ r \in files
           /\ r \in host'.todo => r \in host.todo \/ r \in files \/ r \in record \/ MakerAtWork(r)
           /\ Recorded(r)' => Recorded(r) \/ r \in host.todo,
         host'.pc = "maker" =>
           /\ At("maker") /\ host'.owner = host.owner /\ host'.generation = host.generation
           /\ host'.child = host.child
  PROVE  NothingNew
<1>1. \A r : MakerAtWork(r)' => MakerAtWork(r)
  BY DEF MakerAtWork, At, Maker
<1> QED
  BY <1>1, Zenon DEF NothingNew, Seen

(* The host goes on with what it has.                                        *)
LEMMA SeenHost ==
  ASSUME UNCHANGED <<files, running, record, log>>, host'.pc # "maker",
         \A r \in host'.todo : r.kind = "maker" =>
           r \in host.todo \/ r \in files \/ r \in record \/ MakerAtWork(r)
  PROVE  NothingNew
<1>1. RecordedKept
  BY SameLog
<1> QED
  BY <1>1, SeenMoves DEF RecordedKept

LEMMA SeenAccounts ==
  ASSUME HostTypeOK, Accounts \/ HostStart
  PROVE  NothingNew
<1>0. host \in HostState /\ host.todo \in SUBSET Receipt
  BY HostFields DEF HostTypeOK, DriveTypeOK
<1>1. CASE HostStart
  <2>1. UNCHANGED <<files, running, record, log>> /\ host'.pc = "settle" /\ host'.todo = files
    BY <1>1 DEF HostStart, runVars, HostOff
  <2> QED
    BY <2>1, SeenHost
<1>2. ASSUME NEW x \in host.todo, SettleNext(x) PROVE NothingNew
  <2>1. \A o : Recorded(o)' => Recorded(o) \/ o = x
    BY <1>0, <1>2, SettleRecords
  <2>2. UNCHANGED <<files, running, record>> /\ host'.pc = "settle" /\ host'.todo = host.todo \ {x}
    BY <1>0, <1>2 DEF SettleNext, At, HostState
  <2> QED
    BY <1>2, <2>1, <2>2, SeenMoves
<1>3. ASSUME NEW x, SettleRefused(x) PROVE NothingNew
  <2>1. host' = [host EXCEPT !.pc = host.failed, !.todo = {}, !.list = {}]
    BY <1>3 DEF SettleRefused, Refused
  <2>2. host'.pc # "maker" /\ host'.todo = {}
    BY <1>0, <2>1 DEF HostState, Refusal
  <2> QED
    BY <1>3, <2>2, SeenHost DEF SettleRefused, runVars
<1>4. ASSUME NEW x, RemoveNext(x) PROVE NothingNew
  <2>1. /\ files' = files \ {x} /\ UNCHANGED <<running, record, log>>
        /\ host'.pc = "clean" /\ host'.todo = host.todo
    BY <1>0, <1>4 DEF RemoveNext, runVars, At, HostState
  <2>2. RecordedKept
    BY <2>1, SameLog
  <2> QED
    BY <2>1, <2>2, SeenMoves DEF RecordedKept
<1>5. CASE SettleDone \/ CleanDone
  <2>1. UNCHANGED <<files, running, record, log>>
    BY <1>5 DEF SettleDone, CleanDone, runVars
  <2>2. host'.pc # "maker" /\ host'.todo = host.todo
    BY <1>0, <1>5 DEF SettleDone, CleanDone, Goto, HostState, After
  <2> QED
    BY <2>1, <2>2, SeenHost
<1> QED
  BY <1>1, <1>2, <1>3, <1>4, <1>5 DEF Accounts

(* Where the host is after such a move.                                      *)
LEMMA MovesTo ==
  ASSUME host \in HostState
  PROVE  /\ Stop => host'.pc = "off" /\ host'.todo = {}
         /\ \A l : Goto(l) => host'.pc = l /\ host'.todo = host.todo
         /\ \A goal : Prepare(goal) => host'.pc = "preflight" /\ host'.todo = host.todo
         /\ \A S, n, f : SettleThen(S, n, f) => host'.pc = "settle" /\ host'.todo = S
<1>1. Stop => host'.pc = "off" /\ host'.todo = {}
  BY DEF Stop, HostOff
<1>2. \A l : Goto(l) => host'.pc = l /\ host'.todo = host.todo
  BY DEF Goto, HostState
<1>3. \A goal : Prepare(goal) => host'.pc = "preflight" /\ host'.todo = host.todo
  BY DEF Prepare, HostState
<1>4. \A S, n, f : SettleThen(S, n, f) => host'.pc = "settle" /\ host'.todo = S
  BY DEF SettleThen, HostState
<1> QED
  BY <1>1, <1>2, <1>3, <1>4

LEMMA SeenStops ==
  ASSUME HostTypeOK, UNCHANGED <<files, running, record, log>>,
         \/ Stop \/ \E l \in HostPc \ {"maker"} : Goto(l)
         \/ \E goal \in {"review", "respawn"} : Prepare(goal)
  PROVE  NothingNew
<1>0. host \in HostState
  BY DEF HostTypeOK, DriveTypeOK
<1>1. host'.pc # "maker" /\ host'.todo \in {{}, host.todo}
  BY <1>0, MovesTo
<1> QED
  BY <1>1, SeenHost

LEMMA SeenSettles ==
  ASSUME HostTypeOK, UNCHANGED <<files, running, record, log>>, NEW S, NEW n, NEW f, SettleThen(S, n, f),
         \A r \in S : r.kind = "maker" =>
           r \in host.todo \/ r \in files \/ r \in record \/ MakerAtWork(r)
  PROVE  NothingNew
<1>0. host \in HostState
  BY DEF HostTypeOK, DriveTypeOK
<1>1. host'.pc # "maker" /\ host'.todo = S
  BY <1>0 DEF SettleThen, HostState
<1> QED
  BY <1>1, SeenHost

LEMMA SeenPreflight ==
  ASSUME HostTypeOK, Preflight \/ ReadPasses \/ WritePasses \/ SmokeFails
  PROVE  NothingNew
<1>0. host \in HostState
  BY DEF HostTypeOK, DriveTypeOK
<1>1. \A kind \in Smokes : Smoke(kind).kind # "maker" /\ [Smoke(kind) EXCEPT !.ref = tries'].kind # "maker"
  BY DEF Smoke, Smokes
<1>2. ASSUME NEW S, Activate(S) PROVE host'.pc # "maker" /\ host'.todo = S
  BY <1>0, <1>2 DEF Activate, HostState
<1>3. ASSUME NEW x, x.kind # "maker", Runs(x), NEW l \in {"read", "write"}, Goto(l),
             UNCHANGED <<files, record, log>>
      PROVE  NothingNew
  <2>1. host'.pc # "maker" /\ host'.todo = host.todo
    BY <1>0, <1>3 DEF Goto, HostState
  <2>2. \A r : r.kind = "maker" => (r \in running' <=> r \in running)
    BY <1>3 DEF Runs
  <2>3. RecordedKept
    BY <1>3, SameLog
  <2> QED
    BY <1>3, <2>1, <2>2, <2>3, SeenMoves DEF RecordedKept
<1>4. CASE Preflight
  <2>1. UNCHANGED <<files, record, log>>
    BY <1>4 DEF Preflight, runVars
  <2>2. CASE Goto("pause") /\ UNCHANGED running
    BY <2>1, <2>2, SeenStops DEF HostPc
  <2>3. CASE SettleThen(Orphans, "preflight", "pause") /\ UNCHANGED running
    BY <2>1, <2>3, SeenSettles DEF Orphans, SmokesOf
  <2>4. CASE Activate(record) /\ UNCHANGED running
    BY <1>2, <2>1, <2>4, SeenHost
  <2>5. CASE Runs([Smoke("read") EXCEPT !.ref = tries']) /\ Goto("read")
    BY <1>1, <1>3, <2>1, <2>5 DEF Smokes
  <2> QED
    BY <1>4, <2>2, <2>3, <2>4, <2>5 DEF Preflight
<1>5. CASE ReadPasses
  BY <1>1, <1>3, <1>5 DEF ReadPasses, runVars, Smokes
<1>6. CASE WritePasses
  <2>1. UNCHANGED <<files, running, log>> /\ record' = Measured /\ Activate(Measured)
    BY <1>6 DEF WritePasses, runVars
  <2>2. Measured \subseteq files
    BY DEF Measured
  <2>3. RecordedKept
    BY <2>1, SameLog
  <2> QED
    BY <1>2, <2>1, <2>2, <2>3, SeenMoves DEF RecordedKept
<1>7. CASE SmokeFails
  <2>1. UNCHANGED <<files, running, record, log>>
    BY <1>7 DEF SmokeFails, runVars
  <2>2. CASE Goto("pause")
    BY <2>1, <2>2, SeenStops DEF HostPc
  <2>3. CASE SettleThen(Measured, "pause", "pause")
    BY <2>1, <2>3, SeenSettles DEF Measured
  <2> QED
    BY <1>7, <2>2, <2>3 DEF SmokeFails
<1> QED
  BY <1>4, <1>5, <1>6, <1>7

LEMMA SeenReview ==
  ASSUME HostTypeOK, ClaimReview \/ Imported \/ \E measured \in BOOLEAN : ReviewFails(measured),
         RecordedKept
  PROVE  NothingNew
<1>0. host \in HostState
  BY DEF HostTypeOK, DriveTypeOK
<1>1. Check.kind # "maker" /\ [Check EXCEPT !.ref = NextAttempt].kind # "maker"
  BY DEF Check
<1>2. /\ UNCHANGED <<files, record>>
      /\ \A r : r.kind = "maker" => (r \in running' <=> r \in running)
  BY <1>1 DEF ClaimReview, Imported, ReviewFails, Runs
<1>3. host'.pc # "maker" /\ (host'.todo \in {{}, {Check}} \/ host'.todo = host.todo)
  <2>1. Goto("checking") \/ Stop \/ SettleThen({Check}, "off", "off")
    BY DEF ClaimReview, Imported, ReviewFails
  <2> QED
    BY <1>0, <2>1, MovesTo
<1> QED
  BY <1>1, <1>2, <1>3, SeenMoves DEF RecordedKept

LEMMA SeenMaker ==
  ASSUME HostTypeOK, \/ RespawnStep \/ MakerLaunches \/ MakerDrifted
                     \/ \E ok \in BOOLEAN : MakerReturns(ok)
                     \/ MakerReturned
  PROVE  NothingNew
<1>0. host \in HostState
  BY DEF HostTypeOK, DriveTypeOK
<1>1. UNCHANGED <<files, record, log>> /\ At("maker") /\ RecordedKept
  BY SameLog DEF RespawnStep, MakerLaunches, MakerDrifted, MakerReturns, MakerReturned,
     costVars, hostVars, runVars
<1>2. CASE RespawnStep \/ MakerDrifted \/ \E ok \in BOOLEAN : MakerReturns(ok)
  <2>1. /\ UNCHANGED running
        /\ UNCHANGED host \/ \E ok \in BOOLEAN :
             host' = [host EXCEPT !.maker = IF ok THEN "ok" ELSE "failed"]
    BY <1>2 DEF RespawnStep, MakerDrifted, MakerReturns, hostVars
  <2>2. /\ host'.todo = host.todo /\ host'.owner = host.owner
        /\ host'.generation = host.generation /\ host'.child = host.child
    BY <1>0, <2>1 DEF HostState
  <2> QED
    BY <1>1, <2>1, <2>2, SeenMoves DEF RecordedKept
<1>3. CASE MakerLaunches
  <2>1. UNCHANGED host /\ running' = running \cup {Maker}
    BY <1>3 DEF MakerLaunches, Runs
  <2> QED
    BY <1>1, <2>1, SeenMoves DEF RecordedKept, MakerAtWork
<1>4. CASE MakerReturned
  <2>1. UNCHANGED running
    BY <1>4 DEF MakerReturned
  <2>2. host'.pc # "maker" /\ (host'.todo \in {{}, {Maker}} \/ host'.todo = host.todo)
    <3>1. \/ SettleThen({Maker}, "pauseFresh", "pauseFresh") \/ Goto("pauseFresh") \/ Stop
          \/ host' = [host EXCEPT !.pc = "settle", !.todo = {Maker}, !.list = {Maker},
                                  !.owner = host.child, !.generation = @ + 1,
                                  !.next = "off", !.failed = "off"]
      BY <1>4 DEF MakerReturned
    <3>2. CASE host' = [host EXCEPT !.pc = "settle", !.todo = {Maker}, !.list = {Maker},
                                    !.owner = host.child, !.generation = @ + 1,
                                    !.next = "off", !.failed = "off"]
      BY <1>0, <3>2 DEF HostState
    <3> QED
      BY <1>0, <3>1, <3>2, MovesTo
  <2> QED
    BY <1>1, <2>1, <2>2, SeenMoves DEF RecordedKept, MakerAtWork
<1> QED
  BY <1>2, <1>3, <1>4

LEMMA SeenNext ==
  ASSUME HostTypeOK, [Next]_vars, ~(RespawnBegins /\ StartRespawn(Host, FALSE))
  PROVE  NothingNew
<1>1. RecordedKept \/ \E r \in host.todo : SettleNext(r)
  BY LogRecords
<1>2. (\E r \in host.todo : SettleNext(r)) => Accounts
  BY DEF Accounts
<1>3. CASE Accounts \/ HostStart
  BY <1>3, SeenAccounts
<1>4. CASE (SessionNext \/ UNCHANGED vars) /\ RecordedKept
  <2>1. UNCHANGED <<files, running, record, host>>
    BY <1>4 DEF SessionNext, SessionAcquires, Recovers, EmitHandoff, Works, WritesMore, Reports,
       Finishes, hostVars, costVars, vars
  <2> QED
    BY <1>4, <2>1, SeenMoves DEF RecordedKept, At
<1>5. ASSUME NEW r \in running, NEW ok \in BOOLEAN, WorkerEnds(r, ok) PROVE NothingNew
  <2>1. /\ \A o : (o \in running' => o \in running) /\ (o \in files' => o \in files \/ o \in running)
        /\ UNCHANGED <<host, record, log>>
    BY <1>5 DEF WorkerEnds, runVars
  <2>2. RecordedKept
    BY <2>1, SameLog
  <2> QED
    BY <2>1, <2>2, SeenMoves DEF RecordedKept, At
<1>6. CASE PauseOriginal \/ PauseFresh \/ HostCrash \/ Choose
  <2>1. UNCHANGED <<files, running, record, log>>
    BY <1>6 DEF PauseOriginal, PauseFresh, HostCrash, Choose, runVars, costVars
  <2>2. \/ Stop \/ \E goal \in {"review", "respawn"} : Prepare(goal)
        \/ Goto("pauseFresh")
    BY <1>6 DEF PauseOriginal, PauseFresh, HostCrash, Choose
  <2> QED
    BY <2>1, <2>2, SeenStops DEF HostPc
<1>7. CASE Preflight \/ ReadPasses \/ WritePasses \/ SmokeFails
  BY <1>7, SeenPreflight
<1>8. CASE (ClaimReview \/ Imported \/ \E measured \in BOOLEAN : ReviewFails(measured)) /\ RecordedKept
  BY <1>8, SeenReview
<1>9. CASE RespawnBegins
  <2>1. UNCHANGED <<files, running, record, log>> /\ Stop
    BY <1>9 DEF RespawnBegins, costVars
  <2> QED
    BY <2>1, SeenStops
<1>10. CASE RespawnStep \/ MakerLaunches \/ MakerDrifted \/ (\E ok \in BOOLEAN : MakerReturns(ok))
            \/ MakerReturned
  BY <1>10, SeenMaker
<1> QED
  BY <1>1, <1>2, <1>3, <1>4, <1>5, <1>6, <1>7, <1>8, <1>9, <1>10 DEF Next, HostNext

(* A respawn begins for the child that the owner waits for.                  *)
LEMMA RespawnTold ==
  ASSUME HostTypeOK, DrivenInv, Told, RespawnBegins, StartRespawn(Host, FALSE)
  PROVE  Told'
<1>0. host \in HostState /\ TypeOK /\ RespawnTypeOK /\ Owner \in Session
  BY OwnerTyped DEF HostTypeOK, DriveTypeOK
<1>1. UNCHANGED chainVars /\ UNCHANGED <<files, running, record, log>>
  BY DEF RespawnBegins, StartRespawn, costVars
<1>2. lease.state = "releasing" /\ UNCHANGED sess /\ RecordedKept
  BY <1>0, <1>1, StartKeeps, SameLog DEF chainVars
<1>3. Stop \/ (FencedBy(host) /\ SameHandoff /\ Goto("maker"))
  BY DEF RespawnBegins
<1>4. host'.todo \in {{}, host.todo}
  BY <1>0, <1>3, MovesTo
<1>5. \A r : ~MakerAtWork(r)' /\ Seen(r)' => Seen(r)
  BY <1>1, <1>2, <1>4 DEF Seen, RecordedKept
<1>6. ASSUME NEW r \in Receipt, r.kind = "maker", MakerAtWork(r)' PROVE Story(r)
  <2>1. FencedBy(host) /\ SameHandoff /\ host' = [host EXCEPT !.pc = "maker"]
    BY <1>3, <1>6 DEF Stop, HostOff, MakerAtWork, At, Goto
  <2>2. host'.owner = host.owner /\ host'.child = host.child
    BY <1>0, <2>1 DEF HostState
  <2>3. r.owner = Owner /\ r.ref = lease.child
    BY <1>6, <2>1, <2>2 DEF MakerAtWork, Maker, FencedBy, SameHandoff, Owner
  <2> QED
    BY <1>2, <2>3 DEF Story, Parent, Child, DrivenInv, Rooted, Awaited, HasRow
<1>7. \A r \in Receipt : r.kind = "maker" => StoryKept(r)
  BY <1>2, SameStories
<1> QED
  BY <1>5, <1>6, <1>7 DEF Told, StoryKept

LEMMA NextTold == HostTypeOK /\ DrivenInv /\ Told /\ [Next]_vars => Told'
<1> SUFFICES ASSUME HostTypeOK, DrivenInv, Told, [Next]_vars PROVE Told'
  OBVIOUS
<1>1. CASE RespawnBegins /\ StartRespawn(Host, FALSE)
  BY <1>1, RespawnTold
<1>2. CASE ~(RespawnBegins /\ StartRespawn(Host, FALSE))
  <2>1. NothingNew
    BY <1>2, SeenNext
  <2>2. \A r \in Receipt : r.kind = "maker" => StoryKept(r)
    BY NextDriven DEF DrivenKept
  <2> QED
    BY <2>1, <2>2 DEF Told, StoryKept, NothingNew
<1> QED
  BY <1>1, <1>2

-----------------------------------------------------------------------------
(* A cost that stands in the log is the only one of its process, and the     *)
(* settlement that wrote it would write it again.                            *)
Stands(lines, i) ==
  LET r == lines[i].of
  IN  /\ r \in Receipt
      /\ \A j \in 1..Len(lines) : lines[j].type = "receipt" /\ lines[j].of = r => j = i
      /\ lines[i].turns = LessFloor(1, TrailingFloor(SubSeq(lines, 1, i - 1),
                                                     lines[i].owner, lines[i].generation))
      /\ r.kind = "write" => \E j \in 1..Len(lines) :
                               lines[j].type = "receipt" /\ lines[j].of = ReadOf(r)

Attributed(i) == [owner |-> log[i].owner, generation |-> log[i].generation]
                   \in PossibleOrigins(log[i].of)

EventsInv == \A i \in 1..Len(log) : log[i].type = "receipt" => Stands(log, i) /\ Attributed(i)

(* The log grows by lines that are no receipts.                              *)
LEMMA StandsGrown ==
  ASSUME NEW lines \in Seq(Cost), NEW more \in Seq(Cost),
         NEW i \in 1..Len(lines), lines[i].type = "receipt", Stands(lines, i),
         \A j \in 1..Len(more) : more[j].type = "receipt" => more[j].of # lines[i].of
  PROVE  Stands(lines \o more, i)
<1> DEFINE all == lines \o more
<1>1. /\ all \in Seq(Cost) /\ Len(all) = Len(lines) + Len(more)
      /\ Len(lines) \in Nat /\ Len(more) \in Nat
      /\ \A j \in 1..Len(lines) : all[j] = lines[j]
      /\ \A j \in 1..Len(all) : j > Len(lines) => all[j] = more[j - Len(lines)]
  OBVIOUS
<1>2. SubSeq(all, 1, i - 1) = SubSeq(lines, 1, i - 1)
  OBVIOUS
<1> HIDE DEF all
<1>3. \A j \in 1..Len(all) : all[j].type = "receipt" /\ all[j].of = lines[i].of => j = i
  <2> SUFFICES ASSUME NEW j \in 1..Len(all), all[j].type = "receipt", all[j].of = lines[i].of
               PROVE  j = i
    OBVIOUS
  <2>1. CASE j <= Len(lines)
    BY <1>1, <2>1 DEF Stands
  <2>2. CASE j > Len(lines)
    <3> DEFINE k == j - Len(lines)
    <3>1. k \in 1..Len(more) /\ all[j] = more[k]
      BY <1>1, <2>2
    <3> HIDE DEF k
    <3> QED
      BY <3>1
  <2> QED
    BY <1>1, <2>1, <2>2
<1>4. all[i] = lines[i] /\ 1..Len(lines) \subseteq 1..Len(all)
  BY <1>1
<1> QED
  BY <1>1, <1>2, <1>3, <1>4 DEF Stands, all

LEMMA AttributedKept ==
  ASSUME HostTypeOK, DrivenInv, Told, [Next]_vars, NEW i \in 1..Len(log),
         log[i].type = "receipt", log[i].of \in Receipt, Attributed(i), log'[i] = log[i]
  PROVE  Attributed(i)'
<1>0. PICK r \in Receipt : r = log[i].of
  OBVIOUS
<1>1. Recorded(r)
  BY <1>0 DEF Recorded, EventsOf
<1>2. r.kind = "maker" => Story(r)
  BY <1>1 DEF Told, Seen
<1>3. r.kind = "maker" /\ ChildAcquired(r) => ChildAcquired(r)'
  BY <1>2, NextDriven DEF DrivenKept, StoryKept
<1>4. PossibleOrigins(r) \subseteq PossibleOrigins(r)'
  BY <1>3 DEF PossibleOrigins, OriginParent, OriginChild
<1> QED
  BY <1>0, <1>4 DEF Attributed

LEMMA QuietEvents ==
  ASSUME HostTypeOK, DrivenInv, Told, EventsInv, [Next]_vars, NEW more \in Seq(Cost),
         log' = log \o more, \A j \in 1..Len(more) : more[j].type # "receipt"
  PROVE  EventsInv'
<1>0. log \in Seq(Cost)
  BY DEF HostTypeOK, BooksTypeOK
<1> SUFFICES ASSUME NEW i \in 1..Len(log'), log'[i].type = "receipt"
             PROVE  Stands(log', i) /\ Attributed(i)'
  BY DEF EventsInv, Stands
<1>1. i \in 1..Len(log)
  <2> SUFFICES ASSUME i > Len(log) PROVE FALSE
    BY <1>0
  <2> DEFINE k == i - Len(log)
  <2>1. k \in 1..Len(more) /\ log'[i] = more[k]
    BY <1>0
  <2> HIDE DEF k
  <2> QED
    BY <2>1
<1>2. log'[i] = log[i]
  BY <1>0, <1>1
<1>3. Stands(log, i) /\ Attributed(i) /\ log[i].of \in Receipt
  BY <1>1, <1>2 DEF EventsInv, Stands
<1>4. Stands(log \o more, i)
  BY <1>0, <1>1, <1>2, <1>3, StandsGrown
<1> QED
  BY <1>1, <1>2, <1>3, <1>4, AttributedKept

LEMMA SettledEvents ==
  ASSUME HostTypeOK, DrivenInv, Told, EventsInv, [Next]_vars, ProcessPays
  PROVE  EventsInv'
<1>0. log \in Seq(Cost)
  BY DEF HostTypeOK, BooksTypeOK
<1>1. PICK r \in Receipt :
        /\ SettleNext(r) /\ MaySettle(r, host)
        /\ Charge(Explicit("receipt", Origin(r).owner, Origin(r).generation, 1, r))
  BY DEF ProcessPays
<1>n. PICK n \in Nat : n = Len(log) + 1
  BY <1>0
<1> DEFINE e == Explicit("receipt", Origin(r).owner, Origin(r).generation, 1, r)
<1>2. e \in Cost
  BY OriginTyped, CostsTyped DEF HostTypeOK, CostTypes
<1>3. /\ e.type = "receipt" /\ e.of = r
      /\ e.owner = Origin(r).owner /\ e.generation = Origin(r).generation
      /\ e.turns = LessFloor(1, TrailingFloor(log, e.owner, e.generation))
  BY DEF Explicit
<1>4. log' = Append(log, e)
  BY <1>1 DEF Charge
<1> HIDE DEF e
<1>5. /\ log' = log \o <<e>> /\ <<e>> \in Seq(Cost) /\ Len(log') = n /\ n \in Nat
      /\ log'[n] = e /\ SubSeq(log', 1, n - 1) = log /\ 1..Len(log') = (1..Len(log)) \cup {n}
      /\ \A i \in 1..Len(log) : log'[i] = log[i] /\ i # n
  BY <1>0, <1>n, <1>2, <1>4
<1>6. \A i \in 1..Len(log) : log[i].type = "receipt" => log[i].of # r
  BY <1>1 DEF MaySettle, Recorded, EventsOf
<1>7. r.kind = "write" => \E j \in 1..Len(log) : log[j].type = "receipt" /\ log[j].of = ReadOf(r)
  BY <1>1 DEF MaySettle, PredecessorSettled, Recorded, EventsOf
<1>8. ASSUME NEW i \in 1..Len(log), log[i].type = "receipt" PROVE Stands(log', i) /\ Attributed(i)'
  <2>1. Stands(log, i) /\ Attributed(i) /\ log[i].of \in Receipt
    BY <1>8 DEF EventsInv, Stands
  <2>2. \A j \in 1..Len(<<e>>) : <<e>>[j].type = "receipt" => <<e>>[j].of # log[i].of
    BY <1>3, <1>6, <1>8
  <2>3. Stands(log \o <<e>>, i)
    BY <1>0, <1>5, <1>8, <2>1, <2>2, StandsGrown
  <2> QED
    BY <1>5, <1>8, <2>1, <2>3, AttributedKept
<1>9. Stands(log', n)
  <2>1. \A j \in 1..Len(log') : log'[j].type = "receipt" /\ log'[j].of = r => j = n
    BY <1>5, <1>6
  <2>2. r.kind = "write" => \E j \in 1..Len(log') : log'[j].type = "receipt" /\ log'[j].of = ReadOf(r)
    BY <1>5, <1>7
  <2> QED
    BY <1>3, <1>5, <2>1, <2>2 DEF Stands
<1>10. Attributed(n)'
  <2>1. Recorded(r)'
    BY <1>3, <1>5 DEF Recorded, EventsOf
  <2>2. r \in host.todo
    BY <1>1 DEF SettleNext, NextSettled
  <2>3. r.kind = "maker" => Story(r)
    BY <2>2 DEF Told, Seen
  <2>4. r.kind = "maker" /\ ChildAcquired(r) => ChildAcquired(r)'
    BY <2>3, NextDriven DEF DrivenKept, StoryKept
  <2>5. [owner |-> Origin(r).owner, generation |-> Origin(r).generation] \in PossibleOrigins(r)'
    BY <2>4 DEF Origin, PossibleOrigins, OriginParent, OriginChild
  <2> QED
    BY <1>3, <1>5, <2>5 DEF Attributed
<1>11. ASSUME NEW i \in 1..Len(log'), log'[i].type = "receipt"
       PROVE  Stands(log', i) /\ Attributed(i)'
  <2>1. CASE i = n
    BY <1>9, <1>10, <2>1
  <2>2. CASE i \in 1..Len(log)
    BY <1>5, <1>8, <1>11, <2>2
  <2> QED
    BY <1>5, <2>1, <2>2
<1> QED
  BY <1>11, Zenon DEF EventsInv

LEMMA NextEvents == HostTypeOK /\ DrivenInv /\ Told /\ EventsInv /\ [Next]_vars => EventsInv'
<1> SUFFICES ASSUME HostTypeOK, DrivenInv, Told, EventsInv, [Next]_vars PROVE EventsInv'
  OBVIOUS
<1>0. log \in Seq(Cost) /\ lease.owner \in Session /\ lease.generation \in Nat /\ BooksTypeOK
  BY DEF HostTypeOK, BooksTypeOK, TypeOK, Lease
<1>1. ASSUME NEW e \in Cost, e.type # "receipt", Charge(e) PROVE EventsInv'
  <2>1. log' = log \o <<e>> /\ <<e>> \in Seq(Cost)
    BY <1>0, <1>1 DEF Charge
  <2>2. \A j \in 1..Len(<<e>>) : <<e>>[j].type # "receipt"
    BY <1>1
  <2> QED
    BY <2>1, <2>2, QuietEvents
<1>2. CASE UNCHANGED <<log, turns, spent>>
  <2> DEFINE more == <<>>
  <2>1. log' = log \o more /\ more \in Seq(Cost) /\ 1..Len(more) = {}
    BY <1>0, <1>2
  <2> HIDE DEF more
  <2> QED
    BY <2>1, QuietEvents
<1>3. CASE OwnerPays
  <2>1. FloorOf(lease.owner, lease.generation) \in Cost /\ FloorOf(lease.owner, lease.generation).type = "floor"
    BY <1>0, FloorTyped DEF FloorOf
  <2>2. \A n \in 1..2 : /\ Explicit("report", lease.owner, lease.generation, n, None) \in Cost
                        /\ Explicit("report", lease.owner, lease.generation, n, None).type = "report"
    BY <1>0, CostsTyped DEF CostTypes, Explicit
  <2> QED
    BY <1>1, <1>3, <2>1, <2>2 DEF OwnerPays, ChargeFloor
<1>4. CASE Finishes
  <2> DEFINE floor == FloorOf(lease.owner, lease.generation)
             more  == <<FinishEvent, floor>>
  <2>1. floor \in Cost /\ floor.type = "floor"
    BY <1>0, FloorTyped DEF FloorOf
  <2>2. FinishEvent \in Cost /\ FinishEvent.type = "finish"
    BY <1>0 DEF FinishEvent, Cost, CostTypes
  <2>3. log' = log \o more
    BY <1>4 DEF Finishes
  <2> HIDE DEF floor
  <2>4. more \in Seq(Cost) /\ \A j \in 1..Len(more) : more[j].type # "receipt"
    BY <2>1, <2>2
  <2> QED
    BY <2>3, <2>4, QuietEvents
<1> QED
  BY <1>2, <1>3, <1>4, LogSteps, SettledEvents

DrainInv == DrivenInv /\ Told /\ EventsInv

LEMMA InitDrain == Init => DrainInv
<1> SUFFICES ASSUME Init PROVE DrainInv
  OBVIOUS
<1>1. /\ files = {} /\ running = {} /\ record = {} /\ host.todo = {} /\ ~At("maker") /\ log = <<>>
  BY DEF Init, AccountingInit, HostOff, At
<1>2. \A r : ~Recorded(r)
  BY <1>1 DEF Recorded, EventsOf
<1> QED
  BY <1>1, <1>2, InitDriven DEF DrainInv, Told, Seen, MakerAtWork, EventsInv

LEMMA NextDrain == HostTypeOK /\ DrainInv /\ [Next]_vars => DrainInv'
  BY NextDriven, NextTold, NextEvents DEF DrainInv, DrivenKept

(* A receipt on disk never blocks the hosts to come: the rows still tell one *)
(* of the stories of its process, and its event, if there is one, stands.    *)
THEOREM DrainGoesOn == Spec => []NothingBlocksTheDrain
<1>1. HostTypeOK /\ DrainInv => NothingBlocksTheDrain
  <2> SUFFICES ASSUME HostTypeOK, DrainInv, ~Terminal, lease.state # "released",
                      NEW r \in files, PredecessorSettled(r) \/ Recorded(r)
               PROVE  SettlementAccepted(r, lease)
    BY DEF NothingBlocksTheDrain
  <2>1. r \in Receipt
    BY DEF HostTypeOK, DriveTypeOK
  <2>2. ContextOK(r)
    BY <2>1 DEF DrainInv, Told, Seen, Story, ContextOK, MakerContextOK, ChildAcquired
  <2>3. ASSUME Recorded(r) PROVE AlreadySettled(r, lease)
    <3>1. PICK i \in 1..Len(log) : log[i].type = "receipt" /\ log[i].of = r
      BY <2>3 DEF Recorded, EventsOf
    <3>2. Stands(log, i) /\ Attributed(i)
      BY <3>1 DEF DrainInv, EventsInv
    <3>3. EventsOf(r) = {i}
      BY <3>1, <3>2 DEF Stands, EventsOf
    <3>4. ExactEvent(i, r)
      BY <3>1, <3>2 DEF Stands, Attributed, ExactEvent
    <3>5. PredecessorSettled(r)
      BY <3>1, <3>2 DEF Stands, PredecessorSettled, Recorded, EventsOf
    <3> QED
      BY <2>2, <3>3, <3>4, <3>5 DEF AlreadySettled, FencedBy
  <2>4. ASSUME ~Recorded(r) PROVE MaySettle(r, lease)
    BY <2>2, <2>4 DEF MaySettle, FencedBy, LeaseCheck
  <2> QED
    BY <2>3, <2>4 DEF SettlementAccepted
<1> QED
  BY <1>1, InitDrain, NextDrain, HostTyping, PTL DEF Spec
=============================================================================
