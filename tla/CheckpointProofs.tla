-------------------------- MODULE CheckpointProofs --------------------------
(* What the checkpoints promise, for any evidence, any number of checkpoints *)
(* that are kept, of writes and of calls that are killed.                    *)
EXTENDS Checkpoint, FiniteSetTheorems, WellFoundedInduction, TLAPS

Key      == [of : Nat, gen : Nat, evidence : Evidence]
Cursor   == [key : Key, version : Nat]
Run      == [version : Nat, gen : Nat, bound : BOOLEAN, paused : BOOLEAN,
             cursor : Cursor \cup {None}, cycle : Nat]
Intent   == [key : Key, adm : Admissions \cup {None}, base : Nat]
Restored == [key : Key, at : Nat, gen : Nat]
Pruning  == {"receipt", "checkpoint", "tombstone"}
CallType == [verb : Verbs, key : Key, adm : Admissions \cup {None},
             pc : {"reconcile", "prune", "restore", "clean"} \cup Pruning,
             victim : Key \cup {None}, then : {"reconcile", "refuse", "prune"}]

CheckpointTypeOK ==
  /\ run \in Run /\ files \in Seq(Key) /\ receipts \in SUBSET Key /\ tombs \in SUBSET Key
  /\ intent \in Intent \cup {None} /\ restored \in Seq(Restored)
  /\ call \in CallType \cup {None} /\ made \in Key \cup {None}

-----------------------------------------------------------------------------
(* A set of positions has a first and a last one.                            *)
LEMMA FirstOf ==
  ASSUME NEW S \in SUBSET Nat, S # {}
  PROVE  \E x \in S : \A y \in S : x <= y
<1> DEFINE R == OpToRel(<, Nat)
<1>1. PICK x \in S : \A y \in S : ~(<<y, x>> \in R)
  <2>1. IsWellFoundedOn(R, Nat)
    BY NatLessThanWellFounded
  <2> HIDE DEF R
  <2> QED
    BY <2>1, WFMin
<1>2. ASSUME NEW y \in S, y < x PROVE FALSE
  <2>1. <<y, x>> \in Nat \X Nat /\ <<y, x>>[1] < <<y, x>>[2]
    BY <1>2
  <2>2. <<y, x>> \in R
    BY <2>1 DEF OpToRel
  <2> QED
    BY <1>1, <2>2
<1> QED
  BY <1>2

LEMMA LastOf ==
  ASSUME NEW n \in Nat, NEW S \in SUBSET (1..n), S # {}
  PROVE  \E x \in S : \A y \in S : y <= x
<1> DEFINE T == {n - i : i \in S}
<1>1. T \in SUBSET Nat /\ T # {}
  <2>1. \A i \in S : n - i \in Nat
    OBVIOUS
  <2> QED
    BY <2>1
<1>2. PICK x \in T : \A y \in T : x <= y
  <2> HIDE DEF T
  <2> QED
    BY <1>1, FirstOf
<1>3. PICK i \in S : x = n - i
  OBVIOUS
<1>4. ASSUME NEW j \in S PROVE j <= i
  <2>1. n - j \in T
    OBVIOUS
  <2>2. x <= n - j
    BY <1>2, <2>1
  <2> QED
    BY <1>3, <2>2
<1> QED
  BY <1>4

-----------------------------------------------------------------------------
Distinct == \A i, j \in 1..Len(files) : files[i] = files[j] => i = j

LEMMA PositionIn ==
  ASSUME files \in Seq(Key), NEW k \in Files
  PROVE  Position(k) \in 1..Len(files) /\ files[Position(k)] = k
  BY DEF Position, Files

LEMMA OldestIn ==
  ASSUME files \in Seq(Key), NEW S \in SUBSET Files, S # {}
  PROVE  OldestOf(S) \in S /\ \A l \in S : Position(OldestOf(S)) <= Position(l)
<1> DEFINE T == {Position(k) : k \in S}
<1>1. T \in SUBSET Nat /\ T # {}
  BY PositionIn
<1>2. PICK x \in T : \A y \in T : x <= y
  <2> HIDE DEF T
  <2> QED
    BY <1>1, FirstOf
<1>3. PICK k \in S : x = Position(k)
  OBVIOUS
<1>4. \A l \in S : Position(k) <= Position(l)
  BY <1>2, <1>3
<1> QED
  BY <1>4 DEF OldestOf

LEMMA NewestIn ==
  ASSUME files \in Seq(Key), NEW S \in SUBSET Files, S # {}
  PROVE  NewestOf(S) \in S
<1> DEFINE T == {Position(k) : k \in S}
<1>1. T \in SUBSET (1..Len(files)) /\ T # {} /\ Len(files) \in Nat
  BY PositionIn
<1>2. PICK x \in T : \A y \in T : y <= x
  <2> HIDE DEF T
  <2> QED
    BY <1>1, LastOf
<1>3. PICK k \in S : x = Position(k)
  OBVIOUS
<1>4. \A l \in S : Position(l) <= Position(k)
  BY <1>2, <1>3
<1> QED
  BY <1>4 DEF NewestOf

(* A file that is taken away leaves the others, in their order.              *)
LEMMA WithoutFile ==
  ASSUME files \in Seq(Key), Distinct, NEW k
  PROVE  /\ Without(k) \in Seq(Key)
         /\ {Without(k)[i] : i \in 1..Len(Without(k))} = Files \ {k}
         /\ \A i, j \in 1..Len(Without(k)) : Without(k)[i] = Without(k)[j] => i = j
         /\ files # <<>> /\ files[Len(files)] # k =>
              Without(k) # <<>> /\ Without(k)[Len(Without(k))] = files[Len(files)]
<1>1. CASE k \notin Files
  BY <1>1 DEF Without, Files, Distinct
<1>2. CASE k \in Files
  <2> DEFINE n == Len(files)
             p == Position(k)
             f(i) == IF i < p THEN i ELSE i + 1
             w == [i \in 1..(n - 1) |-> files[f(i)]]
  <2>1. Without(k) = w
    BY <1>2 DEF Without
  <2>2. p \in 1..n /\ files[p] = k /\ n \in Nat /\ files \in [1..n -> Key]
    BY <1>2, PositionIn
  <2> HIDE DEF p, n
  <2>3. \A i \in 1..(n - 1) : f(i) \in 1..n /\ f(i) # p /\ w[i] = files[f(i)]
    BY <2>2
  <2>4. w \in Seq(Key) /\ Len(w) = n - 1
    <3>1. w \in [1..(n - 1) -> Key] /\ n - 1 \in Nat
      BY <2>2, <2>3
    <3> QED
      BY <3>1
  <2>5. \A j \in 1..n : j # p => \E i \in 1..(n - 1) : f(i) = j
    <3> SUFFICES ASSUME NEW j \in 1..n, j # p PROVE \E i \in 1..(n - 1) : f(i) = j
      OBVIOUS
    <3>1. CASE j < p
      <4>1. j \in 1..(n - 1) /\ f(j) = j
        BY <2>2, <3>1
      <4> QED
        BY <4>1
    <3>2. CASE j > p
      <4>1. j - 1 \in 1..(n - 1) /\ f(j - 1) = j
        BY <2>2, <3>2
      <4> QED
        BY <4>1
    <3> QED
      BY <2>2, <3>1, <3>2
  <2>6. \A i, j \in 1..(n - 1) : f(i) = f(j) => i = j
    BY <2>2
  <2>7. \A i, j \in 1..n : files[i] = files[j] => i = j
    BY DEF Distinct, n
  <2>8. Files = {files[i] : i \in 1..n}
    BY DEF Files, n
  <2> HIDE DEF f, w
  <2>9. {w[i] : i \in 1..(n - 1)} = Files \ {k}
    <3>1. \A i \in 1..(n - 1) : w[i] \in Files \ {k}
      BY <2>2, <2>3, <2>7, <2>8
    <3>2. ASSUME NEW l \in Files \ {k} PROVE \E i \in 1..(n - 1) : w[i] = l
      <4>1. PICK j \in 1..n : files[j] = l
        BY <2>8
      <4>2. j # p
        BY <2>2, <4>1
      <4> QED
        BY <2>3, <2>5, <4>1, <4>2
    <3> QED
      BY <3>1, <3>2
  <2>10. \A i, j \in 1..(n - 1) : w[i] = w[j] => i = j
    BY <2>3, <2>6, <2>7
  <2>11. ASSUME files[n] # k PROVE n - 1 \in 1..(n - 1) /\ w[n - 1] = files[n]
    <3>1. p # n /\ p <= n - 1
      BY <2>2, <2>11
    <3>2. n - 1 \in 1..(n - 1) /\ f(n - 1) = n
      BY <2>2, <3>1 DEF f
    <3> QED
      BY <2>3, <3>2
  <2>12. Len(files) = n
    BY DEF n
  <2>13. files[n] # k => w # <<>>
    BY <2>2, <2>4, <2>11
  <2> QED
    BY <2>1, <2>4, <2>9, <2>10, <2>11, <2>12, <2>13
<1> QED
  BY <1>1, <1>2

-----------------------------------------------------------------------------
(* Every variable of the checkpoints keeps its type.                         *)
LEMMA InitTyped == Init => CheckpointTypeOK
  BY DEF Init, CheckpointTypeOK, Run

LEMMA StepsTyped ==
  ASSUME CheckpointTypeOK, call # None
  PROVE  /\ call \in CallType
         /\ \A p \in {"reconcile", "prune", "restore", "clean"} \cup Pruning : Goto(p) =>
              call' \in CallType /\ call'.pc = p /\ call'.verb = call.verb /\ call'.key = call.key
              /\ call'.adm = call.adm /\ call'.victim = call.victim /\ call'.then = call.then
  BY DEF CheckpointTypeOK, CallType, Goto, Pruning

LEMMA WriteTyped ==
  ASSUME CheckpointTypeOK, NEW next \in Run, Write(next)
  PROVE  CheckpointTypeOK'
<1>1. run' \in Run
  BY DEF Write, Run
<1> QED
  BY <1>1 DEF Write, CheckpointTypeOK

LEMMA NextTyped == CheckpointTypeOK /\ [Next]_vars => CheckpointTypeOK'
<1> SUFFICES ASSUME CheckpointTypeOK, [Next]_vars PROVE CheckpointTypeOK'
  OBVIOUS
<1> USE DEF Pruning
<1>1. CASE UNCHANGED vars
  BY <1>1 DEF vars, disk, CheckpointTypeOK
<1>2. CASE Work \/ CloseScope \/ BindScope \/ PauseRun \/ AcquireLease
  <2>1. run \in Run
    BY DEF CheckpointTypeOK
  <2>2. /\ [run EXCEPT !.bound = FALSE] \in Run /\ [run EXCEPT !.bound = TRUE] \in Run
        /\ [run EXCEPT !.paused = TRUE] \in Run
    BY <2>1 DEF Run
  <2>3. [run EXCEPT !.gen = @ + 1, !.paused = FALSE, !.bound = FALSE, !.cursor = None, !.cycle = 0] \in Run
    <3> DEFINE g == run.gen + 1
    <3>1. g \in Nat /\ 0 \in Nat /\ run.gen \in Nat
      BY <2>1 DEF Run
    <3>2. [run EXCEPT !.gen = g, !.paused = FALSE, !.bound = FALSE, !.cursor = None, !.cycle = 0] \in Run
      <4> HIDE DEF g
      <4> QED
        BY <2>1, <3>1, Zenon DEF Run
    <3> QED
      BY <3>2
  <2> QED
    BY <1>2, <2>1, <2>2, <2>3, WriteTyped DEF Work, CloseScope, BindScope, PauseRun, AcquireLease
<1>3. CASE StartEmit \/ StartObserve \/ StartRestore
  <2>1. UNCHANGED disk /\ UNCHANGED made
    BY <1>3 DEF StartEmit, StartObserve, StartRestore, Same
  <2>2. \A ev \in Evidence : Context(ev) \in Key
    BY DEF Context, Key, CheckpointTypeOK, Run
  <2>3. files # <<>> => files[Len(files)] \in Key
    BY DEF CheckpointTypeOK
  <2>4. Files \subseteq Key
    BY DEF Files, CheckpointTypeOK
  <2>5. call' \in CallType
    BY <1>3, <2>2, <2>3, <2>4 DEF StartEmit, StartObserve, StartRestore, Call, CallType, Verbs
  <2> QED
    BY <2>1, <2>5 DEF CheckpointTypeOK, disk
<1>4. CASE Reconcile
  <2>1. Doomed \subseteq tombs /\ UNCHANGED disk /\ UNCHANGED made /\ call # None
    BY <1>4 DEF Doomed, Reconcile, Same, Holds
  <2>2. call' \in CallType
    BY <1>4, <2>1 DEF Reconcile, CheckpointTypeOK, CallType
  <2> QED
    BY <2>1, <2>2 DEF CheckpointTypeOK, disk
<1>5. CASE UnlinkReceipt
  BY <1>5, StepsTyped DEF UnlinkReceipt, Holds, CheckpointTypeOK
<1>6. CASE UnlinkCheckpoint
  <2>1. Without(call.victim) \in Seq(Key)
    <3>1. CASE call.victim \notin Files
      BY <3>1 DEF Without, CheckpointTypeOK
    <3>2. CASE call.victim \in Files
      <4> DEFINE n == Len(files)
                 p == Position(call.victim)
      <4>1. n \in Nat /\ files \in [1..n -> Key] /\ p \in 1..n
        BY <3>2, PositionIn DEF CheckpointTypeOK
      <4>2. Without(call.victim) = [i \in 1..(n - 1) |-> files[IF i < p THEN i ELSE i + 1]]
        BY <3>2 DEF Without
      <4> HIDE DEF n, p
      <4>3. Without(call.victim) \in [1..(n - 1) -> Key] /\ n - 1 \in Nat
        BY <4>1, <4>2
      <4> QED
        BY <4>3
    <3> QED
      BY <3>1, <3>2
  <2> QED
    BY <1>6, <2>1, StepsTyped DEF UnlinkCheckpoint, Holds, CheckpointTypeOK
<1>7. CASE UnlinkTombstone
  <2>1. call' \in CallType \cup {None}
    BY <1>7 DEF UnlinkTombstone, Holds, Done, CheckpointTypeOK, CallType
  <2> QED
    BY <1>7, <2>1 DEF UnlinkTombstone, CheckpointTypeOK
<1>8. CASE WriteCheckpoint
  <2>1. call \in CallType /\ call' \in CallType
    BY <1>8, StepsTyped DEF WriteCheckpoint, Holds
  <2>2. files' \in Seq(Key) /\ made' \in Key \cup {None}
    BY <1>8, <2>1 DEF WriteCheckpoint, CheckpointTypeOK, CallType
  <2> QED
    BY <1>8, <2>1, <2>2 DEF WriteCheckpoint, CheckpointTypeOK
<1>9. CASE WriteReceipt
  <2>1. call \in CallType /\ call' \in CallType
    BY <1>9, StepsTyped DEF WriteReceipt, Holds
  <2> QED
    BY <1>9, <2>1 DEF WriteReceipt, CheckpointTypeOK, CallType
<1>10. CASE RefuseObserve \/ FinishPrune \/ ReplayRestore \/ RefuseRestore \/ Crash
  BY <1>10 DEF RefuseObserve, FinishPrune, ReplayRestore, RefuseRestore, Crash, Done, Same, disk,
     CheckpointTypeOK
<1>11. CASE WriteTombstone
  <2>1. OldestOf(Prunable) \in Key /\ call # None
    <3>1. Prunable \subseteq Files /\ Prunable # {} /\ Files \subseteq Key
      BY <1>11 DEF WriteTombstone, Prunable, Files, CheckpointTypeOK
    <3> QED
      BY <1>11, <3>1, OldestIn DEF CheckpointTypeOK, WriteTombstone, Holds
  <2>2. call' \in CallType
    BY <1>11, <2>1 DEF WriteTombstone, CheckpointTypeOK, CallType
  <2> QED
    BY <1>11, <2>1, <2>2 DEF WriteTombstone, CheckpointTypeOK
<1>12. CASE WriteIntent
  <2>1. call \in CallType /\ call' \in CallType /\ call.adm \in Admissions \cup {None}
    BY <1>12, StepsTyped DEF WriteIntent, Ready, Holds, CallType
  <2> QED
    BY <1>12, <2>1 DEF WriteIntent, CheckpointTypeOK, CallType, Intent, Run
<1>13. CASE ResumeIntent
  BY <1>13, StepsTyped DEF ResumeIntent, Ready, Holds, Same, disk, CheckpointTypeOK
<1>14. CASE CommitRestore
  <2>1. call \in CallType /\ call' \in CallType
    BY <1>14, StepsTyped DEF CommitRestore, Holds
  <2>2. run' \in Run /\ restored' \in Seq(Restored)
    <3>1. CASE ~Uncommitted
      BY <1>14, <3>1 DEF CommitRestore, CheckpointTypeOK
    <3>2. CASE Uncommitted
      <4>1. [key |-> call.key, at |-> run.version, gen |-> run.gen] \in Restored
        BY <2>1 DEF CallType, Restored, CheckpointTypeOK, Run
      <4>2. restored' \in Seq(Restored)
        BY <1>14, <3>2, <4>1 DEF CommitRestore, CheckpointTypeOK
      <4>3. [key |-> call.key, version |-> run.version + 1] \in Cursor
        BY <2>1 DEF CallType, Cursor, CheckpointTypeOK, Run
      <4>4. run' \in Run
        <5> DEFINE c == [key |-> call.key, version |-> run.version + 1]
                   v == run.version + 1
                   n == run.cycle + 1
        <5>1. run' = [run EXCEPT !.version = v, !.cycle = n, !.cursor = c]
          BY <1>14, <3>2 DEF CommitRestore
        <5>2. c \in Cursor /\ run \in Run /\ v \in Nat /\ n \in Nat
          BY <4>3 DEF CheckpointTypeOK, Run
        <5> HIDE DEF c, v, n
        <5> QED
          BY <5>1, <5>2 DEF Run
      <4> QED
        BY <4>2, <4>4
    <3> QED
      BY <3>1, <3>2
  <2> QED
    BY <1>14, <2>1, <2>2 DEF CommitRestore, CheckpointTypeOK
<1>15. CASE RemoveIntent
  BY <1>15 DEF RemoveIntent, Done, CheckpointTypeOK
<1> QED
  BY <1>1, <1>2, <1>3, <1>4, <1>5, <1>6, <1>7, <1>8, <1>9, <1>10, <1>11, <1>12, <1>13, <1>14, <1>15
     DEF Next, Step

-----------------------------------------------------------------------------
(* A call runs on a run that stays mutable; only a restore meets an intent,  *)
(* and commits that one; what is unlinked is under its tombstone.            *)
Working == call # None =>
  /\ Mutable
  /\ call.verb # "restore" => intent = None
  /\ call.pc = "restore" => intent.key = call.key /\ intent.base = call.key.of
  /\ call.pc \in Pruning => call.victim \in tombs

BaseOK == intent # None => intent.base = intent.key.of

(* The checkpoint that was written last is the last file.                    *)
Spared == made # None => files # <<>> /\ files[Len(files)] = made /\ made \notin tombs

(* The log of the restores is of the past; the cursor names one of them.     *)
Past == \A i \in 1..Len(restored) : restored[i].at < run.version /\ restored[i].gen <= run.gen

CursorLogged == run.cursor # None => \E i \in 1..Len(restored) : restored[i].key = run.cursor.key

CheckInv == /\ CheckpointTypeOK
            /\ Working /\ BaseOK /\ IntentCompletable
            /\ Distinct /\ Spared
            /\ Past /\ CursorLogged /\ RestoresItsState /\ RestoredOnce

Writers == Work \/ CloseScope \/ BindScope \/ PauseRun \/ AcquireLease

Leaves == RefuseObserve \/ FinishPrune \/ ReplayRestore \/ RefuseRestore \/ Crash

-----------------------------------------------------------------------------
LEMMA NextWorking ==
  ASSUME CheckpointTypeOK, Working, BaseOK, [Next]_vars PROVE Working'
<1> USE DEF Pruning
<1>1. CASE UNCHANGED vars
  BY <1>1 DEF vars, disk, Working, Mutable
<1>2. CASE Writers
  BY <1>2 DEF Writers, Work, CloseScope, BindScope, PauseRun, AcquireLease, Write, Unblocked, Working
<1>3. CASE StartEmit \/ StartObserve \/ StartRestore
  <2>1. /\ Mutable' /\ UNCHANGED <<intent, tombs>>
        /\ call'.pc = "reconcile" /\ (call'.verb # "restore" => intent = None)
    BY <1>3 DEF StartEmit, StartObserve, StartRestore, Call, Unblocked, Same, disk, Mutable
  <2> QED
    BY <2>1 DEF Working
<1>4. CASE Reconcile
  <2>1. /\ UNCHANGED <<run, intent, tombs>> /\ call # None /\ call'.verb = call.verb
        /\ call'.pc = "receipt" /\ call'.victim \in tombs
    BY <1>4 DEF Reconcile, Holds, Same, disk, Doomed, CheckpointTypeOK, CallType
  <2> QED
    BY <2>1 DEF Working, Mutable
<1>5. CASE UnlinkReceipt \/ UnlinkCheckpoint
  <2>1. /\ UNCHANGED <<run, intent, tombs>> /\ call # None /\ call'.verb = call.verb
        /\ call.pc \in Pruning /\ call'.pc \in Pruning /\ call'.victim = call.victim
    BY <1>5, StepsTyped DEF UnlinkReceipt, UnlinkCheckpoint, Holds
  <2> QED
    BY <2>1 DEF Working, Mutable
<1>6. CASE UnlinkTombstone
  <2>1. /\ UNCHANGED <<run, intent>> /\ call # None
        /\ call' # None => call'.verb = call.verb /\ call'.pc \in {"reconcile", "prune"}
    BY <1>6 DEF UnlinkTombstone, Holds, Done, CheckpointTypeOK, CallType
  <2> QED
    BY <2>1 DEF Working, Mutable
<1>7. CASE WriteCheckpoint \/ WriteReceipt
  <2>1. /\ UNCHANGED <<run, intent, tombs>> /\ call # None /\ call'.verb = call.verb
        /\ call'.pc = "prune"
    BY <1>7, StepsTyped DEF WriteCheckpoint, WriteReceipt, Holds
  <2> QED
    BY <2>1 DEF Working, Mutable
<1>8. CASE WriteTombstone
  <2>1. /\ UNCHANGED <<run, intent>> /\ call # None /\ call'.verb = call.verb
        /\ call'.pc = "receipt" /\ call'.victim \in tombs'
    BY <1>8 DEF WriteTombstone, Holds, CheckpointTypeOK, CallType
  <2> QED
    BY <2>1 DEF Working, Mutable
<1>9. CASE Leaves \/ RemoveIntent
  BY <1>9 DEF Leaves, RefuseObserve, FinishPrune, ReplayRestore, RefuseRestore, Crash, RemoveIntent,
     Done, Working
<1>10. CASE WriteIntent
  <2>1. /\ UNCHANGED run /\ call # None /\ call'.verb = "restore" /\ call'.pc = "restore"
        /\ call'.key = call.key /\ intent'.key = call.key /\ intent'.base = run.version
    BY <1>10, StepsTyped DEF WriteIntent, Ready, Holds
  <2>2. call.key.of = run.version
    BY <1>10 DEF WriteIntent, Restorable, Current, Context
  <2> QED
    BY <2>1, <2>2 DEF Working, Mutable
<1>11. CASE ResumeIntent
  <2>1. /\ UNCHANGED <<run, intent>> /\ call # None /\ call'.verb = "restore"
        /\ call'.pc = "restore" /\ call'.key = call.key /\ intent # None /\ intent.key = call.key
    BY <1>11, StepsTyped DEF ResumeIntent, Ready, Holds, Bound, Same, disk
  <2> QED
    BY <2>1 DEF Working, BaseOK, Mutable
<1>12. CASE CommitRestore
  <2>1. /\ call # None /\ call'.verb = "restore" /\ call'.pc = "clean"
    BY <1>12, StepsTyped DEF CommitRestore, Holds
  <2>2. run'.bound = run.bound /\ run'.paused = run.paused
    BY <1>12 DEF CommitRestore, CheckpointTypeOK, Run
  <2> QED
    BY <2>1, <2>2 DEF Working, Mutable
<1> QED
  BY <1>1, <1>2, <1>3, <1>4, <1>5, <1>6, <1>7, <1>8, <1>9, <1>10, <1>11, <1>12
     DEF Next, Step, Writers, Leaves

-----------------------------------------------------------------------------
(* What is unlinked under its tombstone is not the last file; and of three   *)
(* files or more, the oldest that may be pruned is not the last one.         *)
LEMMA OldestIsNotLast ==
  ASSUME CheckpointTypeOK, Distinct, intent = None, Prunable # {}
  PROVE  OldestOf(Prunable) \in Files /\ OldestOf(Prunable) # files[Len(files)]
<1> DEFINE n == Len(files)
<1>1. n \in Nat /\ n > 2 /\ Prunable = Files \ {call.key}
  BY KeepAssumption DEF Prunable, Pinned, CheckpointTypeOK
<1>2. /\ OldestOf(Prunable) \in Prunable
      /\ \A l \in Prunable : Position(OldestOf(Prunable)) <= Position(l)
  BY <1>1, OldestIn DEF CheckpointTypeOK
<1>3. \A i \in 1..n : files[i] \in Files /\ Position(files[i]) = i
  BY PositionIn DEF CheckpointTypeOK, Files, Distinct
<1>4. PICK i \in {1, 2} : files[i] # call.key
  <2>1. 1 \in 1..n /\ 2 \in 1..n
    BY <1>1
  <2> QED
    BY <2>1 DEF Distinct
<1>5. i \in 1..n /\ files[i] \in Prunable /\ i < n
  BY <1>1, <1>3, <1>4
<1>6. Position(OldestOf(Prunable)) <= i
  BY <1>2, <1>3, <1>5
<1>7. n \in 1..n
  BY <1>1
<1> QED
  BY <1>1, <1>2, <1>3, <1>5, <1>6, <1>7

(* One step of the action property PruneSpares.                              *)
Spares == /\ \A k \in receipts : k \notin receipts' => k \in tombs /\ k \in tombs'
          /\ made # None => made \in Files' \ tombs'

LEMMA MadeIsThere ==
  ASSUME CheckpointTypeOK, Spared, made # None PROVE made \in Files \ tombs
  BY DEF CheckpointTypeOK, Spared, Files

LEMMA UnlinkedFile ==
  ASSUME CheckpointTypeOK, Distinct, NEW k, files' = Without(k)
  PROVE  /\ Files' = Files \ {k} /\ Distinct'
         /\ files # <<>> /\ files[Len(files)] # k =>
              files' # <<>> /\ files'[Len(files')] = files[Len(files)]
<1> DEFINE w == Without(k)
<1>1. /\ {w[i] : i \in 1..Len(w)} = Files \ {k}
      /\ \A i, j \in 1..Len(w) : w[i] = w[j] => i = j
      /\ files # <<>> /\ files[Len(files)] # k => w # <<>> /\ w[Len(w)] = files[Len(files)]
  BY WithoutFile DEF CheckpointTypeOK
<1> HIDE DEF w
<1>2. files' = w
  BY DEF w
<1>3. Files' = {w[i] : i \in 1..Len(w)}
  BY <1>2 DEF Files
<1>4. Distinct'
  BY <1>1, <1>2 DEF Distinct
<1> QED
  BY <1>1, <1>2, <1>3, <1>4

LEMMA NextFiles ==
  ASSUME CheckpointTypeOK, Working, Distinct, Spared, [Next]_vars
  PROVE  Distinct' /\ Spared' /\ Spares
<1>1. ASSUME UNCHANGED <<files, tombs, made>>, receipts \subseteq receipts'
      PROVE  Distinct' /\ Spared' /\ Spares
  BY <1>1, MadeIsThere DEF Distinct, Spared, Spares, Files
<1>2. CASE UNCHANGED vars \/ Writers \/ StartEmit \/ StartObserve \/ StartRestore \/ Reconcile
           \/ WriteReceipt \/ Leaves \/ WriteIntent \/ ResumeIntent \/ CommitRestore \/ RemoveIntent
  BY <1>1, <1>2 DEF vars, disk, Same, Writers, Work, CloseScope, BindScope, PauseRun, AcquireLease, Write,
     StartEmit, StartObserve, StartRestore, Reconcile, WriteReceipt, Leaves, RefuseObserve,
     FinishPrune, ReplayRestore, RefuseRestore, Crash, WriteIntent, ResumeIntent, CommitRestore,
     RemoveIntent
<1>3. CASE UnlinkReceipt
  <2>1. /\ receipts' = receipts \ {call.victim} /\ UNCHANGED <<files, tombs, made>>
        /\ call.victim \in tombs
    BY <1>3 DEF UnlinkReceipt, Holds, Working, Pruning
  <2> QED
    BY <2>1, MadeIsThere DEF Distinct, Spared, Spares, Files
<1>4. CASE UnlinkCheckpoint
  <2>1. /\ files' = Without(call.victim) /\ UNCHANGED <<receipts, tombs, made>>
        /\ call.victim \in tombs
    BY <1>4 DEF UnlinkCheckpoint, Holds, Working, Pruning
  <2>2. /\ Files' = Files \ {call.victim} /\ Distinct'
        /\ files # <<>> /\ files[Len(files)] # call.victim =>
             files' # <<>> /\ files'[Len(files')] = files[Len(files)]
    BY <2>1, UnlinkedFile
  <2>3. Spared'
    BY <2>1, <2>2 DEF Spared
  <2> QED
    BY <2>1, <2>2, <2>3, MadeIsThere DEF Spares
<1>5. CASE UnlinkTombstone
  BY <1>5, MadeIsThere DEF UnlinkTombstone, Distinct, Spared, Spares, Files
<1>6. CASE WriteCheckpoint
  <2>1. tombs = {} /\ UNCHANGED <<tombs, receipts>> /\ call \in CallType
    BY <1>6, StepsTyped DEF WriteCheckpoint, Holds, Doomed
  <2>2. CASE call.key \in Files
    BY <1>1, <1>6, <2>1, <2>2 DEF WriteCheckpoint
  <2>3. CASE call.key \notin Files
    <3> DEFINE n == Len(files)
    <3>1. /\ files' = Append(files, call.key) /\ made' = call.key /\ call.key \in Key
          /\ files \in Seq(Key)
      BY <1>6, <2>1, <2>3 DEF WriteCheckpoint, CheckpointTypeOK, CallType
    <3>2. /\ Len(files') = n + 1 /\ n \in Nat /\ files'[n + 1] = call.key /\ files' # <<>>
          /\ \A i \in 1..n : files'[i] = files[i]
      BY <3>1
    <3>3. \A i \in 1..n : files[i] # call.key
      BY <2>3 DEF Files
    <3> HIDE DEF n
    <3>4. Distinct'
      <4> SUFFICES ASSUME NEW i \in 1..(n + 1), NEW j \in 1..(n + 1), files'[i] = files'[j]
                   PROVE  i = j
        BY <3>2 DEF Distinct
      <4>1. \A k \in 1..(n + 1) : k = n + 1 \/ k \in 1..n
        BY <3>2
      <4>2. n = Len(files)
        BY DEF n
      <4> QED
        BY <3>2, <3>3, <4>1, <4>2 DEF Distinct
    <3>5. Files \subseteq Files'
      <4> SUFFICES ASSUME NEW i \in 1..n PROVE files[i] \in Files'
        BY DEF Files, n
      <4>1. i \in 1..(n + 1) /\ files'[i] = files[i]
        BY <3>2
      <4> QED
        BY <3>2, <4>1 DEF Files
    <3>6. Spared'
      BY <2>1, <3>1, <3>2 DEF Spared
    <3> QED
      BY <2>1, <3>4, <3>5, <3>6, MadeIsThere DEF Spares
  <2> QED
    BY <2>2, <2>3
<1>7. CASE WriteTombstone
  <2>1. /\ tombs' = tombs \cup {OldestOf(Prunable)} /\ UNCHANGED <<files, receipts, made>>
        /\ intent = None /\ Prunable # {}
    BY <1>7 DEF WriteTombstone, Holds, Working
  <2>2. OldestOf(Prunable) # files[Len(files)]
    BY <2>1, OldestIsNotLast
  <2>3. Spared' /\ Distinct'
    BY <2>1, <2>2 DEF Spared, Distinct
  <2>4. made # None => made \in Files' /\ made \notin tombs'
    BY <2>1, <2>2, MadeIsThere DEF Spared, Files
  <2> QED
    BY <2>1, <2>3, <2>4 DEF Spares
<1> QED
  BY <1>2, <1>3, <1>4, <1>5, <1>6, <1>7 DEF Next, Step, Writers, Leaves

-----------------------------------------------------------------------------
(* While a restore is pending nothing but itself moves the run or takes its  *)
(* files.                                                                    *)
LEMMA NextIntent ==
  ASSUME CheckpointTypeOK, Working, BaseOK, Distinct, IntentCompletable, [Next]_vars
  PROVE  BaseOK' /\ IntentCompletable'
<1>1. ASSUME intent' = None PROVE BaseOK' /\ IntentCompletable'
  BY <1>1 DEF BaseOK, IntentCompletable
<1>2. ASSUME UNCHANGED <<run, intent>>, intent # None,
             intent.key \in Files \ tombs => intent.key \in Files' \ tombs',
             intent.key \in receipts /\ intent.key \notin tombs => intent.key \in receipts'
      PROVE  BaseOK' /\ IntentCompletable'
  BY <1>2 DEF BaseOK, IntentCompletable, Mutable
<1>3. CASE UNCHANGED vars \/ Writers \/ StartEmit \/ StartObserve \/ StartRestore \/ Reconcile
           \/ Leaves \/ ResumeIntent
  <2>1. /\ intent' = None \/ UNCHANGED <<run, intent, files, tombs, receipts>>
    BY <1>3 DEF vars, disk, Same, Writers, Work, CloseScope, BindScope, PauseRun, AcquireLease, Write,
       Unblocked, StartEmit, StartObserve, StartRestore, Reconcile, Leaves, RefuseObserve,
       FinishPrune, ReplayRestore, RefuseRestore, Crash, ResumeIntent
  <2>2. CASE intent' # None /\ UNCHANGED <<run, intent, files, tombs, receipts>>
    BY <1>2, <2>2 DEF Files
  <2> QED
    BY <1>1, <2>1, <2>2
<1>4. CASE WriteCheckpoint \/ WriteReceipt \/ WriteTombstone
  <2>1. intent = None /\ UNCHANGED intent
    BY <1>4 DEF WriteCheckpoint, WriteReceipt, WriteTombstone, Holds, Working
  <2> QED
    BY <1>1, <2>1
<1>5. CASE UnlinkReceipt
  <2>1. /\ receipts' = receipts \ {call.victim} /\ UNCHANGED <<run, files, tombs, intent>>
        /\ call.victim \in tombs
    BY <1>5 DEF UnlinkReceipt, Holds, Working, Pruning
  <2> QED
    BY <1>1, <1>2, <2>1 DEF Files
<1>6. CASE UnlinkCheckpoint
  <2>1. /\ files' = Without(call.victim) /\ UNCHANGED <<run, receipts, tombs, intent>>
        /\ call.victim \in tombs
    BY <1>6 DEF UnlinkCheckpoint, Holds, Working, Pruning
  <2>2. Files' = Files \ {call.victim}
    BY <2>1, UnlinkedFile
  <2> QED
    BY <1>1, <1>2, <2>1, <2>2
<1>7. CASE UnlinkTombstone
  BY <1>1, <1>2, <1>7 DEF UnlinkTombstone, Files
<1>8. CASE WriteIntent
  <2>1. /\ UNCHANGED <<run, files, receipts, tombs>> /\ call \in CallType /\ call.verb = "restore"
        /\ Doomed = {} /\ Admitted /\ Restorable(call.key) /\ Mutable
        /\ intent' = [key |-> call.key, adm |-> call.adm, base |-> run.version]
    BY <1>8, StepsTyped DEF WriteIntent, Ready, Holds, Working
  <2>2. call.key \in Files \ tombs /\ call.key.of = run.version
    BY <2>1 DEF Doomed, Restorable, Current, Context
  <2>3. BaseOK'
    BY <2>1, <2>2 DEF BaseOK
  <2>4. IntentCompletable'
    BY <2>1, <2>2 DEF IntentCompletable, Admitted, Files, Mutable
  <2> QED
    BY <2>3, <2>4
<1>9. CASE CommitRestore
  <2>1. UNCHANGED <<files, receipts, tombs, intent>> /\ intent.key = call.key
    BY <1>9 DEF CommitRestore, Holds, Working
  <2>2. CASE ~Uncommitted
    BY <1>1, <1>2, <1>9, <2>1, <2>2 DEF CommitRestore, Files
  <2>3. CASE Uncommitted
    <3>1. /\ run'.version = run.version + 1 /\ run'.gen = run.gen /\ run'.bound = run.bound
          /\ run'.paused = run.paused
          /\ run'.cursor = [key |-> intent.key, version |-> intent.base + 1]
          /\ run.version = intent.base
      BY <1>9, <2>1, <2>3 DEF CommitRestore, CheckpointTypeOK, Run, Uncommitted
    <3> QED
      BY <2>1, <3>1 DEF BaseOK, IntentCompletable, Mutable, Files
  <2> QED
    BY <2>2, <2>3
<1>10. CASE RemoveIntent
  BY <1>1, <1>10 DEF RemoveIntent
<1> QED
  BY <1>3, <1>4, <1>5, <1>6, <1>7, <1>8, <1>9, <1>10 DEF Next, Step, Writers, Leaves

-----------------------------------------------------------------------------
Cycles(s, g) == {i \in 1..Len(s) : s[i].gen = g}

LEMMA CyclesFinite ==
  ASSUME NEW s \in Seq(Restored), NEW g
  PROVE  IsFiniteSet(Cycles(s, g)) /\ Cardinality(Cycles(s, g)) \in Nat
<1>1. IsFiniteSet(1..Len(s))
  BY FS_Interval
<1>2. Cycles(s, g) \subseteq 1..Len(s)
  BY DEF Cycles
<1> QED
  BY <1>1, <1>2, FS_Subset, FS_CardinalityType

LEMMA RestoredTyped ==
  ASSUME CheckpointTypeOK, NEW i \in 1..Len(restored)
  PROVE  restored[i].at \in Nat /\ restored[i].gen \in Nat
<1>1. restored[i] \in Restored
  BY DEF CheckpointTypeOK
<1> QED
  BY <1>1 DEF Restored

LEMMA NextRestored ==
  ASSUME CheckpointTypeOK, Working, Past, CursorLogged, RestoresItsState, RestoredOnce, [Next]_vars
  PROVE  Past' /\ CursorLogged' /\ RestoresItsState' /\ RestoredOnce'
<1>1. CASE UNCHANGED <<run, restored>>
  BY <1>1 DEF Past, CursorLogged, RestoresItsState, RestoredOnce
<1>2. CASE Work \/ CloseScope \/ BindScope \/ PauseRun
  <2>1. /\ UNCHANGED restored /\ run'.version = run.version + 1 /\ run'.gen = run.gen
        /\ run'.cursor = run.cursor /\ run'.cycle = run.cycle
    BY <1>2 DEF Work, CloseScope, BindScope, PauseRun, Write, CheckpointTypeOK, Run
  <2>2. Past'
    <3>1. \A i \in 1..Len(restored) : restored[i].at \in Nat
      BY RestoredTyped
    <3> QED
      BY <2>1, <3>1 DEF Past, CheckpointTypeOK, Run
  <2> QED
    BY <2>1, <2>2 DEF CursorLogged, RestoresItsState, RestoredOnce
<1>3. CASE AcquireLease
  <2>1. /\ UNCHANGED restored /\ run'.version = run.version + 1 /\ run'.gen = run.gen + 1
        /\ run'.cursor = None /\ run'.cycle = 0
    BY <1>3 DEF AcquireLease, Write, CheckpointTypeOK, Run
  <2>2. Past' /\ \A i \in 1..Len(restored) : restored[i].gen # run'.gen
    <3>1. \A i \in 1..Len(restored) : restored[i].at \in Nat /\ restored[i].gen \in Nat
      BY RestoredTyped
    <3> QED
      BY <2>1, <3>1 DEF Past, CheckpointTypeOK, Run
  <2>3. Cardinality({i \in 1..Len(restored) : restored[i].gen = run'.gen}) = 0
    <3>1. {i \in 1..Len(restored) : restored[i].gen = run'.gen} = {}
      BY <2>2
    <3> QED
      BY <3>1, FS_EmptySet
  <2> QED
    BY <2>1, <2>2, <2>3 DEF CursorLogged, RestoresItsState, RestoredOnce
<1>4. CASE CommitRestore /\ Uncommitted
  <2> DEFINE e == [key |-> call.key, at |-> run.version, gen |-> run.gen]
             n == Len(restored)
  <2>1. /\ restored' = Append(restored, e) /\ e \in Restored /\ restored \in Seq(Restored)
        /\ run'.version = run.version + 1 /\ run'.gen = run.gen /\ run'.cycle = run.cycle + 1
        /\ run'.cursor.key = call.key
    <3>1. call \in CallType /\ run \in Run /\ restored \in Seq(Restored)
      BY <1>4, StepsTyped DEF CommitRestore, Holds, CheckpointTypeOK
    <3>2. e \in Restored
      BY <3>1 DEF CallType, Run, Restored
    <3>3. /\ restored' = Append(restored, e)
          /\ run' = [run EXCEPT !.version = @ + 1, !.cycle = @ + 1,
                                !.cursor = [key |-> call.key, version |-> run.version + 1]]
      BY <1>4 DEF CommitRestore
    <3> HIDE DEF e
    <3>4. /\ run'.version = run.version + 1 /\ run'.gen = run.gen /\ run'.cycle = run.cycle + 1
          /\ run'.cursor.key = call.key
      BY <3>1, <3>3 DEF Run
    <3> QED
      BY <3>1, <3>2, <3>3, <3>4
  <2>2. e.at = e.key.of /\ e.key = call.key /\ e.at = run.version /\ e.gen = run.gen
    BY <1>4 DEF CommitRestore, Holds, Working, Uncommitted
  <2> HIDE DEF e
  <2>3. /\ Len(restored') = n + 1 /\ n \in Nat /\ restored'[n + 1] = e
        /\ \A i \in 1..n : restored'[i] = restored[i]
        /\ \A i \in 1..(n + 1) : i = n + 1 \/ i \in 1..n
    BY <2>1
  <2>4. \A i \in 1..n : restored[i].key # e.key /\ restored[i].at \in Nat /\ restored[i].gen \in Nat
    <3>1. run.version \in Nat
      BY DEF CheckpointTypeOK, Run
    <3> QED
      BY <2>2, <3>1, RestoredTyped DEF RestoresItsState, Past
  <2>5. run.version \in Nat /\ run.gen \in Nat
    BY DEF CheckpointTypeOK, Run
  <2>6. Past'
    BY <2>1, <2>2, <2>3, <2>4, <2>5 DEF Past
  <2>7. CursorLogged'
    <3>1. n + 1 \in 1..Len(restored') /\ restored'[n + 1].key = run'.cursor.key
      BY <2>1, <2>2, <2>3
    <3> QED
      BY <3>1 DEF CursorLogged
  <2>8. RestoresItsState'
    BY <2>2, <2>3 DEF RestoresItsState
  <2>9. \A i, j \in 1..Len(restored') : restored'[i].key = restored'[j].key => i = j
    BY <2>3, <2>4 DEF RestoredOnce
  <2>10. run'.cycle = Cardinality(Cycles(restored', run'.gen))
    <3>1. Cycles(restored', run'.gen) = Cycles(restored, run.gen) \cup {n + 1}
      BY <2>1, <2>2, <2>3 DEF Cycles
    <3>2. n + 1 \notin Cycles(restored, run.gen)
      BY <2>3 DEF Cycles
    <3>3. Cardinality(Cycles(restored, run.gen) \cup {n + 1}) = Cardinality(Cycles(restored, run.gen)) + 1
      BY <2>1, <3>2, CyclesFinite, FS_AddElement
    <3> QED
      BY <2>1, <3>1, <3>3 DEF RestoredOnce, Cycles
  <2> QED
    BY <2>6, <2>7, <2>8, <2>9, <2>10 DEF RestoredOnce, Cycles
<1> QED
  BY <1>1, <1>2, <1>3, <1>4 DEF Next, Step, vars, disk, Same, StartEmit, StartObserve, StartRestore,
     Reconcile, UnlinkReceipt, UnlinkCheckpoint, UnlinkTombstone, WriteCheckpoint, WriteReceipt,
     RefuseObserve, WriteTombstone, FinishPrune, WriteIntent, ResumeIntent, ReplayRestore,
     RefuseRestore, CommitRestore, RemoveIntent, Crash

-----------------------------------------------------------------------------
LEMMA InitCheck == Init => CheckInv
<1> SUFFICES ASSUME Init PROVE CheckInv
  OBVIOUS
<1>1. Len(restored) = 0 /\ Len(files) = 0
  BY DEF Init
<1>2. {i \in 1..Len(restored) : restored[i].gen = run.gen} = {}
  BY <1>1
<1>3. run.cycle = 0 /\ run.cursor = None
  BY DEF Init
<1> QED
  BY <1>1, <1>2, <1>3, InitTyped, FS_EmptySet DEF Init, CheckInv, Working, BaseOK, IntentCompletable, Distinct,
     Spared, Past, CursorLogged, RestoresItsState, RestoredOnce

LEMMA NextCheck == CheckInv /\ [Next]_vars => CheckInv'
  BY NextTyped, NextWorking, NextIntent, NextFiles, NextRestored DEF CheckInv

LEMMA CheckHolds == Spec => []CheckInv
  BY InitCheck, NextCheck, PTL DEF Spec

(* Whatever is killed and whatever is called meanwhile, a restore that has   *)
(* begun finds the files it was admitted by and the run that it found or     *)
(* made.                                                                     *)
THEOREM RestoresComplete == Spec => []IntentCompletable
<1>1. CheckInv => IntentCompletable
  BY DEF CheckInv
<1> QED
  BY <1>1, CheckHolds, PTL

(* However a restore is killed, asked for again or beaten by another one, it *)
(* extends the very state its checkpoint was taken of.                       *)
THEOREM RestoreExtendsItsState == Spec => []RestoresItsState
<1>1. CheckInv => RestoresItsState
  BY DEF CheckInv
<1> QED
  BY <1>1, CheckHolds, PTL

(* A checkpoint is restored at most once, and the cycle a session shows is   *)
(* the number of restores it has made.                                       *)
THEOREM RestoresOnce == Spec => []RestoredOnce
<1>1. CheckInv => RestoredOnce
  BY DEF CheckInv
<1> QED
  BY <1>1, CheckHolds, PTL

(* Pruning takes a receipt only under the tombstone that takes the           *)
(* checkpoint too, and never the checkpoint that was written last.           *)
THEOREM PruningSpares == Spec => PruneSpares
<1>1. CheckInv /\ [Next]_vars => [Spares]_vars
  BY NextFiles DEF CheckInv
<1> QED
  BY <1>1, CheckHolds, PTL DEF Spec, PruneSpares, Spares

(* What the SessionStart hook names can be restored as it says.              *)
THEOREM OffersAreRestorable == Spec => []OfferIsRestorable
<1>1. CheckInv => OfferIsRestorable
  <2> SUFFICES ASSUME CheckInv, Inspected # None PROVE
        /\ Inspected.phase \in {"prepared", "compacted"} =>
             Inspected.key \notin tombs /\ Restorable(Inspected.key) /\ Inspected.key.gen = run.gen
        /\ Inspected.phase = "restored" => \E i \in 1..Len(restored) : restored[i].key = Inspected.key
    BY DEF OfferIsRestorable
  <2> DEFINE k == NewestOf(Candidates)
  <2>1. /\ Candidates # {} /\ Inspected.key = k
        /\ Inspected.phase = IF k \in CursorKeys THEN "restored"
                             ELSE IF k \in receipts THEN "compacted" ELSE "prepared"
    BY DEF Inspected
  <2>2. Candidates \in SUBSET Files
    BY DEF Candidates, Eligible, CursorKeys
  <2>3. k \in Candidates
    BY <2>1, <2>2, NewestIn DEF CheckInv, CheckpointTypeOK
  <2> HIDE DEF k
  <2>4. CASE k \in CursorKeys
    BY <2>1, <2>4 DEF CursorKeys, CheckInv, CursorLogged
  <2>5. CASE k \notin CursorKeys
    BY <2>1, <2>3, <2>5 DEF Candidates, Eligible, Restorable, Current, Context
  <2> QED
    BY <2>4, <2>5
<1> QED
  BY <1>1, CheckHolds, PTL
=============================================================================
