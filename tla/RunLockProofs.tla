--------------------------- MODULE RunLockProofs ---------------------------
(* Theorems about the run lock, for any number of calls and attempts, any of *)
(* which may be killed anywhere: its types, that nothing is deleted but what *)
(* was moved away, and that it takes four calls to have two of them inside.  *)
EXTENDS RunLock, TLAPS

USE NoneAssumption, CrashableAssumption, TriesAssumption

-----------------------------------------------------------------------------
(* The types are inductive with two facts about the program counter: a call  *)
(* that is about to make the directory has an attempt left, and one that     *)
(* writes owner.json has captured an identity.                               *)
Attempting == {"scan", "resume", "resumeUnlink", "resumeRmdir", "mkdir"}
Identified == {"write", "confirm", "inside", "renew"}

AttemptsLeft == \A c \in Call : pc[c] \in Attempting => tries[c] < MaxTries
Captured     == \A c \in Call : pc[c] \in Identified => mine[c] \in Call

TypeInv == TypeOK /\ AttemptsLeft /\ Captured

(* What a retry does to the program counter.                                 *)
LEMMA RetryTypes ==
  ASSUME TypeInv, NEW c \in Call, Retry(c)
  PROVE  /\ pc' \in [Call -> Pc] /\ UNCHANGED <<tries, mine, seen>>
         /\ \A d \in Call : d # c => pc'[d] = pc[d]
         /\ pc'[c] \in {"scan", "done"}
         /\ pc'[c] = "scan" => tries[c] < MaxTries
  BY DEF TypeInv, TypeOK, Retry, Continue, Goto, Pc

(* Each step keeps the types: every path names a directory or nothing, and   *)
(* the loop of withLock makes at most `retries' attempts.                    *)
LEMMA TypeStep == ASSUME TypeInv, [Next]_vars PROVE TypeInv'
<1> USE DEF Dir, Owner, NoOwner, Attempting, Identified, files, calls
<1>1. CASE UNCHANGED vars
  BY <1>1 DEF TypeInv, TypeOK, AttemptsLeft, Captured, vars
<1>2. CASE Next
  <2> PICK c \in Call :
        \/ Scan(c) \/ Resume(c) \/ ResumeUnlink(c) \/ ResumeRmdir(c)
        \/ Mkdir(c) \/ Inspect(c) \/ Rename(c) \/ Check(c) \/ UnlinkDead(c) \/ RmdirDead(c)
        \/ Capture(c) \/ Write(c) \/ Confirm(c) \/ StartRenew(c) \/ Renew(c) \/ Return(c)
        \/ Validate(c) \/ Retreat(c) \/ Verify(c) \/ Delete(c)
        \/ Age(c) \/ Exit(c) \/ Crash(c)
    BY <1>2 DEF Next
  <2> USE DEF TypeInv, TypeOK, AttemptsLeft, Captured, Goto, Continue, Throw, Pc,
              Claiming, Inside, Leaving, OwnedBy
  <2>1. CASE Scan(c)         BY <2>1 DEF Scan
  <2>2. CASE Resume(c)
    <3> DEFINE t == seen[c].token
    <3>1. CASE Resumable(t)
      <4>1. owner[quarantine[t]] = [token |-> t, dir |-> quarantine[t]] /\ quarantine[t] # None
        BY <3>1 DEF Resumable, WellNamed, InspectOwned
      <4>2. t \in Call BY <3>1 DEF Resumable, Dead
      <4>3. owner[quarantine[t]] \in Owner BY <4>1, <4>2
      <4> QED BY <2>2, <3>1, <4>3 DEF Resume
    <3>2. CASE ~Resumable(t) BY <2>2, <3>2 DEF Resume
    <3> QED BY <3>1, <3>2
  <2>3. CASE ResumeUnlink(c) BY <2>3 DEF ResumeUnlink, Unlink
  <2>4. CASE ResumeRmdir(c)  BY <2>4, ZenonT(60) DEF ResumeRmdir, Rmdir
  <2>5. CASE Mkdir(c)        BY <2>5 DEF Mkdir
  <2>6. CASE Inspect(c)
    <3>1. CASE Reclaimable  BY <2>6, <3>1 DEF Inspect, Reclaimable
    <3>2. CASE ~Reclaimable BY <2>6, <3>2, RetryTypes DEF Inspect
    <3> QED BY <3>1, <3>2
  <2>7. CASE Rename(c)
    <3>1. CASE Retry(c) /\ UNCHANGED files BY <3>1, RetryTypes
    <3>2. CASE ~(Retry(c) /\ UNCHANGED files) BY <2>7, <3>2 DEF Rename
    <3> QED BY <3>1, <3>2
  <2>8. CASE Check(c)        BY <2>8 DEF Check
  <2>9. CASE UnlinkDead(c)   BY <2>9 DEF UnlinkDead, Unlink
  <2>10. CASE RmdirDead(c)
    <3>1. CASE Retry(c) BY <2>10, <3>1, RetryTypes DEF RmdirDead, Rmdir
    <3>2. CASE Throw(c) BY <2>10, <3>2 DEF RmdirDead, Rmdir
    <3> QED BY <2>10, <3>1, <3>2 DEF RmdirDead
  <2>11. CASE Capture(c)     BY <2>11 DEF Capture
  <2>12. CASE Write(c)       BY <2>12 DEF Write, WriteOwner
  <2>13. CASE Confirm(c)     BY <2>13 DEF Confirm
  <2>14. CASE StartRenew(c)  BY <2>14 DEF StartRenew
  <2>15. CASE Renew(c)       BY <2>15 DEF Renew, WriteOwner
  <2>16. CASE Return(c)      BY <2>16 DEF Return
  <2>17. CASE Validate(c)    BY <2>17 DEF Validate
  <2>18. CASE Retreat(c)     BY <2>18 DEF Retreat
  <2>19. CASE Verify(c)      BY <2>19 DEF Verify
  <2>20. CASE Delete(c)      BY <2>20 DEF Delete
  <2>21. CASE Age(c)         BY <2>21 DEF Age
  <2>22. CASE Exit(c)        BY <2>22 DEF Exit
  <2>23. CASE Crash(c)       BY <2>23 DEF Crash
  <2> QED BY <2>1, <2>2, <2>3, <2>4, <2>5, <2>6, <2>7, <2>8, <2>9, <2>10, <2>11, <2>12,
             <2>13, <2>14, <2>15, <2>16, <2>17, <2>18, <2>19, <2>20, <2>21, <2>22, <2>23
<1> QED BY <1>1, <1>2

LEMMA TypeInit == Init => TypeInv
  BY DEF Init, TypeInv, TypeOK, AttemptsLeft, Captured, Attempting, Identified,
         Dir, NoOwner, Pc

LEMMA TypeNext == TypeInv /\ [Next]_vars => TypeInv'
  BY TypeStep

(* The variables of withLock keep their types, whichever calls die.          *)
THEOREM LockTyping == Spec => []TypeOK
<1>1. TypeInv => TypeOK BY DEF TypeInv
<1> QED BY <1>1, TypeInit, TypeNext, PTL DEF Spec

-----------------------------------------------------------------------------
(* What a reclaimer is about is the lock of a call that is gone.             *)
Reclaiming(c) == pc[c] \in {"rename", "check", "unlink", "rmdir", "resumeUnlink", "resumeRmdir"}

ReclaimsTheDead ==
  \A c \in Call : Reclaiming(c) => seen[c].token \in Call /\ pc[seen[c].token] = "exited"

(* A directory is in one place at most, and in none before it is made.       *)
Unmade == Attempting \cup {"inspect", "rename", "check", "unlink", "rmdir"}

MadeOnce ==
  \A c \in Call : pc[c] \in Unmade =>
    lock # c /\ \A t \in Call : quarantine[t] # c /\ released[t] # c

OnePlace ==
  /\ lock # None => \A t \in Call : quarantine[t] # lock /\ released[t] # lock
  /\ \A t, u \in Call : quarantine[t] # None => quarantine[t] # released[u]
  /\ \A t, u \in Call : quarantine[t] = quarantine[u] /\ quarantine[t] # None => t = u
  /\ \A t, u \in Call : released[t] = released[u] /\ released[t] # None => t = u

(* What a release is about to delete is its own, by the owner file in it.    *)
DeletesItsOwn ==
  \A c \in Call : pc[c] = "delete" => released[c] \in Call /\ owner[released[c]].token = c

PlaceInv == ReclaimsTheDead /\ MadeOnce /\ OnePlace /\ DeletesItsOwn

LEMMA PlaceStep ==
  ASSUME TypeInv, TypeInv', PlaceInv, [Next]_vars PROVE PlaceInv'
<1> USE DEF Dir, Owner, NoOwner, files, calls, TypeInv, TypeOK
<1>1. CASE UNCHANGED vars
  BY <1>1 DEF PlaceInv, ReclaimsTheDead, MadeOnce, OnePlace, DeletesItsOwn, Reclaiming, vars
<1>2. CASE Next
  <2> PICK c \in Call :
        \/ Scan(c) \/ Resume(c) \/ ResumeUnlink(c) \/ ResumeRmdir(c)
        \/ Mkdir(c) \/ Inspect(c) \/ Rename(c) \/ Check(c) \/ UnlinkDead(c) \/ RmdirDead(c)
        \/ Capture(c) \/ Write(c) \/ Confirm(c) \/ StartRenew(c) \/ Renew(c) \/ Return(c)
        \/ Validate(c) \/ Retreat(c) \/ Verify(c) \/ Delete(c)
        \/ Age(c) \/ Exit(c) \/ Crash(c)
    BY <1>2 DEF Next
  <2> USE DEF PlaceInv, ReclaimsTheDead, MadeOnce, OnePlace, DeletesItsOwn, Reclaiming,
              Attempting, Unmade, Goto, Continue, Throw, OwnedBy, InspectOwned
  <2>1. CASE Scan(c)       BY <2>1 DEF Scan
  <2>2. CASE Resume(c)
    <3>1. CASE Resumable(seen[c].token)
      <4> DEFINE t == seen[c].token
      <4>1. t \in Call /\ pc[t] = "exited" /\ owner[quarantine[t]].token = t
        BY <3>1 DEF Resumable, WellNamed, Dead
      <4>2. seen'[c].token = t /\ \A d \in Call : d # c => seen'[d] = seen[d]
        BY <2>2, <3>1, <4>1 DEF Resume
      <4>3. pc' = [pc EXCEPT ![c] = "resumeUnlink"] /\ UNCHANGED files /\ t # c
        BY <2>2, <3>1, <4>1 DEF Resume
      <4> HIDE DEF t
      <4> QED BY <2>2, <4>1, <4>2, <4>3 DEF Resume
    <3>2. CASE ~Resumable(seen[c].token)
      BY <2>2, <3>2 DEF Resume
    <3> QED BY <3>1, <3>2
  <2>3. CASE ResumeUnlink(c) \/ UnlinkDead(c)
    <3> DEFINE d == quarantine[QuarantineOf(c)]
    <3>1. d # None => \A u \in Call : released[u] # d
      BY <2>3 DEF ResumeUnlink, UnlinkDead, QuarantineOf
    <3>2. /\ UNCHANGED <<lock, quarantine, released, seen>>
          /\ \E l \in {"resumeRmdir", "rmdir", "done"} : pc' = [pc EXCEPT ![c] = l]
      BY <2>3 DEF ResumeUnlink, UnlinkDead, Unlink
    <3>3. \A u \in Call : u # d => owner'[u] = owner[u]
      BY <2>3 DEF ResumeUnlink, UnlinkDead, Unlink
    <3> HIDE DEF d
    <3>4. pc[c] \in {"resumeUnlink", "unlink"}
      BY <2>3 DEF ResumeUnlink, UnlinkDead
    <3>5. ReclaimsTheDead' /\ MadeOnce' /\ OnePlace'
      BY <3>2, <3>4
    <3>6. DeletesItsOwn'
      BY <3>1, <3>2, <3>3, <3>4
    <3> QED BY <3>5, <3>6
  <2>4. CASE ResumeRmdir(c) BY <2>4 DEF ResumeRmdir, Rmdir, QuarantineOf
  <2>5. CASE RmdirDead(c)   BY <2>5 DEF RmdirDead, Rmdir, QuarantineOf, Retry
  <2>6. CASE Mkdir(c)      BY <2>6 DEF Mkdir
  <2>7. CASE Inspect(c)    BY <2>7 DEF Inspect, Retry, Reclaimable, Dead
  <2>8. CASE Rename(c)
    <3>1. CASE Retry(c) /\ UNCHANGED files
      <4>1. /\ \E l \in {"scan", "done"} : pc' = [pc EXCEPT ![c] = l]
            /\ UNCHANGED <<lock, quarantine, released, owner, seen>>
        BY <3>1 DEF Retry
      <4> QED BY <2>8, <4>1 DEF Rename
    <3>2. CASE ~(Retry(c) /\ UNCHANGED files)
      <4>1. /\ quarantine' = [quarantine EXCEPT ![seen[c].token] = lock] /\ lock' = None
            /\ lock \in Call
            /\ pc' = [pc EXCEPT ![c] = "check"] /\ UNCHANGED <<released, owner, seen>>
        BY <2>8, <3>2 DEF Rename, QuarantineOf
      <4> QED BY <2>8, <4>1 DEF Rename
    <3> QED BY <3>1, <3>2
  <2>9. CASE Check(c)      BY <2>9 DEF Check
  <2>10. CASE Capture(c)   BY <2>10 DEF Capture
  <2>11. CASE Write(c) \/ Renew(c)
    <3>1. /\ pc[c] \in {"write", "renew"} /\ UNCHANGED <<lock, quarantine, released, seen>>
          /\ \E l \in {"confirm", "validate"} : pc' = [pc EXCEPT ![c] = l]
          /\ \A u \in Call : u # lock => owner'[u] = owner[u]
      BY <2>11 DEF Write, Renew, WriteOwner
    <3> QED BY <3>1
  <2>12. CASE Confirm(c)   BY <2>12 DEF Confirm
  <2>13. CASE StartRenew(c) BY <2>13 DEF StartRenew
  <2>15. CASE Return(c)    BY <2>15 DEF Return
  <2>16. CASE Validate(c)  BY <2>16 DEF Validate
  <2>17. CASE Retreat(c)   BY <2>17 DEF Retreat
  <2>18. CASE Verify(c)    BY <2>18 DEF Verify, ReleaseChecked
  <2>19. CASE Delete(c)    BY <2>19 DEF Delete
  <2>20. CASE Age(c)       BY <2>20 DEF Age
  <2>21. CASE Exit(c)      BY <2>21 DEF Exit
  <2>22. CASE Crash(c)     BY <2>22 DEF Crash
  <2> QED BY <2>1, <2>2, <2>3, <2>4, <2>5, <2>6, <2>7, <2>8, <2>9, <2>10, <2>11, <2>12,
             <2>13, <2>15, <2>16, <2>17, <2>18, <2>19, <2>20, <2>21, <2>22
<1> QED BY <1>1, <1>2

LEMMA PlaceInit == Init => PlaceInv
  BY DEF Init, PlaceInv, ReclaimsTheDead, MadeOnce, OnePlace, DeletesItsOwn, Reclaiming, NoOwner

LEMMA DeleteStep ==
  ASSUME TypeInv, PlaceInv, [Next]_vars, NEW d \in Call, owner[d] # NoOwner, owner'[d] = NoOwner
  PROVE  /\ lock # d
         /\ \/ pc[owner[d].token] = "delete" /\ released[owner[d].token] = d
            \/ \E t \in Call : quarantine[t] = d /\ ~Live(t)
<1>1. PICK c \in Call : ResumeUnlink(c) \/ UnlinkDead(c) \/ Delete(c) \/ Write(c) \/ Renew(c)
  BY DEF Next, vars, files, Scan, Resume, ResumeRmdir, Rmdir, Mkdir, Inspect, Rename, Check,
     RmdirDead, Capture, Confirm, StartRenew, Return, Validate, Retreat, Verify, Age, Exit, Crash
<1>2. CASE ResumeUnlink(c) \/ UnlinkDead(c)
  <2>1. seen[c].token \in Call /\ pc[seen[c].token] = "exited"
    BY <1>2 DEF PlaceInv, ReclaimsTheDead, Reclaiming, ResumeUnlink, UnlinkDead
  <2>2. d = quarantine[seen[c].token]
    BY <1>2 DEF ResumeUnlink, UnlinkDead, Unlink, Throw, files, QuarantineOf, TypeInv, TypeOK
  <2>3. lock # d
    BY <2>1, <2>2 DEF PlaceInv, OnePlace, TypeInv, TypeOK, Dir
  <2> QED BY <2>1, <2>2, <2>3 DEF Live
<1>3. CASE Delete(c)
  <2>1. d = released[c] /\ owner[d].token = c /\ pc[c] = "delete"
    BY <1>3 DEF Delete, PlaceInv, DeletesItsOwn, TypeInv, TypeOK
  <2>2. lock # d
    BY <2>1 DEF PlaceInv, OnePlace, TypeInv, TypeOK, Dir
  <2> QED BY <2>1, <2>2
<1>4. CASE Write(c) \/ Renew(c)
  <2>1. owner' = owner \/ owner' = [owner EXCEPT ![lock] = OwnedBy(c)]
    BY <1>4 DEF Write, Renew, WriteOwner, files
  <2>2. OwnedBy(c) # NoOwner
    BY DEF OwnedBy, NoOwner
  <2> QED BY <2>1, <2>2 DEF TypeInv, TypeOK
<1> QED BY <1>1, <1>2, <1>3, <1>4

(* However many calls race, die and lose the lock, only what was moved away  *)
(* from `.lock' is deleted, and a release deletes nothing but its own.       *)
THEOREM DeletionsAreOfTheMoved == Spec => DeletesOnlyMoved
<1>1. TypeInv /\ TypeInv' /\ PlaceInv /\ [Next]_vars => PlaceInv' BY PlaceStep
<1>2. TypeInv /\ PlaceInv /\ [Next]_vars =>
        [\A d \in Call : owner[d] # NoOwner /\ owner'[d] = NoOwner =>
           /\ lock # d
           /\ \/ pc[owner[d].token] = "delete" /\ released[owner[d].token] = d
              \/ \E t \in Call : quarantine[t] = d /\ ~Live(t)]_vars
  BY DeleteStep
<1> QED BY <1>1, <1>2, PlaceInit, TypeInit, TypeNext, PTL DEF Spec, DeletesOnlyMoved

-----------------------------------------------------------------------------
(* As long as no reclaimer has moved another lock away than the one it had   *)
(* seen, the lock is orderly: its directory is that of the one call between  *)
(* mkdir and release or of a dead call, owner files name the makers of their *)
(* directories, and only dead calls' directories are in quarantine.          *)
Holding == {"capture", "write", "confirm", "inside", "renew", "validate", "retreat"}
Written == {"confirm", "inside", "renew", "validate", "retreat"}

OwnersAreMakers == \A d \in Call : owner[d] \in {NoOwner, [token |-> d, dir |-> d]}

SeenAreMakers ==
  \A c \in Call : pc[c] \in {"rename", "check"} =>
    seen[c] \in {[token |-> t, dir |-> t] : t \in Call}

LiveHolder ==
  \A c \in Call :
    /\ pc[c] \in Holding => lock = c
    /\ pc[c] \in Holding \ {"capture"} => mine[c] = c
    /\ pc[c] \in Written => owner[c] = [token |-> c, dir |-> c]
    /\ pc[c] \in {"verify", "delete"} =>
         released[c] = c /\ mine[c] = c /\ owner[c] = [token |-> c, dir |-> c]

LockHeldOrLost == lock # None => pc[lock] \in Holding \cup {"exited"}

OnlyDeadQuarantined ==
  \A t \in Call : quarantine[t] # None => quarantine[t] = t /\ pc[t] = "exited"

Orderly == OwnersAreMakers /\ SeenAreMakers /\ LiveHolder /\ LockHeldOrLost /\ OnlyDeadQuarantined

(* Otherwise some b has moved another lock away than that of the dead a,     *)
(* which is gone for good: b will find so, and throw.                        *)
Misled(a, b) ==
  /\ a # b /\ pc[a] = "exited" /\ lock # a /\ quarantine[a] # a
  /\ seen[b] = [token |-> a, dir |-> a] /\ pc[b] \in {"check", "done", "exited"}

OrderInv == Orderly \/ \E a, b \in Call : Misled(a, b)

(* Whoever was misled never gets inside.                                     *)
LEMMA MisledStays ==
  ASSUME TypeInv, NEW a \in Call, NEW b \in Call, Misled(a, b), [Next]_vars
  PROVE  Misled(a, b)'
<1> USE DEF Misled, files, calls, TypeInv, TypeOK, Dir
<1>1. CASE UNCHANGED vars
  BY <1>1 DEF vars
<1>2. CASE Next
  <2> PICK c \in Call :
        \/ Scan(c) \/ Resume(c) \/ ResumeUnlink(c) \/ ResumeRmdir(c)
        \/ Mkdir(c) \/ Inspect(c) \/ Rename(c) \/ Check(c) \/ UnlinkDead(c) \/ RmdirDead(c)
        \/ Capture(c) \/ Write(c) \/ Confirm(c) \/ StartRenew(c) \/ Renew(c) \/ Return(c)
        \/ Validate(c) \/ Retreat(c) \/ Verify(c) \/ Delete(c)
        \/ Age(c) \/ Exit(c) \/ Crash(c)
    BY <1>2 DEF Next
  <2> USE DEF Goto, Continue, Throw
  <2>1. CASE Scan(c) \/ Resume(c)   BY <2>1 DEF Scan, Resume
  <2>2. CASE ResumeUnlink(c) \/ UnlinkDead(c)
    BY <2>2 DEF ResumeUnlink, UnlinkDead, Unlink
  <2>3. CASE ResumeRmdir(c) \/ RmdirDead(c)
    BY <2>3 DEF ResumeRmdir, RmdirDead, Rmdir, Retry
  <2>4. CASE Mkdir(c) \/ Inspect(c) BY <2>4 DEF Mkdir, Inspect, Retry
  <2>5. CASE Rename(c)
    <3>1. /\ quarantine' = quarantine \/ quarantine' = [quarantine EXCEPT ![seen[c].token] = lock]
          /\ lock' \in {lock, None} /\ pc[c] = "rename" /\ UNCHANGED seen
          /\ \E l \in {"scan", "done", "check"} : pc' = [pc EXCEPT ![c] = l]
      BY <2>5 DEF Rename, Retry, QuarantineOf
    <3> QED BY <3>1, NoneAssumption
  <2>6. CASE Check(c)
    <3>1. c = b => pc' = [pc EXCEPT ![c] = "done"]
      BY <2>6 DEF Check, QuarantineChecked, QuarantineOf, InspectOwned
    <3> QED BY <2>6, <3>1 DEF Check
  <2>7. CASE Capture(c) \/ Write(c) \/ Renew(c) \/ Confirm(c) \/ StartRenew(c) \/ Return(c)
    BY <2>7 DEF Capture, Write, Renew, WriteOwner, Confirm, StartRenew, Return
  <2>8. CASE Validate(c) \/ Retreat(c) \/ Verify(c) \/ Delete(c)
    BY <2>8 DEF Validate, Retreat, Verify, Delete
  <2>9. CASE Age(c) \/ Exit(c) \/ Crash(c)
    BY <2>9 DEF Age, Exit, Crash
  <2> QED BY <2>1, <2>2, <2>3, <2>4, <2>5, <2>6, <2>7, <2>8, <2>9
<1> QED BY <1>1, <1>2

LEMMA OrderStep ==
  ASSUME TypeInv, TypeInv', PlaceInv, Orderly, [Next]_vars PROVE OrderInv'
<1> USE DEF Dir, NoOwner, Holding, Written, files, calls
<1>1. CASE UNCHANGED vars
  BY <1>1 DEF OrderInv, Orderly, OwnersAreMakers, SeenAreMakers, LiveHolder, LockHeldOrLost,
     OnlyDeadQuarantined, vars
<1>2. CASE Next
  <2> PICK c \in Call :
        \/ Scan(c) \/ Resume(c) \/ ResumeUnlink(c) \/ ResumeRmdir(c)
        \/ Mkdir(c) \/ Inspect(c) \/ Rename(c) \/ Check(c) \/ UnlinkDead(c) \/ RmdirDead(c)
        \/ Capture(c) \/ Write(c) \/ Confirm(c) \/ StartRenew(c) \/ Renew(c) \/ Return(c)
        \/ Validate(c) \/ Retreat(c) \/ Verify(c) \/ Delete(c)
        \/ Age(c) \/ Exit(c) \/ Crash(c)
    BY <1>2 DEF Next
  <2>0. CASE Rename(c) /\ seen[c].token # lock /\ pc'[c] = "check"
    <3>1. PICK a \in Call : /\ a = seen[c].token /\ seen[c] = [token |-> a, dir |-> a]
                            /\ pc[c] = "rename" /\ a # c /\ pc[a] = "exited"
      BY <2>0 DEF Rename, Orderly, SeenAreMakers, PlaceInv, ReclaimsTheDead, Reclaiming
    <3>2. pc' = [pc EXCEPT ![c] = "check"] /\ UNCHANGED seen
          /\ quarantine' = [quarantine EXCEPT ![a] = lock] /\ lock' = None
      BY <2>0, <3>1 DEF Rename, Retry, Continue, Goto, QuarantineOf, TypeInv, TypeOK
    <3>3. Misled(a, c)'
      BY <2>0, <3>1, <3>2, NoneAssumption DEF Misled, TypeInv, TypeOK
    <3> QED BY <3>1, <3>3 DEF OrderInv
  <2>a. ASSUME ~(Rename(c) /\ seen[c].token # lock /\ pc'[c] = "check") PROVE Orderly'
    <3> USE DEF TypeInv, TypeOK, Orderly, OwnersAreMakers, SeenAreMakers, LiveHolder,
                LockHeldOrLost, OnlyDeadQuarantined, Goto, Continue, Throw, OwnedBy, InspectOwned
    <3>1. CASE Scan(c)       BY <3>1 DEF Scan
    <3>2. CASE Resume(c)     BY <3>2 DEF Resume
    <3>3. CASE ResumeUnlink(c) \/ UnlinkDead(c)
      <4> DEFINE d == quarantine[QuarantineOf(c)]
      <4>1. d # None => d \in Call /\ pc[d] = "exited"
        BY <3>3 DEF ResumeUnlink, UnlinkDead, QuarantineOf, PlaceInv, ReclaimsTheDead, Reclaiming
      <4>2. /\ pc[c] \in {"resumeUnlink", "unlink"}
            /\ \E l \in {"resumeRmdir", "rmdir", "done"} : pc' = [pc EXCEPT ![c] = l]
            /\ owner' = owner \/ (d # None /\ owner' = [owner EXCEPT ![d] = NoOwner])
            /\ UNCHANGED <<lock, quarantine, released, mine, seen>>
        BY <3>3 DEF ResumeUnlink, UnlinkDead, Unlink
      <4> HIDE DEF d
      <4> QED BY <4>1, <4>2
    <3>4. CASE ResumeRmdir(c) \/ RmdirDead(c)
      <4>1. /\ \E t \in Call : quarantine' = quarantine
                               \/ quarantine' = [quarantine EXCEPT ![t] = None]
            /\ pc[c] \in {"resumeRmdir", "rmdir"}
            /\ \E l \in {"mkdir", "scan", "done"} : pc' = [pc EXCEPT ![c] = l]
            /\ UNCHANGED <<lock, released, owner, mine, seen>>
        BY <3>4 DEF ResumeRmdir, RmdirDead, Rmdir, QuarantineOf, Retry, PlaceInv,
                    ReclaimsTheDead, Reclaiming
      <4> QED BY <4>1
    <3>6. CASE Mkdir(c)      BY <3>6 DEF Mkdir
    <3>7. CASE Inspect(c)
      <4>1. CASE Reclaimable
        <5>1. lock \in Call /\ owner[lock] = [token |-> lock, dir |-> lock]
          BY <4>1, NoneAssumption DEF Reclaimable
        <5>2. pc' = [pc EXCEPT ![c] = "rename"] /\ seen' = [seen EXCEPT ![c] = owner[lock]]
              /\ UNCHANGED <<lock, quarantine, released, owner, mine>> /\ pc[c] = "inspect"
          BY <3>7, <4>1 DEF Inspect
        <5> QED BY <5>1, <5>2
      <4>2. CASE ~Reclaimable
        BY <3>7, <4>2 DEF Inspect, Retry
      <4> QED BY <4>1, <4>2
    <3>8. CASE Rename(c)
      <4>1. CASE Retry(c) /\ UNCHANGED files
        <5>1. /\ \E l \in {"scan", "done"} : pc' = [pc EXCEPT ![c] = l]
              /\ UNCHANGED <<lock, quarantine, released, owner, mine, seen>>
          BY <4>1 DEF Retry
        <5> QED BY <3>8, <5>1 DEF Rename
      <4>2. CASE ~(Retry(c) /\ UNCHANGED files)
        <5>1. /\ quarantine' = [quarantine EXCEPT ![seen[c].token] = lock] /\ lock' = None
              /\ pc' = [pc EXCEPT ![c] = "check"] /\ UNCHANGED <<released, owner, mine, seen>>
          BY <3>8, <4>2 DEF Rename, QuarantineOf
        <5>2. seen[c].token = lock /\ pc[lock] = "exited" /\ pc[c] = "rename" /\ lock \in Call
          BY <2>a, <3>8, <5>1 DEF Rename, PlaceInv, ReclaimsTheDead, Reclaiming
        <5>3. \A d \in Call : pc[d] \notin Holding
          BY <5>2
        <5> QED BY <5>1, <5>2, <5>3
      <4> QED BY <4>1, <4>2
    <3>9. CASE Check(c)      BY <3>9 DEF Check
    <3>10. CASE Capture(c)   BY <3>10 DEF Capture
    <3>11. CASE Write(c)     BY <3>11 DEF Write, WriteOwner
    <3>12. CASE Confirm(c)   BY <3>12 DEF Confirm
    <3>13. CASE StartRenew(c) BY <3>13 DEF StartRenew
    <3>14. CASE Renew(c)     BY <3>14 DEF Renew, WriteOwner
    <3>15. CASE Return(c)    BY <3>15 DEF Return
    <3>16. CASE Validate(c)  BY <3>16 DEF Validate
    <3>17. CASE Retreat(c)   BY <3>17 DEF Retreat
    <3>18. CASE Verify(c)    BY <3>18 DEF Verify
    <3>19. CASE Delete(c)    BY <3>19 DEF Delete
    <3>20. CASE Age(c)       BY <3>20 DEF Age
    <3>21. CASE Exit(c)      BY <3>21 DEF Exit
    <3>22. CASE Crash(c)     BY <3>22 DEF Crash
    <3> QED BY <3>1, <3>2, <3>3, <3>4, <3>6, <3>7, <3>8, <3>9, <3>10, <3>11, <3>12,
               <3>13, <3>14, <3>15, <3>16, <3>17, <3>18, <3>19, <3>20, <3>21, <3>22
  <2> QED BY <2>0, <2>a DEF OrderInv
<1> QED BY <1>1, <1>2

LEMMA OrderInit == Init => OrderInv
  BY DEF Init, OrderInv, Orderly, OwnersAreMakers, SeenAreMakers, LiveHolder, LockHeldOrLost,
         OnlyDeadQuarantined, Holding, Written, Dir, NoOwner, Pc

LEMMA OrderNext ==
  TypeInv /\ TypeInv' /\ PlaceInv /\ OrderInv /\ [Next]_vars => OrderInv'
<1> SUFFICES ASSUME TypeInv, TypeInv', PlaceInv, OrderInv, [Next]_vars PROVE OrderInv'
  OBVIOUS
<1>1. CASE Orderly
  BY <1>1, OrderStep
<1>2. ASSUME NEW a \in Call, NEW b \in Call, Misled(a, b) PROVE OrderInv'
  BY <1>2, MisledStays DEF OrderInv
<1> QED BY <1>1, <1>2 DEF OrderInv

(* The lock excludes, however many contend and reclaim, until a third call   *)
(* has left a lock behind that a fourth was too slow to reclaim.             *)
THEOREM ExclusionHoldsOut == Spec => []BreakingTakesFour
<1>1. ASSUME Orderly PROVE BreakingTakesFour
  BY <1>1 DEF Orderly, LiveHolder, BreakingTakesFour, Locked, Inside, Holding
<1>2. ASSUME NEW a \in Call, NEW b \in Call, Misled(a, b) PROVE BreakingTakesFour
  BY <1>2 DEF Misled, BreakingTakesFour, Locked, Inside, Live
<1>3. OrderInv => BreakingTakesFour
  BY <1>1, <1>2 DEF OrderInv
<1>4. TypeInv /\ TypeInv' /\ PlaceInv /\ [Next]_vars => PlaceInv' BY PlaceStep
<1> QED
  BY <1>3, <1>4, OrderNext, OrderInit, PlaceInit, TypeInit, TypeNext, PTL DEF Spec

(* So three calls exclude each other, whichever of them die and reclaim.     *)
THEOREM ThreeExclude ==
  ASSUME \E a, b, c : Call = {a, b, c} PROVE Spec => []MutualExclusion
<1>1. BreakingTakesFour => MutualExclusion
  BY DEF BreakingTakesFour, MutualExclusion
<1> QED BY <1>1, ExclusionHoldsOut, PTL
=============================================================================
