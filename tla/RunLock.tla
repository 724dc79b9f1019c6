------------------------------ MODULE RunLock ------------------------------
(* withLock of state.mjs: the lock of one run, under which every function of *)
(* the kernel reads and writes loop.json.  The lock is the directory `.lock';*)
(* the file owner.json in it says whose it is.  A call makes the directory,  *)
(* writes owner.json, runs its function and releases by renaming the         *)
(* directory away before deleting it.  The lock of a call whose process died *)
(* is reclaimed: renamed to a quarantine named after the dead call's token,  *)
(* looked at again, and deleted.  Every access goes through a path, so each  *)
(* system call is a step and other calls come between.                       *)
(*                                                                           *)
(* A directory is named by the call that made it: a call makes at most one.  *)
(* Its identity (device and inode) is that name.  A call is a process of its *)
(* own; a call that has returned or thrown is `done', and `exited' once its  *)
(* process is gone.  Not modelled: locks of another host, a pid that was     *)
(* given to another process (both are never reclaimed), deadlines, and       *)
(* failures of the file system other than a missing path.                    *)
EXTENDS Naturals, FiniteSets

CONSTANTS Call,        \* calls of withLock, each with a token of its own
          None,        \* no directory, no call
          Crashable,   \* the calls that may be killed
          MaxTries     \* `retries': attempts to make the directory

ASSUME NoneAssumption == None \notin Call
ASSUME CrashableAssumption == Crashable \subseteq Call
ASSUME TriesAssumption == MaxTries \in Nat \ {0}

VARIABLES lock,         \* the directory at `.lock'
          quarantine,   \* [Call -> the directory at `.lock.quarantine-<token>']
          released,     \* [Call -> the directory at `.lock.release-<token>']
          owner,        \* [Call -> what owner.json in that directory says]
          aged,         \* tokens whose heartbeat is older than the TTL
          pc,           \* where each call is
          tries,        \* attempts each call has made
          mine,         \* the identity each call captured as its own
          seen          \* the owner each call saw and is about to reclaim

files == <<lock, quarantine, released, owner, aged>>
calls == <<pc, tries, mine, seen>>
vars  == <<files, calls>>

Dir     == Call \cup {None}
Owner   == [token : Call, dir : Call]
NoOwner == [token |-> None, dir |-> None]

Claiming == {"capture", "write", "confirm"}
Inside   == {"inside", "renew"}
Leaving  == {"validate", "retreat"}
Pc == {"scan", "resume", "resumeUnlink", "resumeRmdir", "mkdir",
       "inspect", "rename", "check", "unlink", "rmdir"}
        \cup Claiming \cup Inside \cup Leaving \cup {"verify", "delete", "done", "exited"}

TypeOK == /\ lock \in Dir
          /\ quarantine \in [Call -> Dir] /\ released \in [Call -> Dir]
          /\ owner \in [Call -> Owner \cup {NoOwner}]
          /\ aged \subseteq Call
          /\ pc \in [Call -> Pc] /\ tries \in [Call -> 0..MaxTries]
          /\ mine \in [Call -> Dir] /\ seen \in [Call -> Owner \cup {NoOwner}]

Init == /\ lock = None
        /\ quarantine = [c \in Call |-> None] /\ released = [c \in Call |-> None]
        /\ owner = [c \in Call |-> NoOwner] /\ aged = {}
        /\ pc = [c \in Call |-> "scan"] /\ tries = [c \in Call |-> 0]
        /\ mine = [c \in Call |-> None] /\ seen = [c \in Call |-> NoOwner]

Goto(c, l)   == pc' = [pc EXCEPT ![c] = l]
Continue(c, l) == Goto(c, l) /\ UNCHANGED <<tries, mine, seen>>
Throw(c)     == Continue(c, "done")

(* inspectOwned: the directory at a path is the expected one, and says so.   *)
InspectOwned(path, o) == path # None /\ path = o.dir /\ owner[path] = o
OwnedBy(c)            == [token |-> c, dir |-> mine[c]]

(* A stale heartbeat, and a process that certainly is gone.                  *)
Dead(t) == t \in aged /\ pc[t] = "exited"

(* The quarantine is named after the dead token.                             *)
QuarantineOf(c) == seen[c].token

-----------------------------------------------------------------------------
(* resumeReclaim, at the head of every attempt: finish a quarantine that its *)
(* reclaimer left behind.  More than one, or one that does not belong to a   *)
(* dead owner of that name, is a conflict: the call throws.                  *)
Quarantined == {t \in Call : quarantine[t] # None}

Scan(c) ==
  /\ pc[c] = "scan"
  /\ \/ Quarantined = {} /\ Goto(c, "mkdir") /\ UNCHANGED seen
     \/ \E t \in Call : /\ Quarantined = {t} /\ Goto(c, "resume")
                        /\ seen' = [seen EXCEPT ![c] = [token |-> t, dir |-> t]]
     \/ Cardinality(Quarantined) > 1 /\ Goto(c, "done") /\ UNCHANGED seen
  /\ UNCHANGED <<files, tries, mine>>

WellNamed(t) == InspectOwned(quarantine[t], [token |-> t, dir |-> quarantine[t]])
Resumable(t) == WellNamed(t) /\ Dead(t)

Resume(c) ==
  /\ pc[c] = "resume"
  /\ LET t == seen[c].token
     IN  IF Resumable(t)
         THEN /\ Goto(c, "resumeUnlink")
              /\ seen' = [seen EXCEPT ![c] = owner[quarantine[t]]]
         ELSE Goto(c, "done") /\ UNCHANGED seen
  /\ UNCHANGED <<files, tries, mine>>

(* rmSync of the quarantine: owner.json goes first, the directory after it.  *)
(* Nothing at the path is an error; a directory that another call renamed    *)
(* into the emptied one's place stays, with or without an error.             *)
Unlink(c, next) ==
  LET d == quarantine[QuarantineOf(c)]
  IN  IF d = None THEN Throw(c) /\ UNCHANGED files
      ELSE /\ owner' = [owner EXCEPT ![d] = NoOwner] /\ Continue(c, next)
           /\ UNCHANGED <<lock, quarantine, released, aged>>

Replaced(c) == LET d == quarantine[QuarantineOf(c)]
               IN  d # None /\ owner[d] # NoOwner

Rmdir(c) ==
  /\ quarantine' = IF Replaced(c) THEN quarantine
                   ELSE [quarantine EXCEPT ![QuarantineOf(c)] = None]
  /\ UNCHANGED <<lock, released, owner, aged>>

ResumeUnlink(c) == pc[c] = "resumeUnlink" /\ Unlink(c, "resumeRmdir")
ResumeRmdir(c)  ==
  /\ pc[c] = "resumeRmdir" /\ Rmdir(c)
  /\ Continue(c, "mkdir") \/ (Replaced(c) /\ Throw(c))

-----------------------------------------------------------------------------
(* mkdir succeeds for one call only.                                         *)
Mkdir(c) ==
  /\ pc[c] = "mkdir"
  /\ IF lock = None THEN lock' = c /\ Goto(c, "capture") ELSE Goto(c, "inspect") /\ UNCHANGED lock
  /\ tries' = [tries EXCEPT ![c] = @ + 1]
  /\ UNCHANGED <<quarantine, released, owner, aged, mine, seen>>

(* The loop ends with LOCK_BUSY when the attempts are used up.               *)
Retry(c) == Continue(c, IF tries[c] < MaxTries THEN "scan" ELSE "done")

(* tryReclaim: its reads are one step, since the last of them looks at all   *)
(* that matters again.                                                       *)
Reclaimable == lock # None /\ owner[lock].dir = lock /\ Dead(owner[lock].token)

Inspect(c) ==
  /\ pc[c] = "inspect"
  /\ IF Reclaimable
     THEN /\ Goto(c, "rename") /\ seen' = [seen EXCEPT ![c] = owner[lock]]
          /\ UNCHANGED <<tries, mine>>
     ELSE Retry(c)
  /\ UNCHANGED files

(* A rename replaces nothing, or an empty directory; otherwise it fails, as  *)
(* it does when `.lock' is gone.                                             *)
Rename(c) ==
  /\ pc[c] = "rename"
  /\ LET to == quarantine[QuarantineOf(c)]
     IN  IF lock # None /\ (to = None \/ owner[to] = NoOwner)
         THEN /\ quarantine' = [quarantine EXCEPT ![QuarantineOf(c)] = lock]
              /\ lock' = None /\ Continue(c, "check")
              /\ UNCHANGED <<released, owner, aged>>
         ELSE Retry(c) /\ UNCHANGED files

(* Mutant: what was moved away is not looked at again.                       *)
QuarantineUnchecked(c) == TRUE
QuarantineChecked(c)   == InspectOwned(quarantine[QuarantineOf(c)], seen[c])

Check(c) ==
  /\ pc[c] = "check"
  /\ IF QuarantineChecked(c) THEN Continue(c, "unlink") ELSE Throw(c)
  /\ UNCHANGED files

UnlinkDead(c) == pc[c] = "unlink" /\ Unlink(c, "rmdir")
RmdirDead(c)  ==
  /\ pc[c] = "rmdir" /\ Rmdir(c)
  /\ Retry(c) \/ (Replaced(c) /\ Throw(c))

-----------------------------------------------------------------------------
(* The maker captures the identity of `.lock', writes owner.json through the *)
(* path and reads it back.                                                   *)
Capture(c) ==
  /\ pc[c] = "capture"
  /\ IF lock = None THEN Throw(c)
     ELSE /\ mine' = [mine EXCEPT ![c] = lock] /\ Goto(c, "write")
          /\ UNCHANGED <<tries, seen>>
  /\ UNCHANGED files

WriteOwner(c, next) ==
  IF lock = None THEN Continue(c, "validate") /\ UNCHANGED files
  ELSE /\ owner' = [owner EXCEPT ![lock] = OwnedBy(c)] /\ aged' = aged \ {c}
       /\ Continue(c, next) /\ UNCHANGED <<lock, quarantine, released>>

Write(c) == pc[c] = "write" /\ WriteOwner(c, "confirm")

Confirm(c) ==
  /\ pc[c] = "confirm"
  /\ Continue(c, IF InspectOwned(lock, OwnedBy(c)) THEN "inside" ELSE "validate")
  /\ UNCHANGED files

(* The function may renew its heartbeat, which first asserts the ownership;  *)
(* it returns or throws at any time.                                         *)
StartRenew(c) ==
  /\ pc[c] = "inside"
  /\ Continue(c, IF InspectOwned(lock, OwnedBy(c)) THEN "renew" ELSE "validate")
  /\ UNCHANGED files

Renew(c)  == pc[c] = "renew" /\ WriteOwner(c, "confirm")
Return(c) == pc[c] = "inside" /\ Continue(c, "validate") /\ UNCHANGED files

-----------------------------------------------------------------------------
(* Release: validate, rename away, look again, delete.  A loss of ownership  *)
(* ends it without an error.                                                 *)
Validate(c) ==
  /\ pc[c] = "validate"
  /\ Continue(c, IF InspectOwned(lock, OwnedBy(c)) THEN "retreat" ELSE "done")
  /\ UNCHANGED files

Retreat(c) ==
  /\ pc[c] = "retreat"
  /\ IF lock = None THEN Throw(c) /\ UNCHANGED files
     ELSE /\ released' = [released EXCEPT ![c] = lock] /\ lock' = None
          /\ Continue(c, "verify") /\ UNCHANGED <<quarantine, owner, aged>>

(* Mutant: what was moved away is not looked at again.                       *)
ReleaseUnchecked(c) == released[c] # None
ReleaseChecked(c)   == InspectOwned(released[c], OwnedBy(c))

Verify(c) ==
  /\ pc[c] = "verify"
  /\ Continue(c, IF ReleaseChecked(c) THEN "delete" ELSE "done")
  /\ UNCHANGED files

Delete(c) ==
  /\ pc[c] = "delete"
  /\ owner' = [owner EXCEPT ![released[c]] = NoOwner]
  /\ released' = [released EXCEPT ![c] = None]
  /\ Continue(c, "done") /\ UNCHANGED <<lock, quarantine, aged>>

-----------------------------------------------------------------------------
(* The environment: time, the end of a process, and its death on the way.    *)
Age(c) ==
  /\ c \notin aged /\ \E d \in Call : owner[d].token = c
  /\ aged' = aged \cup {c}
  /\ UNCHANGED <<lock, quarantine, released, owner, calls>>

Exit(c)  == pc[c] = "done" /\ Continue(c, "exited") /\ UNCHANGED files
Crash(c) == /\ c \in Crashable /\ pc[c] \notin {"done", "exited"}
            /\ Continue(c, "exited") /\ UNCHANGED files

Next == \E c \in Call :
  \/ Scan(c) \/ Resume(c) \/ ResumeUnlink(c) \/ ResumeRmdir(c)
  \/ Mkdir(c) \/ Inspect(c) \/ Rename(c) \/ Check(c) \/ UnlinkDead(c) \/ RmdirDead(c)
  \/ Capture(c) \/ Write(c) \/ Confirm(c) \/ StartRenew(c) \/ Renew(c) \/ Return(c)
  \/ Validate(c) \/ Retreat(c) \/ Verify(c) \/ Delete(c)
  \/ Age(c) \/ Exit(c) \/ Crash(c)

Spec == Init /\ [][Next]_vars

-----------------------------------------------------------------------------
Live(c)   == pc[c] # "exited"
Locked(c) == pc[c] \in Inside

(* Two calls never run their functions at the same time, whoever dies and    *)
(* reclaims.  (withLock; every fresh read and single write of the kernel     *)
(* rests on it.)  It holds for three calls and fails for four.               *)
MutualExclusion == \A c, d \in Call : Locked(c) /\ Locked(d) => c = d

(* What goes is what was moved away before: the owner file of the call that  *)
(* releases, or one that lies in the quarantine of a dead call; never one at *)
(* `.lock', whoever else moved or rewrote it meanwhile.  (`ownership loss    *)
(* preserves evidence and never removes a successor', state.mjs:637.)        *)
DeletesOnlyMoved ==
  [][\A d \in Call : owner[d] # NoOwner /\ owner'[d] = NoOwner =>
       /\ lock # d
       /\ \/ pc[owner[d].token] = "delete" /\ released[owner[d].token] = d
          \/ \E t \in Call : quarantine[t] = d /\ ~Live(t)]_vars

(* Two calls are inside at once only after a third ended with its lock left  *)
(* behind and a fourth, which had seen that lock, is past its own rename.    *)
BreakingTakesFour ==
  \A c, d \in Call : Locked(c) /\ Locked(d) /\ c # d =>
    \E a, b \in Call \ {c, d} : /\ a # b /\ ~Live(a) /\ seen[b].token = a
                                /\ pc[b] \in {"check", "done", "exited"}

(* `live, reused, EPERM, or unknown stale owners remain busy beyond the TTL' *)
(* (tests/state.test.mjs:354): no call deletes the owner file of another     *)
(* call that is still running.  It fails for four calls.                     *)
NeverDeletesALiveOwner ==
  [][\A d \in Call : owner[d] # NoOwner /\ owner'[d] = NoOwner =>
       \/ ~Live(owner[d].token)
       \/ pc[owner[d].token] = "delete"]_vars
=============================================================================
