---------------------------- MODULE AnchoredLog ----------------------------
(* How a run's state is written: integrity.mjs, transaction-journal.mjs and  *)
(* the two-file write of state.mjs.  A state is kept in loop.json, its hash  *)
(* in .loop.hash, and it anchors the event log by its head.  Three protocols *)
(* write them:                                                               *)
(*   plain        append lines, write loop.json, write .loop.hash            *)
(*   publication  a write-ahead transaction in `transactions/': prepared,    *)
(*                then artifacts, lines, loop.json, .loop.hash, committed    *)
(*   restore      an intent, one line, .loop.hash, loop.json                 *)
(* A call holds the run lock (RunLock) and may be killed between any two     *)
(* writes; its lock is then reclaimed and somebody calls again.  A state is  *)
(* the lines it anchors, the artifacts it refers to and the writes that log  *)
(* no event.  Content is compared by digest, so equal values are one file.   *)
EXTENDS Naturals, Sequences, FiniteSets

CONSTANTS Plain,        \* operations of appendAnchored without a publication
          Silent,       \* writeState under withReconciledMutationLock: no event
          Publication,  \* operations with a publication, named by their id
          Restore,      \* compaction restores
          Emit,         \* checkpoint emissions: they write no state
          Targets,      \* artifacts of a publication
          Bytes,        \* [Publication -> [1..Targets -> content]]
          NoBytes,      \* content of an artifact that is absent
          Initial,      \* [1..Targets -> content]: the artifacts there were before
          None,
          MaxCrashes    \* bound: calls that are killed

Writing == Plain \cup Silent \cup Publication \cup Restore
Op      == Writing \cup Emit
Target  == 1..Targets

ASSUME KindAssumption ==
  /\ Plain \cap (Silent \cup Publication \cup Restore \cup Emit) = {}
  /\ Silent \cap (Publication \cup Restore \cup Emit) = {}
  /\ Publication \cap (Restore \cup Emit) = {}
  /\ Restore \cap Emit = {}
ASSUME TargetsAssumption == Targets \in Nat /\ MaxCrashes \in Nat
ASSUME BytesAssumption   == /\ DOMAIN Initial = Target
                            /\ \A p \in Publication : DOMAIN Bytes[p] = Target

VARIABLES log,      \* event-log.jsonl
          loop,     \* loop.json
          hash,     \* .loop.hash: the state whose digest it is
          art,      \* [Target -> the artifact file]: content and identity
          journal,  \* the one entry of `transactions/', or None
          intent,   \* the prepared compaction restore, or None
          ckpt,     \* the last checkpoint: its key and the state it was taken of
          holder,   \* the call that holds the lock
          step,     \* where it is
          acked,    \* operations that have returned
          crashes,
          harm      \* history: a call was killed where the code has no repair

(* The shapes of what the files hold.                                        *)
Line   == Op \X {"event", "cost"}
State  == [head : Seq(Line), arts : {Initial} \cup {Bytes[p] : p \in Publication},
           silent : SUBSET Silent]
Content == {NoBytes} \cup UNION {{Initial[t]} \cup {Bytes[p][t] : p \in Publication} : t \in Target}
File    == [bytes : Content, by : Publication \cup {"before", None}]
Journal == [op : Publication, base : State, cand : State, before : [Target -> File],
            files : SUBSET {"owner", "stages", "prepared", "markers", "committed"},
            done : SUBSET Target, replace : SUBSET Target]
Intent  == [op : Restore, base : State, cand : State]

ASSUME NoneAssumption == None \notin Op \cup Journal \cup Intent
ASSUME BeforeAssumption == "before" \notin Publication

files == <<log, loop, hash, art, journal, intent, ckpt>>
vars  == <<files, holder, step, acked, crashes, harm>>

-----------------------------------------------------------------------------
(* An operation appends its event and, except for a restore, a floor cost.   *)
Lines(o) == IF o \in Silent \cup Emit THEN <<>>
            ELSE IF o \in Restore THEN <<<<o, "event">>>>
            ELSE <<<<o, "event">>, <<o, "cost">>>>

Apply(st, o) ==
  [head   |-> st.head \o Lines(o),
   arts   |-> IF o \in Publication THEN Bytes[o] ELSE st.arts,
   silent |-> IF o \in Silent THEN st.silent \cup {o} ELSE st.silent]

Entered(st, o) == \E i \in 1..Len(st.head) : st.head[i][1] = o

Blank == [head |-> <<>>, arts |-> Initial, silent |-> {}]

Init == /\ log = <<>> /\ loop = Blank /\ hash = Blank
        /\ art = [t \in Target |-> [bytes |-> Initial[t],
                                    by    |-> IF Initial[t] = NoBytes THEN None ELSE "before"]]
        /\ journal = None /\ intent = None /\ ckpt = [key |-> None, of |-> None]
        /\ holder = None /\ step = "free"
        /\ acked = {} /\ crashes = 0 /\ harm = FALSE

(* snapshotRaw: loop.json has its hash and anchors the whole log.            *)
SnapshotOK == hash = loop /\ log = loop.head

Has(f) == journal # None /\ f \in journal.files

(* findPreparedPublicationLocked sees prepared.json and wants the rest.      *)
Prepared  == Has("prepared")
Whole     == Prepared /\ Has("owner") /\ Has("stages")
Committed == Whole /\ Has("committed")

-----------------------------------------------------------------------------
(* The classifier of a prepared publication: how far the writes have come.   *)
Marked(t)   == Has("markers") /\ t \in journal.done
Replaces(t) == Has("markers") /\ t \in journal.replace
Before(t)   == journal.before[t]
Wanted(t)   == Bytes[journal.op][t]
Unchanged(t) == Before(t).by # None /\ Before(t).bytes = Wanted(t)

ArtifactState(t) ==
  CASE art[t].by # None /\ art[t].bytes = Wanted(t) ->
         IF Before(t).by # None /\ Unchanged(t) # (art[t].by = Before(t).by)
         THEN "conflict" ELSE "candidate"
    [] art[t].by # None /\ art[t].bytes # Wanted(t) ->
         IF art[t] = Before(t) THEN "predecessor" ELSE "conflict"
    [] art[t].by = None /\ Before(t).by = None -> "predecessor"
    [] OTHER -> IF Replaces(t) THEN "unlinked" ELSE "conflict"

Proven(t)   == ArtifactState(t) = "candidate" /\ Marked(t)
Progress(t) == \/ Marked(t) \/ Replaces(t)
               \/ ArtifactState(t) = "candidate" /\ ~Unchanged(t)

ArtifactsOK ==
  /\ \A t \in Target :
       /\ ArtifactState(t) # "conflict"
       /\ Marked(t) => ArtifactState(t) = "candidate"
       /\ Replaces(t) => Before(t).by # None /\ ~Unchanged(t)
  /\ \A t, u \in Target : t < u /\ ~Proven(t) => ~Progress(u)

Appended == Len(log) - Len(journal.base.head)
LinesOK  == \E n \in 0..Len(Lines(journal.op)) :
              log = journal.base.head \o SubSeq(Lines(journal.op), 1, n)

LoopAt(st) == loop = st
HashAt(st) == hash = st

ArtifactsDone == \A t \in Target : Proven(t)
LinesDone     == Appended = Len(Lines(journal.op))

ClassifierOK ==
  /\ Whole
  /\ loop \in {journal.base, journal.cand} /\ hash \in {journal.base, journal.cand}
  /\ HashAt(journal.cand) => LoopAt(journal.cand)
  /\ LinesOK /\ ArtifactsOK
  /\ Appended > 0 => ArtifactsDone
  /\ LoopAt(journal.cand) => LinesDone
  /\ Has("committed") => ArtifactsDone /\ LinesDone /\ HashAt(journal.cand)

-----------------------------------------------------------------------------
Take(o, s)  == holder' = o /\ step' = s /\ UNCHANGED <<acked, crashes, harm>>
Go(s)       == step' = s /\ UNCHANGED <<holder, acked, crashes, harm>>
At(o, s)    == holder = o /\ step = s
Leave       == holder' = None /\ step' = "free" /\ UNCHANGED <<crashes, harm>>
Refuse      == Leave /\ UNCHANGED <<files, acked>>
Return(o)   == Leave /\ acked' = acked \cup {o} /\ UNCHANGED files

Enter(o) ==
  /\ holder = None
  /\ o \notin acked \cap (Plain \cup Silent)   \* bound: each is called once
  /\ o \in Emit => \E k \in Restore : ~Entered(loop, k)  \* bound: the checkpoint keys
  /\ Take(o, IF o \in Restore THEN "restore" ELSE "reconcile")
  /\ UNCHANGED files

(* reconcileAnchoredPublicationLocked: a pending intent refuses every call   *)
(* but the restore; what is prepared is rolled forward first.                *)
Reconcile(o) ==
  /\ At(o, "reconcile")
  /\ \/ intent # None /\ Refuse
     \/ intent = None /\ Prepared /\ ~ClassifierOK /\ Refuse
     \/ /\ intent = None /\ Prepared => ClassifierOK
        /\ intent = None
        /\ Go(IF Prepared /\ ~Committed THEN "replay" ELSE "admit") /\ UNCHANGED files

(* publishArtifactTargetsLocked: in order, each with its marker before the   *)
(* next.  A replacement may unlink first, under a marker that says so.       *)
Turn(t) == ~Proven(t) /\ \A u \in Target : u < t => Proven(u)

WithMarkers == journal.files \cup {"markers"}

MarkReplace(t) ==
  /\ Turn(t) /\ ArtifactState(t) = "predecessor" /\ Before(t).by # None /\ ~Replaces(t)
  /\ journal' = [journal EXCEPT !.files = WithMarkers, !.replace = @ \cup {t}]
  /\ UNCHANGED art

UnlinkArtifact(t) ==
  /\ Turn(t) /\ ArtifactState(t) = "predecessor" /\ Replaces(t)
  /\ art' = [art EXCEPT ![t] = [bytes |-> NoBytes, by |-> None]]
  /\ UNCHANGED journal

InstallArtifact(t) ==
  /\ Turn(t)
  /\ \/ ArtifactState(t) = "unlinked"
     \/ ArtifactState(t) = "predecessor" /\ ~Replaces(t)
  /\ art' = [art EXCEPT ![t] = [bytes |-> Wanted(t), by |-> journal.op]]
  /\ UNCHANGED journal

MarkDone(t) ==
  /\ Turn(t) /\ ArtifactState(t) = "candidate"
  /\ journal' = [journal EXCEPT !.files = WithMarkers, !.done = @ \cup {t}]
  /\ UNCHANGED art

ReplayArtifact(o) ==
  /\ At(o, "replay")
  /\ \E t \in Target : MarkReplace(t) \/ UnlinkArtifact(t) \/ InstallArtifact(t) \/ MarkDone(t)
  /\ UNCHANGED <<log, loop, hash, intent, ckpt, holder, step, acked, crashes, harm>>

ReplayLine(o) ==
  /\ At(o, "replay") /\ ArtifactsDone /\ ~LinesDone
  /\ log' = Append(log, Lines(journal.op)[Appended + 1])
  /\ UNCHANGED <<loop, hash, art, journal, intent, ckpt, holder, step, acked, crashes, harm>>

(* Mutant: the two files of the state in the order of a restore.             *)
ReplayStateHashFirst(o) ==
  /\ At(o, "replay") /\ ArtifactsDone /\ LinesDone
  /\ \/ hash = journal.base /\ hash' = journal.cand /\ UNCHANGED loop
     \/ hash = journal.cand /\ loop = journal.base /\ loop' = journal.cand /\ UNCHANGED hash
  /\ UNCHANGED <<log, art, journal, intent, ckpt, holder, step, acked, crashes, harm>>

ReplayState(o) ==
  /\ At(o, "replay") /\ ArtifactsDone /\ LinesDone
  /\ \/ loop = journal.base /\ loop' = journal.cand /\ UNCHANGED hash
     \/ loop = journal.cand /\ hash = journal.base /\ hash' = journal.cand /\ UNCHANGED loop
  /\ UNCHANGED <<log, art, journal, intent, ckpt, holder, step, acked, crashes, harm>>

(* Mutant: the marker is written before the work it stands for.              *)
MarkCommittedEarly(o) ==
  /\ At(o, "replay")
  /\ journal' = [journal EXCEPT !.files = @ \cup {"committed"}]
  /\ Go("admit")
  /\ UNCHANGED <<log, loop, hash, art, intent, ckpt>>

MarkCommitted(o) ==
  /\ At(o, "replay") /\ ArtifactsDone /\ LinesDone
  /\ loop = journal.cand /\ hash = journal.cand
  /\ journal' = [journal EXCEPT !.files = @ \cup {"committed"}]
  /\ Go("admit")
  /\ UNCHANGED <<log, loop, hash, art, intent, ckpt>>

-----------------------------------------------------------------------------
(* A caller that repeats a publication which is still in the journal gets    *)
(* its result again; any other call deletes the committed one.               *)
Mine(o) == Committed /\ journal.op = o

Admit(o) ==
  /\ At(o, "admit")
  /\ \/ Mine(o) /\ Return(o)
     \/ /\ ~Mine(o) /\ UNCHANGED files
        /\ Go(IF Committed THEN "retire" ELSE "snapshot")

(* rmSync takes the files of the directory in any order.                     *)
Remove(o, from, to) ==
  /\ At(o, from)
  /\ \E f \in journal.files :
       IF journal.files = {f} THEN journal' = None /\ Go(to)
       ELSE /\ journal' = [journal EXCEPT !.files = @ \ {f}]
            /\ UNCHANGED <<holder, step, acked, crashes, harm>>
  /\ UNCHANGED <<log, loop, hash, art, intent, ckpt>>

Retire(o) == Remove(o, "retire", "snapshot")

(* Mutant: the caller does not look for its operation in the state.          *)
SnapshotUnchecked(o) ==
  /\ At(o, "snapshot")
  /\ \/ ~SnapshotOK /\ Refuse
     \/ /\ SnapshotOK /\ UNCHANGED files
        /\ \/ o \in Plain  /\ Go("append")
           \/ o \in Silent /\ Go("state")
           \/ o \in Publication /\ Go("prepare")
           \/ o \in Emit   /\ Go("emit")

(* snapshotRaw and the caller's preCheck.  The caller of a publication finds *)
(* in the state that its operation has been done.                            *)
Snapshot(o) ==
  /\ At(o, "snapshot")
  /\ \/ ~SnapshotOK /\ Refuse
     \/ SnapshotOK /\ o \in Publication /\ Entered(loop, o) /\ Refuse
     \/ /\ SnapshotOK /\ UNCHANGED files
        /\ \/ o \in Plain  /\ Go("append")
           \/ o \in Silent /\ Go("state")
           \/ o \in Publication /\ ~Entered(loop, o) /\ Go("prepare")
           \/ o \in Emit   /\ Go("emit")

(* The plain branch: one append per line, then writeState.                   *)
AppendLine(o) ==
  /\ At(o, "append")
  /\ LET n == Len(log) - Len(loop.head)
     IN  /\ log' = Append(log, Lines(o)[n + 1])
         /\ IF n + 1 = Len(Lines(o)) THEN Go("state")
            ELSE UNCHANGED <<holder, step, acked, crashes, harm>>
  /\ UNCHANGED <<loop, hash, art, journal, intent, ckpt>>

WriteLoop(o) == /\ At(o, "state") /\ loop' = Apply(loop, o) /\ Go("anchor")
                /\ UNCHANGED <<log, hash, art, journal, intent, ckpt>>

WriteHash(o) == /\ At(o, "anchor") /\ hash' = loop /\ Go("return")
                /\ UNCHANGED <<log, loop, art, journal, intent, ckpt>>

Finish(o) == At(o, "return") /\ Return(o)

(* emitCompactCheckpoint writes a file about the state it has read.  A       *)
(* restore is named by the key of the file, and a new file has a new key.    *)
FreshKeys == {k \in Restore : ~Entered(loop, k)}

EmitCheckpoint(o) ==
  /\ At(o, "emit")
  /\ \E k \in FreshKeys : ckpt' = [key |-> k, of |-> loop]
  /\ Go("return")
  /\ UNCHANGED <<log, loop, hash, art, journal, intent>>

(* preparePublicationStagesLocked.  cleanupUnprepared deletes what a dead    *)
(* call left, if it still says whose it was and that one is dead by now;     *)
(* then the operation's directory is moved in from the lock's, and written.  *)
Cleanup(o) ==
  /\ At(o, "prepare") /\ journal # None /\ UNCHANGED files
  /\ \/ Has("owner") /\ Go("sweep")
     \/ Leave /\ UNCHANGED acked

Sweep(o) == Remove(o, "sweep", "prepare")

Bootstrap(o) ==
  /\ At(o, "prepare") /\ journal = None
  /\ journal' = [op |-> o, files |-> {"owner"}, base |-> loop, cand |-> Apply(loop, o),
                 before |-> art, done |-> {}, replace |-> {}]
  /\ Go("stages")
  /\ UNCHANGED <<log, loop, hash, art, intent, ckpt>>

WriteStages(o) ==
  /\ At(o, "stages") /\ ~Has("stages")
  /\ journal' = [journal EXCEPT !.files = @ \cup {"stages"}]
  /\ UNCHANGED <<log, loop, hash, art, intent, ckpt, holder, step, acked, crashes, harm>>

WritePrepared(o) ==
  /\ At(o, "stages") /\ Has("stages")
  /\ journal' = [journal EXCEPT !.files = @ \cup {"prepared"}] /\ Go("reconcile")
  /\ UNCHANGED <<log, loop, hash, art, intent, ckpt>>

(* A write fails before prepared.json: the directory is taken away again.    *)
PrepareFails(o) == At(o, "stages") /\ Go("abandon") /\ UNCHANGED files
Abandon(o)      == Remove(o, "abandon", "fail")
Fail(o)         == At(o, "fail") /\ Refuse

-----------------------------------------------------------------------------
(* commitOrReplayCompactRestore.                                             *)
RestoreLines == intent.base.head \o Lines(intent.op)

(* Mutant: the partial states of a publication, which writes loop.json first.*)
PartialLoopFirst ==
  /\ log \in {intent.base.head, RestoreLines}
  /\ \/ loop = intent.base /\ hash = intent.base
     \/ loop = intent.cand /\ hash \in {intent.base, intent.cand} /\ log = RestoreLines

(* classifyHashFirstRestorePartial and classifyRestoreLog.                   *)
LogPartial == log \in {intent.base.head, RestoreLines}

PartialOK == /\ LogPartial
             /\ \/ loop = intent.base /\ hash = intent.base
                \/ loop = intent.base /\ hash = intent.cand
                \/ loop = intent.cand /\ hash = intent.cand /\ log = RestoreLines

JournalEmpty == journal = None

(* validateRestoreAdmission: the checkpoint is of the state that is there.   *)
Admissible(o) == SnapshotOK /\ ckpt = [key |-> o, of |-> hash]
Replayable(o) == SnapshotOK /\ log # <<>> /\ log[Len(log)] = <<o, "event">>

(* Mutant: the journal is looked at by ordinary calls only.                  *)
WriteIntentOverJournal(o) ==
  /\ At(o, "restore") /\ intent = None /\ ~Replayable(o) /\ Admissible(o)
  /\ intent' = [op |-> o, base |-> loop, cand |-> Apply(loop, o)]
  /\ Go("restoring") /\ UNCHANGED <<log, loop, hash, art, journal, ckpt>>

WriteIntent(o) ==
  /\ At(o, "restore") /\ intent = None /\ ~Replayable(o) /\ Admissible(o)
  /\ JournalEmpty
  /\ intent' = [op |-> o, base |-> loop, cand |-> Apply(loop, o)]
  /\ Go("restoring") /\ UNCHANGED <<log, loop, hash, art, journal, ckpt>>

ResumeIntent(o) ==
  /\ At(o, "restore") /\ intent # None
  /\ intent.op = o /\ JournalEmpty /\ PartialOK
  /\ Go("restoring") /\ UNCHANGED files

ReplayRestore(o) ==
  /\ At(o, "restore") /\ intent = None /\ Replayable(o) /\ JournalEmpty /\ Return(o)

RefuseRestore(o) ==
  /\ At(o, "restore")
  /\ IF intent = None
     THEN (~Replayable(o) /\ ~Admissible(o)) \/ ~JournalEmpty
     ELSE intent.op # o \/ ~JournalEmpty \/ ~PartialOK
  /\ Refuse

Restoring(o) == At(o, "restoring") /\ UNCHANGED <<art, journal, ckpt>>

RestoreLine(o) ==
  /\ Restoring(o) /\ log = intent.base.head
  /\ log' = RestoreLines
  /\ UNCHANGED <<loop, hash, intent, holder, step, acked, crashes, harm>>

RestoreState(o) ==
  /\ Restoring(o) /\ log = RestoreLines
  /\ \/ hash = intent.base /\ hash' = intent.cand /\ UNCHANGED loop
     \/ hash = intent.cand /\ loop = intent.base /\ loop' = intent.cand /\ UNCHANGED hash
  /\ UNCHANGED <<log, intent, holder, step, acked, crashes, harm>>

RemoveIntent(o) ==
  /\ Restoring(o) /\ loop = intent.cand /\ hash = intent.cand
  /\ intent' = None /\ Go("return") /\ UNCHANGED <<log, loop, hash>>

-----------------------------------------------------------------------------
(* The holder is killed.  Two windows have no repair: a plain append whose   *)
(* state is not whole yet, and a deletion in the journal.                    *)
Unrepaired == \/ step \in {"append", "state", "anchor"} /\ ~SnapshotOK
              \/ step \in {"retire", "sweep", "abandon"}

Crash ==
  /\ holder # None /\ crashes < MaxCrashes
  /\ holder' = None /\ step' = "free" /\ crashes' = crashes + 1
  /\ harm' = (harm \/ Unrepaired)
  /\ UNCHANGED <<files, acked>>

Work(o) ==
  \/ Reconcile(o) \/ ReplayArtifact(o) \/ ReplayLine(o) \/ ReplayState(o) \/ MarkCommitted(o)
  \/ Admit(o) \/ Retire(o) \/ Snapshot(o) \/ AppendLine(o) \/ WriteLoop(o) \/ WriteHash(o)
  \/ EmitCheckpoint(o) \/ Finish(o)
  \/ Cleanup(o) \/ Sweep(o) \/ Bootstrap(o) \/ WriteStages(o) \/ WritePrepared(o)
  \/ PrepareFails(o) \/ Abandon(o) \/ Fail(o)
  \/ WriteIntent(o) \/ ResumeIntent(o) \/ ReplayRestore(o) \/ RefuseRestore(o)
  \/ RestoreLine(o) \/ RestoreState(o) \/ RemoveIntent(o)

Next == Crash \/ \E o \in Op : Enter(o) \/ Work(o)

Spec == Init /\ [][Next]_vars

(* The calls that wait for the lock get it in turn: each is a loop of its    *)
(* agent or host that asks again; a call that has the lock runs on.          *)
FairSpec == /\ Spec
            /\ WF_vars(\E o \in Op : Work(o))
            /\ SF_vars(\E o \in Op \ Restore : Enter(o))
            /\ \A r \in Restore : SF_vars(Enter(r))

-----------------------------------------------------------------------------
(* A publication is decided when prepared.json is there, and done with the   *)
(* hash.                                                                     *)
Decided == Prepared /\ hash # journal.cand

(* What a state promises.  Whatever was killed in between, if no journal and *)
(* no intent is pending the three files agree; a pending one is such that    *)
(* the next call can complete it.  Only the windows of `harm' are excepted.  *)
CrashesAreRepairable ==
  holder = None /\ ~harm =>
    /\ Prepared => ClassifierOK
    /\ intent # None => PartialOK
    /\ ~Decided /\ intent = None => SnapshotOK

(* inspectAnchoredPublication and, on it, verifiedCaptureLocked: what a read *)
(* calls clean.                                                              *)
Inspected     == ClassifierOK /\ Committed
VerifiedClean == (journal # None => Inspected) /\ SnapshotOK

(* A verified read that reports a clean run sees artifacts and state of one  *)
(* commit, even after crashes that cannot be repaired.                       *)
CleanReadIsWhole ==
  holder = None /\ VerifiedClean => \A t \in Target : art[t].bytes = loop.arts[t]

(* The two protocols that outlive a call are never pending together.         *)
OneProtocolPending == intent # None => ~Prepared

(* The state as callers know it: what is decided, else what the hash names.  *)
value == IF Decided THEN journal.cand ELSE hash

Promise == INSTANCE AtomicCommit WITH
             Op <- Writing, Once <- Publication \cup Restore,
             acked <- acked \cap Writing

(* The store implements an atomic commit: a publication that was prepared is *)
(* never lost or done twice, and a call returns only when its commit is      *)
(* decided.                                                                  *)
CommitsAtomically == Promise!Init(Blank) /\ [][Promise!Next]_<<value, acked \cap Writing>>

(* What is pending is completed by later calls.                              *)
RollsForward == /\ Decided ~> ~Decided
                /\ intent # None ~> intent = None
=============================================================================
