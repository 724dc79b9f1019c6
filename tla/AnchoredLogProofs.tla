------------------------- MODULE AnchoredLogProofs --------------------------
(* The store of a run implements an atomic commit, for any operations,       *)
(* artifacts and number of killed calls.                                     *)
EXTENDS AnchoredLog, SequenceTheorems, TLAPS

Logging == Plain \cup Publication \cup Restore

LEMMA LinesAreLines ==
  ASSUME NEW o \in Op
  PROVE  /\ Lines(o) \in Seq(Line)
         /\ \A j \in DOMAIN Lines(o) : Lines(o)[j][1] = o
         /\ o \in Logging => Len(Lines(o)) > 0
<1>1. CASE o \in Silent \cup Emit
  <2>1. Lines(o) = <<>>
    BY <1>1 DEF Lines
  <2> QED
    BY <1>1, <2>1, KindAssumption DEF Logging
<1>2. CASE o \in Restore
  <2>1. Lines(o) = <<<<o, "event">>>> /\ <<o, "event">> \in Line
    BY <1>2, KindAssumption DEF Lines, Line
  <2> QED
    BY <2>1
<1>3. CASE o \notin Silent \cup Emit \cup Restore
  <2>1. Lines(o) = <<<<o, "event">>, <<o, "cost">>>> /\ <<o, "event">> \in Line /\ <<o, "cost">> \in Line
    BY <1>3 DEF Lines, Line
  <2> QED
    BY <2>1
<1> QED
  BY <1>1, <1>2, <1>3

LEMMA ApplyIsState ==
  ASSUME NEW st \in State, NEW o \in Op
  PROVE  Apply(st, o) \in State
<1>1. Apply(st, o).head \in Seq(Line)
  BY LinesAreLines DEF Apply, State
<1> QED
  BY <1>1 DEF Apply, State

(* An operation that logs is in the log of its state, which is another one.  *)
LEMMA Enters ==
  ASSUME NEW st \in State, NEW o \in Logging
  PROVE  /\ Apply(st, o) # st
         /\ \E i \in DOMAIN Apply(st, o).head :
              Apply(st, o).head[i] \in {Lines(o)[j] : j \in DOMAIN Lines(o)}
<1> DEFINE L == Lines(o)
           h == st.head
<1>1. o \in Op /\ h \in Seq(Line) /\ L \in Seq(Line) /\ Len(L) > 0
  BY LinesAreLines DEF State, Op, Writing, Logging
<1>2. Apply(st, o).head = h \o L
  BY DEF Apply
<1> HIDE DEF L, h
<1>3. Len(h \o L) # Len(h) /\ Len(h) + 1 \in DOMAIN (h \o L) /\ (h \o L)[Len(h) + 1] = L[1]
  BY <1>1
<1>4. 1 \in DOMAIN L
  BY <1>1
<1> QED
  BY <1>2, <1>3, <1>4 DEF h, L

LEMMA NotEntered ==
  ASSUME NEW st \in State, NEW o \in Op, ~Entered(st, o)
  PROVE  ~\E i \in DOMAIN st.head : st.head[i] \in {Lines(o)[j] : j \in DOMAIN Lines(o)}
<1> SUFFICES ASSUME NEW i \in DOMAIN st.head, NEW j \in DOMAIN Lines(o), st.head[i] = Lines(o)[j]
             PROVE  FALSE
  OBVIOUS
<1>1. st.head[i][1] = o
  BY LinesAreLines
<1>2. i \in 1..Len(st.head)
  BY DEF State
<1> QED
  BY <1>1, <1>2 DEF Entered

Logged(st, o) == \E i \in DOMAIN st.head : st.head[i] \in {Lines(o)[j] : j \in DOMAIN Lines(o)}

-----------------------------------------------------------------------------
JournalOK == journal # None => journal.cand = Apply(journal.base, journal.op)

IntentOK == intent # None => /\ intent.cand = Apply(intent.base, intent.op)
                             /\ ~Entered(intent.base, intent.op)

StoreOK == /\ loop \in State /\ hash \in State /\ art \in [Target -> File]
           /\ journal \in Journal \cup {None} /\ JournalOK
           /\ intent \in Intent \cup {None} /\ IntentOK
           /\ ckpt.key # None => ~Entered(ckpt.of, ckpt.key)

Reconciled == {"replay", "admit", "retire", "snapshot", "append", "state", "anchor", "return",
               "emit", "prepare", "sweep", "stages", "abandon", "fail"}
Clear      == {"snapshot", "append", "state", "anchor", "return", "emit", "prepare", "sweep",
               "stages", "abandon", "fail", "restoring"}

StepOK ==
  /\ step \in Reconciled => intent = None
  /\ step \in Clear => ~Prepared
  /\ step = "replay" => Whole
  /\ step = "admit" /\ Prepared => Committed /\ hash = journal.cand
  /\ step = "retire" => journal # None /\ hash = journal.cand
  /\ step \in {"sweep", "abandon"} => journal # None
  /\ step \in {"append", "state", "prepare", "sweep", "stages"} => loop = hash
  /\ step = "emit" => holder \in Emit
  /\ step \in {"append", "state", "anchor"} => holder \in Plain \cup Silent
  /\ step = "anchor" => loop = Apply(hash, holder)
  /\ step \in {"prepare", "sweep", "stages"} => holder \in Publication /\ ~Entered(loop, holder)
  /\ step = "stages" => journal # None /\ journal.op = holder /\ journal.base = loop
  /\ step = "return" /\ holder \in Logging => Logged(hash, holder)
  /\ step = "restore" => holder \in Restore
  /\ step = "restoring" => /\ intent # None /\ journal = None
                           /\ holder \in Restore /\ intent.op = holder

PendingOK == intent # None => ~Prepared

Inv == StoreOK /\ StepOK /\ PendingOK

Decides == Promise!Next \/ UNCHANGED <<value, acked \cap Writing>>

-----------------------------------------------------------------------------
LEMMA ValueIs == /\ value = IF Prepared THEN journal.cand ELSE hash
                 /\ value' = IF Prepared' THEN journal'.cand ELSE hash'
  BY DEF value, Decided

LEMMA QuietDecides == ASSUME UNCHANGED <<value, acked>> PROVE Decides
  BY DEF Decides

LEMMA CommitDecides ==
  ASSUME NEW o \in Writing, o \in Publication \cup Restore => ~Logged(value, o),
         value' = Apply(value, o), UNCHANGED acked
  PROVE  Decides
<1>1. Promise!Commit(o)
  BY DEF Promise!Commit, Promise!InLog, Logged
<1> QED
  BY <1>1 DEF Decides, Promise!Next

LEMMA ReturnDecides ==
  ASSUME NEW o \in Op, acked' = acked \cup {o}, UNCHANGED value,
         o \in Logging => Logged(value, o)
  PROVE  Decides
<1>1. CASE o \in Emit
  <2>1. o \notin Writing
    BY <1>1, KindAssumption DEF Writing
  <2> QED
    BY <2>1 DEF Decides
<1>2. CASE o \in Writing
  <2>1. Lines(o) # <<>> => Logged(value, o)
    BY <1>2 DEF Lines, Writing, Logging
  <2>2. Promise!Return(o)
    BY <1>2, <2>1 DEF Promise!Return, Promise!InLog, Logged
  <2> QED
    BY <1>2, <2>2 DEF Decides, Promise!Next
<1> QED
  BY <1>1, <1>2 DEF Op

LEMMA InitInv == Init => Inv
<1> SUFFICES ASSUME Init PROVE Inv
  OBVIOUS
<1>1. Blank \in State
  BY DEF Blank, State
<1>2. art \in [Target -> File]
  BY DEF Init, File, Content
<1> QED
  BY <1>1, <1>2 DEF Init, Inv, StoreOK, JournalOK, IntentOK, StepOK, PendingOK, Reconciled, Clear,
     Prepared, Has

USE DEF At, Go, Leave, Refuse, Return

LEMMA ReconcileInv == ASSUME Inv, NEW o \in Op, Reconcile(o) PROVE Inv'
<1>1. StoreOK'
  BY DEF Inv, StoreOK, JournalOK, IntentOK, Reconcile, files
<1>2. StepOK'
  BY DEF Inv, StepOK, Reconcile, files, Reconciled, Clear, Prepared, Whole, Committed, Has, ClassifierOK, HashAt
<1>3. PendingOK'
  BY DEF Inv, PendingOK, Reconcile, files, Prepared, Has
<1> QED BY <1>1, <1>2, <1>3 DEF Inv

(* A step of the replay that writes artifacts and markers.                   *)
LEMMA ReplayArtifactInv ==
  ASSUME Inv, NEW o \in Op, ReplayArtifact(o)
  PROVE  /\ Inv'
         /\ journal' # None /\ journal'.cand = journal.cand
         /\ Prepared' = Prepared
<1>1. /\ UNCHANGED <<loop, hash, intent, ckpt, holder, step>> /\ step = "replay"
      /\ \E t \in Target : MarkReplace(t) \/ UnlinkArtifact(t) \/ InstallArtifact(t) \/ MarkDone(t)
  BY DEF ReplayArtifact
<1>2. journal \in Journal
  BY <1>1 DEF Inv, StepOK, StoreOK, Whole, Prepared, Has
<1>3. PICK t \in Target : MarkReplace(t) \/ UnlinkArtifact(t) \/ InstallArtifact(t) \/ MarkDone(t)
  BY <1>1
<1>4. art' \in [Target -> File]
  <2>1. Wanted(t) \in Content /\ journal.op \in Publication
    BY <1>2 DEF Wanted, Content, Journal
  <2>2. art \in [Target -> File]
    BY DEF Inv, StoreOK
  <2>3. [bytes |-> NoBytes, by |-> None] \in File /\ [bytes |-> Wanted(t), by |-> journal.op] \in File
    BY <2>1 DEF File, Content
  <2>4. \/ art' = art
        \/ art' = [art EXCEPT ![t] = [bytes |-> NoBytes, by |-> None]]
        \/ art' = [art EXCEPT ![t] = [bytes |-> Wanted(t), by |-> journal.op]]
    BY <1>3 DEF MarkReplace, UnlinkArtifact, InstallArtifact, MarkDone
  <2> QED
    BY <2>2, <2>3, <2>4
<1>5. \/ UNCHANGED journal
      \/ journal' = [journal EXCEPT !.files = WithMarkers, !.replace = @ \cup {t}]
      \/ journal' = [journal EXCEPT !.files = WithMarkers, !.done = @ \cup {t}]
  BY <1>3 DEF MarkReplace, UnlinkArtifact, InstallArtifact, MarkDone
<1>6. /\ journal' \in Journal /\ journal'.op = journal.op /\ journal'.base = journal.base
      /\ journal'.cand = journal.cand
      /\ \A f \in {"owner", "stages", "prepared"} : f \in journal'.files <=> f \in journal.files
  <2>1. WithMarkers \in SUBSET {"owner", "stages", "prepared", "markers", "committed"}
        /\ \A f \in {"owner", "stages", "prepared"} : f \in WithMarkers <=> f \in journal.files
    BY <1>2 DEF Journal, WithMarkers
  <2> HIDE DEF WithMarkers
  <2>2. CASE UNCHANGED journal
    BY <1>2, <2>2
  <2>3. CASE journal' = [journal EXCEPT !.files = WithMarkers, !.replace = @ \cup {t}]
    BY <1>2, <2>1, <2>3 DEF Journal
  <2>4. CASE journal' = [journal EXCEPT !.files = WithMarkers, !.done = @ \cup {t}]
    BY <1>2, <2>1, <2>4 DEF Journal
  <2> QED
    BY <1>5, <2>2, <2>3, <2>4
<1>7. journal' # None /\ journal # None
  BY <1>2, <1>6, NoneAssumption
<1>8. StoreOK'
  BY <1>1, <1>4, <1>6, <1>7 DEF Inv, StoreOK, JournalOK, IntentOK
<1>9. StepOK' /\ PendingOK' /\ Prepared' = Prepared
  BY <1>1, <1>6, <1>7 DEF Inv, StepOK, PendingOK, Reconciled, Clear, Prepared, Whole, Has
<1> QED
  BY <1>6, <1>7, <1>8, <1>9 DEF Inv

LEMMA ReplayArtifactDecides ==
  ASSUME Inv, NEW o \in Op, ReplayArtifact(o)
  PROVE  Decides
<1>1. journal' # None /\ journal'.cand = journal.cand /\ Prepared' = Prepared
  BY ReplayArtifactInv
<1>2. UNCHANGED <<hash, acked>> /\ Prepared
  BY DEF ReplayArtifact, Inv, StepOK, Whole
<1> QED
  BY <1>1, <1>2, ValueIs, QuietDecides

(* A step that changes neither the decided state nor what is pending.        *)
Still == UNCHANGED <<loop, hash, art, journal, intent, ckpt>>

LEMMA StillDecides == ASSUME UNCHANGED <<hash, journal, acked>> PROVE Decides
<1>1. Prepared' = Prepared
  BY DEF Prepared, Has
<1> QED
  BY <1>1, ValueIs, QuietDecides

LEMMA StillStoreOK == ASSUME Inv, Still PROVE StoreOK' /\ PendingOK'
  BY DEF Inv, Still, StoreOK, JournalOK, IntentOK, PendingOK, Prepared, Has

LEMMA ReplayLineInv == ASSUME Inv, NEW o \in Op, ReplayLine(o) PROVE Inv' /\ Decides
<1>1. Still /\ UNCHANGED <<holder, step, acked>>
  BY DEF ReplayLine, Still
<1>2. StepOK'
  BY <1>1 DEF Inv, StepOK, Still, Reconciled, Clear, Prepared, Whole, Committed, Has
<1> QED
  BY <1>1, <1>2, StillStoreOK, StillDecides DEF Inv, Still

LEMMA ReplayStateInv == ASSUME Inv, NEW o \in Op, ReplayState(o) PROVE Inv' /\ Decides
<1>1. /\ UNCHANGED <<art, journal, intent, ckpt, holder, step, acked>> /\ step = "replay"
      /\ \/ loop' = journal.cand /\ UNCHANGED hash
         \/ hash' = journal.cand /\ UNCHANGED loop
  BY DEF ReplayState
<1>2. Whole /\ Prepared /\ journal \in Journal
  BY <1>1 DEF Inv, StepOK, StoreOK, Whole, Prepared, Has
<1>3. Whole' /\ Prepared'
  BY <1>1, <1>2 DEF Whole, Prepared, Has
<1>4. StoreOK'
  BY <1>1, <1>2 DEF Inv, StoreOK, JournalOK, IntentOK, Journal
<1>5. StepOK' /\ PendingOK'
  BY <1>1, <1>3 DEF Inv, StepOK, PendingOK, Reconciled, Clear, Prepared
<1>6. Decides
  BY <1>1, <1>2, <1>3, ValueIs, QuietDecides
<1> QED
  BY <1>4, <1>5, <1>6 DEF Inv

LEMMA MarkCommittedInv == ASSUME Inv, NEW o \in Op, MarkCommitted(o) PROVE Inv' /\ Decides
<1> DEFINE fs == journal.files \cup {"committed"}
<1>1. /\ UNCHANGED <<loop, hash, art, intent, ckpt, holder, acked>>
      /\ step = "replay" /\ step' = "admit" /\ hash = journal.cand
      /\ journal' = [journal EXCEPT !.files = fs]
  BY DEF MarkCommitted
<1>2. Whole /\ journal \in Journal
  BY <1>1 DEF Inv, StepOK, StoreOK, Whole, Prepared, Has
<1>3. fs \in SUBSET {"owner", "stages", "prepared", "markers", "committed"}
  BY <1>2 DEF Journal
<1>4. /\ journal' \in Journal /\ journal'.op = journal.op /\ journal'.base = journal.base
      /\ journal'.cand = journal.cand /\ journal'.files = fs
  <2> HIDE DEF fs
  <2> QED
    BY <1>1, <1>2, <1>3 DEF Journal
<1>5. journal' # None /\ Committed' /\ Prepared' /\ Prepared
  BY <1>2, <1>4, NoneAssumption DEF Committed, Whole, Prepared, Has
<1>6. StoreOK'
  BY <1>1, <1>2, <1>4, <1>5 DEF Inv, StoreOK, JournalOK, IntentOK, Whole, Prepared, Has
<1>7. StepOK' /\ PendingOK'
  BY <1>1, <1>4, <1>5 DEF Inv, StepOK, PendingOK, Reconciled, Clear
<1>8. Decides
  BY <1>1, <1>4, <1>5, ValueIs, QuietDecides
<1> QED
  BY <1>6, <1>7, <1>8 DEF Inv

LEMMA AdmitInv == ASSUME Inv, NEW o \in Op, Admit(o) PROVE Inv' /\ Decides
<1>1. Still /\ UNCHANGED files /\ step = "admit"
  BY DEF Admit, Still, files
<1>2. StepOK'
  BY <1>1 DEF Inv, Admit, Still, Mine, StepOK, Reconciled, Clear, Prepared, Whole, Committed, Has
<1>3. ASSUME Mine(o), Return(o) PROVE Decides
  <2>1. /\ Prepared /\ hash = journal.cand /\ journal \in Journal /\ journal.op = o
        /\ journal.cand = Apply(journal.base, o)
    BY <1>1, <1>3 DEF Mine, Inv, StepOK, StoreOK, JournalOK, Committed, Whole, Prepared, Has
  <2>2. o \in Logging /\ journal.base \in State
    BY <2>1 DEF Journal, Logging
  <2>3. Logged(hash, o)
    BY <2>1, <2>2, Enters DEF Logged
  <2>4. value = hash /\ UNCHANGED value /\ acked' = acked \cup {o}
    BY <1>1, <1>3, <2>1, ValueIs DEF Still, Prepared, Has
  <2> QED
    BY <2>3, <2>4, ReturnDecides
<1>4. UNCHANGED acked => Decides
  BY <1>1, StillDecides DEF Still
<1> QED
  BY <1>1, <1>2, <1>3, <1>4, StillStoreOK DEF Inv, Admit

(* A deletion in the journal, where what it holds is not decided or done.    *)
LEMMA RemoveKeeps ==
  ASSUME Inv, NEW o \in Op, NEW from, NEW to, Remove(o, from, to), journal # None
  PROVE  /\ StoreOK' /\ (Prepared' => Prepared) /\ UNCHANGED <<loop, hash, intent, holder, acked>>
         /\ \/ journal' = None /\ step' = to
            \/ journal' # None /\ step' = step
         /\ journal' # None => journal'.cand = journal.cand
<1>1. /\ UNCHANGED <<loop, hash, art, intent, ckpt, holder, acked>> /\ journal \in Journal
  BY DEF Remove, Inv, StoreOK
<1>2. CASE journal' = None /\ step' = to
  BY <1>1, <1>2 DEF Inv, StoreOK, JournalOK, IntentOK, Prepared, Has
<1>3. ASSUME NEW f \in journal.files, journal' = [journal EXCEPT !.files = @ \ {f}], UNCHANGED step
      PROVE  /\ journal' \in Journal /\ journal'.cand = journal.cand /\ journal'.op = journal.op
             /\ journal'.base = journal.base /\ journal'.files = journal.files \ {f}
  <2> DEFINE fs == journal.files \ {f}
  <2>1. fs \in SUBSET {"owner", "stages", "prepared", "markers", "committed"}
    BY <1>1 DEF Journal
  <2>2. journal' = [journal EXCEPT !.files = fs]
    BY <1>3
  <2> HIDE DEF fs
  <2>3. /\ journal' \in Journal /\ journal'.cand = journal.cand /\ journal'.op = journal.op
        /\ journal'.base = journal.base /\ journal'.files = fs
    BY <1>1, <2>1, <2>2 DEF Journal
  <2> QED
    BY <2>3 DEF fs
<1>4. CASE \E f \in journal.files : journal' = [journal EXCEPT !.files = @ \ {f}] /\ UNCHANGED step
  <2>1. PICK f \in journal.files : journal' = [journal EXCEPT !.files = @ \ {f}] /\ UNCHANGED step
    BY <1>4
  <2>2. /\ journal' \in Journal /\ journal'.cand = journal.cand /\ journal'.op = journal.op
        /\ journal'.base = journal.base /\ journal'.files = journal.files \ {f}
    BY <1>3, <2>1
  <2>3. journal' # None
    BY <2>2, NoneAssumption
  <2>4. StoreOK'
    BY <1>1, <2>2, <2>3 DEF Inv, StoreOK, JournalOK, IntentOK
  <2> QED
    BY <1>1, <2>1, <2>2, <2>3, <2>4 DEF Prepared, Has
<1> QED
  BY <1>2, <1>4 DEF Remove

LEMMA RetireInv == ASSUME Inv, NEW o \in Op, Retire(o) PROVE Inv' /\ Decides
<1>1. step = "retire" /\ journal # None /\ hash = journal.cand /\ intent = None
  BY DEF Retire, Remove, Inv, StepOK, Reconciled
<1>2. /\ StoreOK' /\ (Prepared' => Prepared) /\ UNCHANGED <<loop, hash, intent, holder, acked>>
      /\ \/ journal' = None /\ step' = "snapshot"
         \/ journal' # None /\ step' = step
      /\ journal' # None => journal'.cand = journal.cand
  BY <1>1, RemoveKeeps DEF Retire
<1>3. StepOK' /\ PendingOK'
  BY <1>1, <1>2 DEF StepOK, PendingOK, Reconciled, Clear, Prepared, Has
<1>4. Decides
  BY <1>1, <1>2, ValueIs, QuietDecides DEF Prepared, Has
<1> QED
  BY <1>2, <1>3, <1>4 DEF Inv

LEMMA SweepInv == ASSUME Inv, NEW o \in Op, Sweep(o) PROVE Inv' /\ Decides
<1>1. /\ step = "sweep" /\ journal # None /\ intent = None /\ ~Prepared /\ loop = hash
      /\ holder \in Publication /\ ~Entered(loop, holder)
  BY DEF Sweep, Remove, Inv, StepOK, Reconciled, Clear
<1>2. /\ StoreOK' /\ (Prepared' => Prepared) /\ UNCHANGED <<loop, hash, intent, holder, acked>>
      /\ \/ journal' = None /\ step' = "prepare"
         \/ journal' # None /\ step' = step
  BY <1>1, RemoveKeeps DEF Sweep
<1>3. StepOK' /\ PendingOK'
  BY <1>1, <1>2 DEF StepOK, PendingOK, Reconciled, Clear
<1>4. Decides
  BY <1>1, <1>2, ValueIs, QuietDecides
<1> QED
  BY <1>2, <1>3, <1>4 DEF Inv

LEMMA AbandonInv == ASSUME Inv, NEW o \in Op, Abandon(o) PROVE Inv' /\ Decides
<1>1. step = "abandon" /\ journal # None /\ intent = None /\ ~Prepared
  BY DEF Abandon, Remove, Inv, StepOK, Reconciled, Clear
<1>2. /\ StoreOK' /\ (Prepared' => Prepared) /\ UNCHANGED <<loop, hash, intent, holder, acked>>
      /\ \/ journal' = None /\ step' = "fail"
         \/ journal' # None /\ step' = step
  BY <1>1, RemoveKeeps DEF Abandon
<1>3. StepOK' /\ PendingOK'
  BY <1>1, <1>2 DEF StepOK, PendingOK, Reconciled, Clear
<1>4. Decides
  BY <1>1, <1>2, ValueIs, QuietDecides
<1> QED
  BY <1>2, <1>3, <1>4 DEF Inv

-----------------------------------------------------------------------------
LEMMA SnapshotInv == ASSUME Inv, NEW o \in Op, Snapshot(o) PROVE Inv' /\ Decides
<1>1. Still /\ UNCHANGED acked /\ step = "snapshot" /\ holder = o
  BY DEF Snapshot, Still, files
<1>2. \/ step' = "free"
      \/ /\ UNCHANGED holder /\ loop = hash
         /\ \/ o \in Plain /\ step' = "append"
            \/ o \in Silent /\ step' = "state"
            \/ o \in Publication /\ ~Entered(loop, o) /\ step' = "prepare"
            \/ o \in Emit /\ step' = "emit"
  BY DEF Snapshot, SnapshotOK
<1>3. intent = None /\ ~Prepared /\ ~Prepared'
  BY <1>1 DEF Inv, StepOK, Still, Reconciled, Clear, Prepared, Has
<1>4. StepOK'
  BY <1>1, <1>2, <1>3 DEF StepOK, Still, Reconciled, Clear, Entered
<1> QED
  BY <1>1, <1>4, StillStoreOK, StillDecides DEF Inv, Still

LEMMA AppendLineInv == ASSUME Inv, NEW o \in Op, AppendLine(o) PROVE Inv' /\ Decides
<1>1. Still /\ UNCHANGED <<acked, holder>> /\ step = "append" /\ step' \in {"append", "state"}
  BY DEF AppendLine, Still
<1>2. intent = None /\ ~Prepared' /\ loop = hash /\ holder \in Plain \cup Silent
  BY <1>1 DEF Inv, StepOK, Still, Reconciled, Clear, Prepared, Has
<1>3. StepOK'
  BY <1>1, <1>2 DEF StepOK, Still, Reconciled, Clear
<1> QED
  BY <1>1, <1>3, StillStoreOK, StillDecides DEF Inv, Still

LEMMA WriteLoopInv == ASSUME Inv, NEW o \in Op, WriteLoop(o) PROVE Inv' /\ Decides
<1>1. /\ UNCHANGED <<hash, art, journal, intent, ckpt, acked, holder>> /\ holder = o
      /\ step = "state" /\ step' = "anchor" /\ loop' = Apply(loop, o)
  BY DEF WriteLoop
<1>2. intent = None /\ ~Prepared' /\ loop = hash /\ holder \in Plain \cup Silent
  BY <1>1 DEF Inv, StepOK, Reconciled, Clear, Prepared, Has
<1>3. StepOK' /\ PendingOK'
  BY <1>1, <1>2 DEF StepOK, PendingOK, Reconciled, Clear
<1>4. StoreOK'
  BY <1>1, ApplyIsState DEF Inv, StoreOK, JournalOK, IntentOK
<1> QED
  BY <1>1, <1>3, <1>4, StillDecides DEF Inv

LEMMA WriteHashInv == ASSUME Inv, NEW o \in Op, WriteHash(o) PROVE Inv' /\ Decides
<1>1. /\ UNCHANGED <<loop, art, journal, intent, ckpt, acked, holder>> /\ holder = o
      /\ step = "anchor" /\ step' = "return" /\ hash' = loop
  BY DEF WriteHash
<1>2. /\ intent = None /\ ~Prepared /\ ~Prepared' /\ loop = Apply(hash, o)
      /\ o \in Plain \cup Silent /\ hash \in State
  BY <1>1 DEF Inv, StoreOK, StepOK, Reconciled, Clear, Prepared, Has
<1>3. o \in Logging => Logged(loop, o)
  BY <1>2, Enters DEF Logged
<1>4. StepOK' /\ PendingOK'
  BY <1>1, <1>2, <1>3 DEF StepOK, PendingOK, Reconciled, Clear
<1>5. StoreOK'
  BY <1>1 DEF Inv, StoreOK, JournalOK, IntentOK
<1>6. value = hash /\ value' = Apply(value, o)
  BY <1>1, <1>2, ValueIs
<1>7. o \in Writing /\ o \notin Publication \cup Restore
  BY <1>2, KindAssumption DEF Writing
<1> QED
  BY <1>1, <1>4, <1>5, <1>6, <1>7, CommitDecides DEF Inv

LEMMA FinishInv == ASSUME Inv, NEW o \in Op, Finish(o) PROVE Inv' /\ Decides
<1>1. Still /\ acked' = acked \cup {o} /\ holder = o /\ step = "return" /\ step' = "free"
  BY DEF Finish, Still, files
<1>2. ~Prepared /\ ~Prepared' /\ (o \in Logging => Logged(hash, o))
  BY <1>1 DEF Inv, StepOK, Still, Clear, Prepared, Has
<1>3. StepOK'
  BY <1>1, <1>2 DEF StepOK, Reconciled, Clear
<1>4. Decides
  BY <1>1, <1>2, ValueIs, ReturnDecides DEF Still
<1> QED
  BY <1>1, <1>3, <1>4, StillStoreOK DEF Inv

LEMMA EmitCheckpointInv == ASSUME Inv, NEW o \in Op, EmitCheckpoint(o) PROVE Inv' /\ Decides
<1>1. /\ UNCHANGED <<loop, hash, art, journal, intent, acked, holder>> /\ step = "emit" /\ step' = "return"
      /\ ckpt'.key # None => ~Entered(ckpt'.of, ckpt'.key)
  BY DEF EmitCheckpoint, FreshKeys
<1>2. intent = None /\ ~Prepared' /\ holder \in Emit
  BY <1>1 DEF Inv, StepOK, Reconciled, Clear, Prepared, Has
<1>3. holder \notin Logging
  BY <1>2, KindAssumption DEF Logging
<1>4. StepOK' /\ PendingOK'
  BY <1>1, <1>2, <1>3 DEF StepOK, PendingOK, Reconciled, Clear
<1>5. StoreOK'
  BY <1>1 DEF Inv, StoreOK, JournalOK, IntentOK
<1> QED
  BY <1>1, <1>4, <1>5, StillDecides DEF Inv

(* The steps that only move on.                                              *)
LEMMA MovesInv ==
  ASSUME Inv, NEW o \in Op, Cleanup(o) \/ PrepareFails(o) \/ Fail(o)
  PROVE  Inv' /\ Decides
<1>1. Still /\ UNCHANGED acked
  BY DEF Cleanup, PrepareFails, Fail, Still, files
<1>2. \/ step' = "free"
      \/ UNCHANGED holder /\ step = "prepare" /\ journal # None /\ step' = "sweep"
      \/ UNCHANGED holder /\ step = "stages" /\ step' = "abandon"
  BY DEF Cleanup, PrepareFails, Fail
<1>3. step' # "free" => intent = None /\ ~Prepared' /\ journal # None
  BY <1>1, <1>2 DEF Inv, StepOK, Still, Reconciled, Clear, Prepared, Has
<1>4. StepOK'
  BY <1>1, <1>2, <1>3 DEF Inv, StepOK, Still, Reconciled, Clear, Entered
<1> QED
  BY <1>1, <1>4, StillStoreOK, StillDecides DEF Inv, Still

LEMMA BootstrapInv == ASSUME Inv, NEW o \in Op, Bootstrap(o) PROVE Inv' /\ Decides
<1>1. /\ UNCHANGED <<loop, hash, art, intent, ckpt, acked, holder>> /\ holder = o
      /\ step = "prepare" /\ step' = "stages" /\ journal = None
      /\ journal' = [op |-> o, files |-> {"owner"}, base |-> loop, cand |-> Apply(loop, o),
                      before |-> art, done |-> {}, replace |-> {}]
  BY DEF Bootstrap
<1>2. /\ intent = None /\ ~Prepared /\ loop = hash /\ o \in Publication /\ ~Entered(loop, o)
      /\ loop \in State /\ art \in [Target -> File]
  BY <1>1 DEF Inv, StoreOK, StepOK, Reconciled, Clear
<1>3. Apply(loop, o) \in State
  BY <1>2, ApplyIsState
<1>4. journal' \in Journal /\ journal'.cand = Apply(journal'.base, journal'.op)
      /\ journal'.op = o /\ journal'.base = loop /\ journal'.files = {"owner"}
  BY <1>1, <1>2, <1>3 DEF Journal
<1>5. journal' # None /\ ~Prepared'
  BY <1>4, NoneAssumption DEF Prepared, Has
<1>6. StoreOK'
  BY <1>1, <1>4 DEF Inv, StoreOK, JournalOK, IntentOK
<1>7. StepOK' /\ PendingOK'
  BY <1>1, <1>2, <1>4, <1>5 DEF StepOK, PendingOK, Reconciled, Clear, Entered
<1>8. Decides
  BY <1>1, <1>2, <1>5, ValueIs, QuietDecides
<1> QED
  BY <1>6, <1>7, <1>8 DEF Inv

(* A file that is added to the entry of the journal.                         *)
LEMMA FileAdded ==
  ASSUME journal \in Journal, NEW f \in {"stages", "prepared"},
         journal' = [journal EXCEPT !.files = @ \cup {f}]
  PROVE  /\ journal' \in Journal /\ journal'.cand = journal.cand /\ journal'.op = journal.op
         /\ journal'.base = journal.base /\ journal'.files = journal.files \cup {f}
         /\ journal' # None
<1> DEFINE fs == journal.files \cup {f}
<1>1. fs \in SUBSET {"owner", "stages", "prepared", "markers", "committed"}
  BY DEF Journal
<1>2. journal' = [journal EXCEPT !.files = fs]
  OBVIOUS
<1> HIDE DEF fs
<1>3. /\ journal' \in Journal /\ journal'.cand = journal.cand /\ journal'.op = journal.op
      /\ journal'.base = journal.base /\ journal'.files = fs
  BY <1>1, <1>2 DEF Journal
<1> QED
  BY <1>3, NoneAssumption DEF fs

LEMMA WriteStagesInv == ASSUME Inv, NEW o \in Op, WriteStages(o) PROVE Inv' /\ Decides
<1>1. /\ UNCHANGED <<loop, hash, art, intent, ckpt, acked, holder, step>> /\ step = "stages"
      /\ journal' = [journal EXCEPT !.files = @ \cup {"stages"}]
  BY DEF WriteStages
<1>2. /\ intent = None /\ ~Prepared /\ journal \in Journal /\ journal # None
      /\ holder \in Publication /\ ~Entered(loop, holder) /\ loop = hash
      /\ journal.op = holder /\ journal.base = loop
  BY <1>1 DEF Inv, StoreOK, StepOK, Reconciled, Clear
<1>3. /\ journal' \in Journal /\ journal'.cand = journal.cand /\ journal'.op = journal.op
      /\ journal'.base = journal.base /\ journal'.files = journal.files \cup {"stages"}
      /\ journal' # None
  BY <1>1, <1>2, FileAdded
<1>4. ~Prepared'
  BY <1>2, <1>3 DEF Prepared, Has
<1>5. StoreOK'
  BY <1>1, <1>2, <1>3 DEF Inv, StoreOK, JournalOK, IntentOK
<1>6. StepOK' /\ PendingOK'
  BY <1>1, <1>2, <1>3, <1>4 DEF StepOK, PendingOK, Reconciled, Clear, Entered
<1>7. Decides
  BY <1>1, <1>2, <1>4, ValueIs, QuietDecides
<1> QED
  BY <1>5, <1>6, <1>7 DEF Inv

LEMMA WritePreparedInv == ASSUME Inv, NEW o \in Op, WritePrepared(o) PROVE Inv' /\ Decides
<1>1. /\ UNCHANGED <<loop, hash, art, intent, ckpt, acked, holder>> /\ step = "stages" /\ step' = "reconcile"
      /\ journal' = [journal EXCEPT !.files = @ \cup {"prepared"}]
  BY DEF WritePrepared
<1>2. /\ intent = None /\ ~Prepared /\ journal \in Journal /\ journal # None
      /\ holder \in Publication /\ ~Entered(loop, holder) /\ loop = hash
      /\ journal.op = holder /\ journal.base = loop /\ hash \in State
      /\ journal.cand = Apply(journal.base, journal.op)
  BY <1>1 DEF Inv, StoreOK, JournalOK, StepOK, Reconciled, Clear
<1>3. /\ journal' \in Journal /\ journal'.cand = journal.cand /\ journal'.op = journal.op
      /\ journal'.base = journal.base /\ journal'.files = journal.files \cup {"prepared"}
      /\ journal' # None
  BY <1>1, <1>2, FileAdded
<1>4. Prepared'
  BY <1>3 DEF Prepared, Has
<1>5. StoreOK'
  BY <1>1, <1>2, <1>3 DEF Inv, StoreOK, JournalOK, IntentOK
<1>6. StepOK' /\ PendingOK'
  BY <1>1, <1>2 DEF StepOK, PendingOK, Reconciled, Clear
<1>7. value = hash /\ value' = Apply(value, holder)
  BY <1>1, <1>2, <1>3, <1>4, ValueIs
<1>8. holder \in Writing /\ ~Logged(value, holder)
  BY <1>2, <1>7, NotEntered DEF Writing, Op, Logged
<1> QED
  BY <1>1, <1>5, <1>6, <1>7, <1>8, CommitDecides DEF Inv

-----------------------------------------------------------------------------
LEMMA WriteIntentInv == ASSUME Inv, NEW o \in Op, WriteIntent(o) PROVE Inv' /\ Decides
<1>1. /\ UNCHANGED <<loop, hash, art, journal, ckpt, acked, holder>>
      /\ step = "restore" /\ step' = "restoring" /\ journal = None /\ loop = hash
      /\ holder = o /\ ckpt = [key |-> o, of |-> hash]
      /\ intent' = [op |-> o, base |-> loop, cand |-> Apply(loop, o)]
  BY DEF WriteIntent, Admissible, SnapshotOK, JournalEmpty
<1>2. o \in Restore /\ o # None /\ loop \in State /\ ~Entered(loop, o)
  BY <1>1, NoneAssumption DEF Inv, StoreOK, StepOK
<1>3. Apply(loop, o) \in State
  BY <1>2, ApplyIsState
<1>4. intent' \in Intent /\ intent'.op = o /\ intent'.base = loop /\ intent'.cand = Apply(loop, o)
  BY <1>1, <1>2, <1>3 DEF Intent
<1>5. intent' # None /\ ~Prepared /\ ~Prepared'
  BY <1>1, <1>4, NoneAssumption DEF Prepared, Has
<1>6. StoreOK'
  BY <1>1, <1>2, <1>4 DEF Inv, StoreOK, JournalOK, IntentOK, Entered
<1>7. StepOK' /\ PendingOK'
  BY <1>1, <1>2, <1>4, <1>5 DEF StepOK, PendingOK, Reconciled, Clear
<1> QED
  BY <1>1, <1>6, <1>7, StillDecides DEF Inv

(* The steps of a restore that only move on.                                 *)
LEMMA RestoreMovesInv ==
  ASSUME Inv, NEW o \in Op, ResumeIntent(o) \/ RefuseRestore(o) \/ RestoreLine(o)
  PROVE  Inv' /\ Decides
<1>1. Still /\ UNCHANGED acked
  BY DEF ResumeIntent, RefuseRestore, RestoreLine, Restoring, Still, files
<1>2. \/ step' = "free"
      \/ /\ UNCHANGED holder /\ holder = o /\ step = "restore" /\ step' = "restoring"
         /\ intent # None /\ intent.op = o /\ journal = None
      \/ UNCHANGED <<holder, step>> /\ step = "restoring"
  BY DEF ResumeIntent, RefuseRestore, RestoreLine, Restoring, JournalEmpty
<1>3. journal = None => ~Prepared'
  BY <1>1 DEF Still, Prepared, Has
<1>4. StepOK'
  BY <1>1, <1>2, <1>3 DEF Inv, StepOK, Still, Reconciled, Clear
<1> QED
  BY <1>1, <1>4, StillStoreOK, StillDecides DEF Inv, Still

LEMMA ReplayRestoreInv == ASSUME Inv, NEW o \in Op, ReplayRestore(o) PROVE Inv' /\ Decides
<1>1. /\ Still /\ acked' = acked \cup {o} /\ holder = o /\ step = "restore" /\ step' = "free"
      /\ journal = None /\ hash = loop /\ log = loop.head /\ log # <<>>
      /\ log[Len(log)] = <<o, "event">>
  BY DEF ReplayRestore, Replayable, SnapshotOK, JournalEmpty, Still, files
<1>2. o \in Restore /\ loop \in State
  BY <1>1 DEF Inv, StoreOK, StepOK
<1>3. Lines(o) = <<<<o, "event">>>>
  BY <1>2, KindAssumption DEF Lines
<1>4. Logged(hash, o)
  <2>1. 1 \in DOMAIN Lines(o) /\ Lines(o)[1] = <<o, "event">>
    BY <1>3
  <2>2. hash.head \in Seq(Line) /\ hash.head # <<>>
    BY <1>1, <1>2 DEF State
  <2>3. Len(hash.head) \in DOMAIN hash.head
    BY <2>2
  <2> QED
    BY <1>1, <2>1, <2>3 DEF Logged
<1>5. ~Prepared /\ ~Prepared'
  BY <1>1 DEF Prepared, Has, Still
<1>6. Decides
  BY <1>1, <1>4, <1>5, ValueIs, ReturnDecides DEF Still
<1>7. StepOK'
  BY <1>1 DEF StepOK, Reconciled, Clear
<1> QED
  BY <1>1, <1>6, <1>7, StillStoreOK DEF Inv

LEMMA RestoreStateInv == ASSUME Inv, NEW o \in Op, RestoreState(o) PROVE Inv' /\ Decides
<1>1. /\ UNCHANGED <<art, journal, intent, ckpt, acked, holder, step>> /\ step = "restoring" /\ holder = o
      /\ \/ hash = intent.base /\ hash' = intent.cand /\ UNCHANGED loop
         \/ loop' = intent.cand /\ UNCHANGED hash
  BY DEF RestoreState, Restoring
<1>2. /\ intent # None /\ intent \in Intent /\ journal = None /\ o \in Restore /\ intent.op = o
      /\ intent.cand = Apply(intent.base, intent.op) /\ ~Entered(intent.base, intent.op)
  BY <1>1 DEF Inv, StoreOK, IntentOK, StepOK
<1>3. intent.base \in State /\ intent.cand \in State /\ ~Prepared /\ ~Prepared'
  BY <1>1, <1>2 DEF Intent, Prepared, Has
<1>4. StoreOK'
  BY <1>1, <1>3 DEF Inv, StoreOK, JournalOK, IntentOK
<1>5. StepOK' /\ PendingOK'
  BY <1>1, <1>2, <1>3 DEF StepOK, PendingOK, Reconciled, Clear
<1>6. CASE hash = intent.base /\ hash' = intent.cand
  <2>1. value = hash /\ value' = Apply(value, o)
    BY <1>2, <1>3, <1>6, ValueIs
  <2>2. o \in Writing /\ ~Logged(value, o)
    BY <1>2, <1>3, <1>6, <2>1, NotEntered DEF Writing, Op, Logged
  <2>3. Decides
    BY <1>1, <2>1, <2>2, CommitDecides
  <2> QED
    BY <1>4, <1>5, <2>3 DEF Inv
<1>7. CASE UNCHANGED hash
  BY <1>1, <1>4, <1>5, <1>7, StillDecides DEF Inv
<1> QED
  BY <1>1, <1>6, <1>7

LEMMA RemoveIntentInv == ASSUME Inv, NEW o \in Op, RemoveIntent(o) PROVE Inv' /\ Decides
<1>1. /\ UNCHANGED <<loop, hash, art, journal, ckpt, acked, holder>> /\ step = "restoring" /\ step' = "return"
      /\ intent' = None /\ hash = intent.cand
  BY DEF RemoveIntent, Restoring
<1>2. /\ intent \in Intent /\ journal = None /\ holder \in Restore /\ intent.op = holder
      /\ intent.cand = Apply(intent.base, intent.op)
  BY <1>1 DEF Inv, StoreOK, IntentOK, StepOK
<1>3. Logged(hash, holder)
  BY <1>1, <1>2, Enters DEF Intent, Logging, Logged
<1>4. ~Prepared'
  BY <1>1, <1>2 DEF Prepared, Has
<1>5. Logged(hash, holder)'
  BY <1>1, <1>3 DEF Logged
<1>6. StepOK' /\ PendingOK'
  BY <1>1, <1>4, <1>5 DEF StepOK, PendingOK, Reconciled, Clear
<1>7. StoreOK'
  BY <1>1 DEF Inv, StoreOK, JournalOK, IntentOK
<1> QED
  BY <1>1, <1>6, <1>7, StillDecides DEF Inv

LEMMA EnterInv == ASSUME Inv, NEW o \in Op, Enter(o) PROVE Inv' /\ Decides
<1>1. Still /\ UNCHANGED acked /\ holder' = o
      /\ \/ step' = "reconcile"
         \/ step' = "restore" /\ o \in Restore
  BY DEF Enter, Take, Still, files
<1>2. StepOK'
  BY <1>1 DEF StepOK, Reconciled, Clear
<1> QED
  BY <1>1, <1>2, StillStoreOK, StillDecides DEF Inv, Still

LEMMA CrashInv == ASSUME Inv, Crash PROVE Inv' /\ Decides
<1>1. Still /\ UNCHANGED acked /\ step' = "free"
  BY DEF Crash, Still, files
<1>2. StepOK'
  BY <1>1 DEF StepOK, Reconciled, Clear
<1> QED
  BY <1>1, <1>2, StillStoreOK, StillDecides DEF Inv, Still

LEMMA NextInv == Inv /\ [Next]_vars => Inv' /\ Decides
<1> SUFFICES ASSUME Inv, [Next]_vars PROVE Inv' /\ Decides
  OBVIOUS
<1>1. CASE UNCHANGED vars
  <2>1. Still /\ UNCHANGED <<acked, holder, step>>
    BY <1>1 DEF vars, files, Still
  <2>2. StepOK'
    BY <2>1 DEF Inv, StepOK, Still, Reconciled, Clear, Prepared, Whole, Committed, Has
  <2> QED
    BY <2>1, <2>2, StillStoreOK, StillDecides DEF Inv, Still
<1>2. CASE Crash
  BY <1>2, CrashInv
<1>3. ASSUME NEW o \in Op, Enter(o) PROVE Inv' /\ Decides
  BY <1>3, EnterInv
<1>4. ASSUME NEW o \in Op, Work(o) PROVE Inv' /\ Decides
  <2>1. CASE Reconcile(o)
    <3>1. Decides
      BY <2>1, StillDecides DEF Reconcile, files
    <3> QED
      BY <2>1, <3>1, ReconcileInv
  <2>2. CASE ReplayArtifact(o) \/ ReplayLine(o) \/ ReplayState(o) \/ MarkCommitted(o)
    BY <2>2, ReplayArtifactInv, ReplayArtifactDecides, ReplayLineInv, ReplayStateInv, MarkCommittedInv
  <2>3. CASE Admit(o) \/ Retire(o) \/ Snapshot(o) \/ AppendLine(o) \/ WriteLoop(o) \/ WriteHash(o)
    BY <2>3, AdmitInv, RetireInv, SnapshotInv, AppendLineInv, WriteLoopInv, WriteHashInv
  <2>4. CASE EmitCheckpoint(o) \/ Finish(o)
    BY <2>4, EmitCheckpointInv, FinishInv
  <2>5. CASE Cleanup(o) \/ Sweep(o) \/ Bootstrap(o) \/ WriteStages(o) \/ WritePrepared(o)
    BY <2>5, MovesInv, SweepInv, BootstrapInv, WriteStagesInv, WritePreparedInv
  <2>6. CASE PrepareFails(o) \/ Abandon(o) \/ Fail(o)
    BY <2>6, MovesInv, AbandonInv
  <2>7. CASE WriteIntent(o) \/ ResumeIntent(o) \/ ReplayRestore(o) \/ RefuseRestore(o)
    BY <2>7, WriteIntentInv, RestoreMovesInv, ReplayRestoreInv
  <2>8. CASE RestoreLine(o) \/ RestoreState(o) \/ RemoveIntent(o)
    BY <2>8, RestoreMovesInv, RestoreStateInv, RemoveIntentInv
  <2> QED
    BY <1>4, <2>1, <2>2, <2>3, <2>4, <2>5, <2>6, <2>7, <2>8 DEF Work
<1> QED
  BY <1>1, <1>2, <1>3, <1>4 DEF Next

(* A pending restore and a decided publication never meet: whatever is left  *)
(* by killed calls, the next one has one thing to complete.                  *)
THEOREM StoreKeepsOneProtocol == Spec => []OneProtocolPending
<1>1. Inv => OneProtocolPending
  BY DEF Inv, PendingOK, OneProtocolPending
<1> QED
  BY InitInv, NextInv, <1>1, PTL DEF Spec

(* The log, the state, its hash, the journal and the intent together are an  *)
(* atomic commit: every step of every call, and every kill, decides one      *)
(* whole operation or nothing, no named operation twice, and a call returns  *)
(* only what is decided.                                                     *)
THEOREM StoreCommitsAtomically == Spec => CommitsAtomically
<1>1. Init => Promise!Init(Blank)
  BY ValueIs DEF Init, Promise!Init, Prepared, Has
<1>2. Inv /\ [Next]_vars => [Promise!Next]_<<value, acked \cap Writing>>
  BY NextInv DEF Decides
<1> QED
  BY InitInv, NextInv, <1>1, <1>2, PTL DEF Spec, CommitsAtomically

-----------------------------------------------------------------------------
(* The artifacts are those of the state, except between prepared.json and    *)
(* the end of its replay; a restore changes none.                            *)
ArtsAgree == \A t \in Target : art[t].bytes = loop.arts[t] /\ art[t].bytes = hash.arts[t]

ArtsInv == /\ (~Prepared \/ step \in {"admit", "retire"}) => ArtsAgree
           /\ intent # None => \A t \in Target : intent.base.arts[t] = art[t].bytes

LEMMA InitArts == Init => ArtsInv
  BY DEF Init, ArtsInv, ArtsAgree, Blank, Prepared, Has

(* What a publication wanted is what its candidate says, and when every      *)
(* artifact is proven it is there.                                           *)
LEMMA ProvenArts ==
  ASSUME Inv, journal # None, ArtifactsDone
  PROVE  \A t \in Target : art[t].bytes = journal.cand.arts[t]
<1>1. journal.op \in Publication /\ journal.cand = Apply(journal.base, journal.op)
  BY DEF Inv, StoreOK, JournalOK, Journal
<1>2. \A t \in Target : journal.cand.arts[t] = Wanted(t)
  BY <1>1 DEF Apply, Wanted
<1>3. \A t \in Target : art[t].bytes = Wanted(t)
  BY DEF ArtifactsDone, Proven, ArtifactState
<1> QED
  BY <1>2, <1>3

LEMMA CommittedArts ==
  ASSUME Inv, ClassifierOK, Committed PROVE ArtsAgree
<1>1. journal # None /\ ArtifactsDone /\ loop = journal.cand /\ hash = journal.cand
  BY DEF ClassifierOK, Committed, Whole, Prepared, Has, HashAt, LoopAt
<1> QED
  BY <1>1, ProvenArts DEF ArtsAgree

LEMMA SameArts ==
  ASSUME ArtsInv, UNCHANGED <<loop, hash, art, intent>>, Prepared' = Prepared,
         step' \in {"admit", "retire"} /\ Prepared => ArtsAgree
  PROVE  ArtsInv'
  BY DEF ArtsInv, ArtsAgree

LEMMA NextArts == Inv /\ ArtsInv /\ [Next]_vars => ArtsInv'
<1> SUFFICES ASSUME Inv, ArtsInv, [Next]_vars PROVE ArtsInv'
  OBVIOUS
<1>1. ASSUME UNCHANGED <<loop, hash, art, intent, journal, step>> PROVE ArtsInv'
  <2>1. Prepared' = Prepared
    BY <1>1 DEF Prepared, Has
  <2> QED
    BY <1>1, <2>1, SameArts DEF ArtsInv
<1>2. ASSUME UNCHANGED <<loop, hash, art, intent, journal>>, step' \notin {"admit", "retire"}
      PROVE  ArtsInv'
  <2>1. Prepared' = Prepared
    BY <1>2 DEF Prepared, Has
  <2> QED
    BY <1>2, <2>1, SameArts
<1>3. CASE Crash
  BY <1>2, <1>3 DEF Crash, files
<1>4. ASSUME NEW o \in Op, Enter(o) PROVE ArtsInv'
  BY <1>2, <1>4 DEF Enter, Take, files
<1>5. ASSUME NEW o \in Op, Reconcile(o) \/ Admit(o) PROVE ArtsInv'
  <2>1. UNCHANGED <<loop, hash, art, intent, journal>>
    BY <1>5 DEF Reconcile, Admit, files
  <2>2. Prepared' = Prepared
    BY <2>1 DEF Prepared, Has
  <2>3. CASE Admit(o)
    BY <2>1, <2>2, <2>3, SameArts DEF Admit, ArtsInv
  <2>4. CASE Reconcile(o)
    BY <2>1, <2>2, <2>4, SameArts, CommittedArts DEF Reconcile
  <2> QED
    BY <1>5, <2>3, <2>4
<1>6. ASSUME NEW o \in Op,
             ReplayArtifact(o) \/ ReplayLine(o) \/ ReplayState(o) PROVE ArtsInv'
  <2>1. step = "replay" /\ step' = step /\ UNCHANGED intent
    BY <1>6 DEF ReplayArtifact, ReplayLine, ReplayState
  <2>2. intent = None /\ Prepared
    BY <2>1 DEF Inv, StepOK, Reconciled, Whole
  <2>3. Prepared'
    BY <1>6, <2>2, ReplayArtifactInv DEF ReplayLine, ReplayState, Prepared, Has
  <2> QED
    BY <2>1, <2>2, <2>3 DEF ArtsInv
<1>7. ASSUME NEW o \in Op, MarkCommitted(o) PROVE ArtsInv'
  <2>1. /\ step = "replay" /\ UNCHANGED <<loop, hash, art, intent>> /\ ArtifactsDone
        /\ loop = journal.cand /\ hash = journal.cand
    BY <1>7 DEF MarkCommitted
  <2>2. intent = None /\ journal # None
    BY <2>1 DEF Inv, StepOK, Reconciled, Whole, Prepared, Has
  <2>3. ArtsAgree
    BY <2>1, <2>2, ProvenArts DEF ArtsAgree
  <2> QED
    BY <2>1, <2>2, <2>3 DEF ArtsInv, ArtsAgree
<1>8. ASSUME NEW o \in Op, Retire(o) \/ Sweep(o) \/ Abandon(o) PROVE ArtsInv'
  <2>1. /\ UNCHANGED <<loop, hash, art, intent>>
        /\ step = "retire" \/ step \in {"sweep", "abandon"}
    BY <1>8 DEF Retire, Sweep, Abandon, Remove
  <2>2. ArtsAgree
    BY <2>1 DEF ArtsInv, Inv, StepOK, Clear
  <2> QED
    BY <2>1, <2>2 DEF ArtsInv, ArtsAgree
<1>9. ASSUME NEW o \in Op, WriteLoop(o) PROVE ArtsInv'
  <2>1. /\ UNCHANGED <<hash, art, intent, journal>> /\ step = "state" /\ holder = o
        /\ loop' = Apply(loop, o)
    BY <1>9 DEF WriteLoop
  <2>2. intent = None /\ ~Prepared /\ o \in Plain \cup Silent
    BY <2>1 DEF Inv, StepOK, Reconciled, Clear
  <2>3. loop'.arts = loop.arts
    BY <2>1, <2>2, KindAssumption DEF Apply
  <2> QED
    BY <2>1, <2>2, <2>3 DEF ArtsInv, ArtsAgree
<1>10. ASSUME NEW o \in Op, WriteHash(o) PROVE ArtsInv'
  <2>1. UNCHANGED <<loop, art, intent, journal>> /\ step = "anchor" /\ hash' = loop
    BY <1>10 DEF WriteHash
  <2>2. intent = None /\ ~Prepared
    BY <2>1 DEF Inv, StepOK, Reconciled, Clear
  <2> QED
    BY <2>1, <2>2 DEF ArtsInv, ArtsAgree
<1>11. ASSUME NEW o \in Op, Bootstrap(o) \/ WriteStages(o) \/ WritePrepared(o) PROVE ArtsInv'
  <2>1. UNCHANGED <<loop, hash, art, intent>> /\ step \in {"prepare", "stages"}
    BY <1>11 DEF Bootstrap, WriteStages, WritePrepared
  <2>2. intent = None /\ ~Prepared
    BY <2>1 DEF Inv, StepOK, Reconciled, Clear
  <2> QED
    BY <2>1, <2>2 DEF ArtsInv, ArtsAgree
<1>12. ASSUME NEW o \in Op, WriteIntent(o) PROVE ArtsInv'
  <2>1. /\ UNCHANGED <<loop, hash, art, journal>> /\ journal = None
        /\ intent' = [op |-> o, base |-> loop, cand |-> Apply(loop, o)]
    BY <1>12 DEF WriteIntent, JournalEmpty
  <2> QED
    BY <2>1 DEF ArtsInv, ArtsAgree, Prepared, Has
<1>13. ASSUME NEW o \in Op, RestoreState(o) PROVE ArtsInv'
  <2>1. /\ UNCHANGED <<art, intent, journal>> /\ step = "restoring"
        /\ \/ hash' = intent.cand /\ UNCHANGED loop
           \/ loop' = intent.cand /\ UNCHANGED hash
    BY <1>13 DEF RestoreState, Restoring
  <2>2. /\ intent # None /\ journal = None /\ intent.op \in Restore
        /\ intent.cand = Apply(intent.base, intent.op)
    BY <2>1 DEF Inv, StoreOK, IntentOK, StepOK
  <2>3. intent.cand.arts = intent.base.arts
    BY <2>2, KindAssumption DEF Apply
  <2> QED
    BY <2>1, <2>2, <2>3 DEF ArtsInv, ArtsAgree, Prepared, Has
<1>14. ASSUME NEW o \in Op, RemoveIntent(o) PROVE ArtsInv'
  BY <1>14 DEF RemoveIntent, Restoring, ArtsInv, ArtsAgree, Prepared, Has
<1>15. ASSUME NEW o \in Op,
              \/ Snapshot(o) \/ AppendLine(o) \/ EmitCheckpoint(o) \/ Finish(o) \/ Cleanup(o)
              \/ PrepareFails(o) \/ Fail(o) \/ ResumeIntent(o) \/ ReplayRestore(o)
              \/ RefuseRestore(o) \/ RestoreLine(o)
       PROVE  ArtsInv'
  <2>1. UNCHANGED <<loop, hash, art, intent, journal>>
        /\ (step' = step \/ step' \notin {"admit", "retire"})
    BY <1>15 DEF Snapshot, AppendLine, EmitCheckpoint, Finish, Cleanup, PrepareFails, Fail,
       ResumeIntent, ReplayRestore, RefuseRestore, RestoreLine, Restoring, files
  <2> QED
    BY <1>1, <1>2, <2>1
<1>16. CASE UNCHANGED vars
  BY <1>1, <1>16 DEF vars, files
<1> QED
  BY <1>3, <1>4, <1>5, <1>6, <1>7, <1>8, <1>9, <1>10, <1>11, <1>12, <1>13, <1>14, <1>15, <1>16
     DEF Next, Work

(* A verified read that reports a clean run sees artifacts and state of one  *)
(* commit, whatever was killed before.                                       *)
THEOREM CleanReadsAreWhole == Spec => []CleanReadIsWhole
<1>1. Inv /\ ArtsInv => CleanReadIsWhole
  <2> SUFFICES ASSUME Inv, ArtsInv, VerifiedClean PROVE ArtsAgree
    BY DEF CleanReadIsWhole, ArtsAgree
  <2>1. CASE journal = None
    BY <2>1 DEF ArtsInv, Prepared, Has
  <2>2. CASE journal # None
    BY <2>2, CommittedArts DEF VerifiedClean, Inspected
  <2> QED
    BY <2>1, <2>2
<1> QED
  BY <1>1, InitInv, InitArts, NextInv, NextArts, PTL DEF Spec

-----------------------------------------------------------------------------
(* What a crash that the code can repair leaves behind, and what the holder  *)
(* of the lock has on disk on its way.                                       *)
OpenWrite == {"append", "state", "anchor"}

Unmarked == /\ \A t \in Target : journal.before[t].by # journal.op
            /\ ~Has("markers") => journal.done = {} /\ journal.replace = {}

Classified == Prepared /\ step # "retire" => ClassifierOK /\ Unmarked
Resumable  == intent # None => PartialOK
Snapped    == ~Decided /\ intent = None /\ step \notin OpenWrite => SnapshotOK

Lined == /\ step = "append" => \E n \in 0..(Len(Lines(holder)) - 1) :
                                 log = loop.head \o SubSeq(Lines(holder), 1, n)
         /\ step = "state"  => log = loop.head \o Lines(holder)
         /\ step = "anchor" => log = loop.head

Staged == step = "stages" =>
            /\ journal.before = art /\ journal.done = {} /\ journal.replace = {}
            /\ Has("owner") /\ ~Has("markers") /\ ~Has("committed")
            /\ \A t \in Target : art[t].by # journal.op

Originated == \A t \in Target : art[t].by \in Publication =>
                Entered(loop, art[t].by) \/ (Prepared /\ journal.op = art[t].by)

RepairInv == ~harm => /\ Classified /\ Resumable /\ Snapped
                      /\ Lined /\ Staged /\ Originated

-----------------------------------------------------------------------------
LEMMA LinesAssociate ==
  ASSUME NEW s \in Seq(Line), NEW t \in Seq(Line), NEW u \in Seq(Line)
  PROVE  (s \o t) \o u = s \o (t \o u)
  BY ConcatAssociative

LEMMA NextLine ==
  ASSUME NEW h \in Seq(Line), NEW L \in Seq(Line), NEW n \in 0..(Len(L) - 1)
  PROVE  /\ Append(h \o SubSeq(L, 1, n), L[n + 1]) = h \o SubSeq(L, 1, n + 1)
         /\ Len(h \o SubSeq(L, 1, n)) = Len(h) + n
<1>1. L[n + 1] \in Line /\ SubSeq(L, 1, n) \in Seq(Line) /\ Len(SubSeq(L, 1, n)) = n
  OBVIOUS
<1>2. SubSeq(L, 1, n + 1) = SubSeq(L, 1, n) \o <<L[n + 1]>>
  <2>1. 1 \in 1..Len(L) /\ n + 1 \in 1..Len(L) /\ (n + 1) - 1 = n
    OBVIOUS
  <2> QED
    BY <2>1, SubSeqRecursiveSecond
<1>3. <<L[n + 1]>> \in Seq(Line)
  BY <1>1
<1>4. h \o SubSeq(L, 1, n) \in Seq(Line) /\ Len(h \o SubSeq(L, 1, n)) = Len(h) + n
  BY <1>1
<1>5. Append(h \o SubSeq(L, 1, n), L[n + 1]) = (h \o SubSeq(L, 1, n)) \o <<L[n + 1]>>
  BY <1>1, <1>4, AppendIsConcat
<1>6. (h \o SubSeq(L, 1, n)) \o <<L[n + 1]>> = h \o (SubSeq(L, 1, n) \o <<L[n + 1]>>)
  BY <1>1, <1>3, LinesAssociate
<1> QED
  BY <1>2, <1>4, <1>5, <1>6

LEMMA WholeLines ==
  ASSUME NEW h \in Seq(Line), NEW L \in Seq(Line)
  PROVE  /\ SubSeq(L, 1, Len(L)) = L /\ SubSeq(L, 1, 0) = <<>> /\ h \o <<>> = h
         /\ Len(h \o L) = Len(h) + Len(L)
  OBVIOUS

LEMMA EnteredStays ==
  ASSUME NEW st \in State, NEW o \in Op, NEW p, Entered(st, p)
  PROVE  Entered(Apply(st, o), p)
<1> DEFINE h == st.head
           L == Lines(o)
<1>1. h \in Seq(Line) /\ L \in Seq(Line)
  BY LinesAreLines DEF State
<1>2. PICK i \in 1..Len(h) : h[i][1] = p
  BY DEF Entered
<1>3. Apply(st, o).head = h \o L
  BY DEF Apply
<1> HIDE DEF h, L
<1>4. i \in 1..Len(h \o L) /\ (h \o L)[i] = h[i]
  BY <1>1
<1> QED
  BY <1>2, <1>3, <1>4 DEF Entered

LEMMA EntersOwn ==
  ASSUME NEW st \in State, NEW o \in Logging
  PROVE  Entered(Apply(st, o), o)
<1>1. o \in Op
  BY DEF Logging, Op, Writing
<1>2. PICK i \in DOMAIN Apply(st, o).head :
        Apply(st, o).head[i] \in {Lines(o)[j] : j \in DOMAIN Lines(o)}
  BY Enters
<1>3. Apply(st, o).head[i][1] = o
  BY <1>1, <1>2, LinesAreLines
<1>4. Apply(st, o).head \in Seq(Line)
  BY <1>1, ApplyIsState DEF State
<1>5. i \in 1..Len(Apply(st, o).head)
  BY <1>2, <1>4
<1> QED
  BY <1>3, <1>5 DEF Entered

LEMMA PublicationLines ==
  ASSUME NEW p \in Publication
  PROVE  /\ Lines(p) \in Seq(Line) /\ Len(Lines(p)) = 2 /\ p \in Op /\ p \in Logging
<1>1. Lines(p) = <<<<p, "event">>, <<p, "cost">>>>
  BY KindAssumption DEF Lines
<1> QED
  BY <1>1, LinesAreLines DEF Logging, Op, Writing

-----------------------------------------------------------------------------
LEMMA SameClassifier ==
  ASSUME UNCHANGED <<log, loop, hash, art, journal>>
  PROVE  (ClassifierOK <=> ClassifierOK') /\ (Unmarked <=> Unmarked') /\ (Prepared <=> Prepared')
         /\ (Decided <=> Decided')
  BY DEF ClassifierOK, Whole, Prepared, Has, LoopAt, HashAt, LinesOK, Appended, ArtifactsOK,
     ArtifactsDone, LinesDone, Proven, Progress, Marked, Replaces, ArtifactState, Unchanged, Before,
     Wanted, Unmarked, Decided

(* The files stay; only the step changes.                                    *)
LEMMA SameFiles ==
  ASSUME RepairInv, ~harm', ~harm, UNCHANGED <<log, loop, hash, art, journal, intent>>,
         step = "retire" => step' = "retire",
         step \in OpenWrite /\ step' \notin OpenWrite => SnapshotOK,
         step' = "stages" => step = "stages",
         Lined'
  PROVE  RepairInv'
<1>2. Classified'
  BY SameClassifier DEF RepairInv, Classified
<1>3. Resumable'
  BY DEF RepairInv, Resumable, PartialOK, LogPartial, RestoreLines
<1>4. Snapped'
  BY SameClassifier DEF RepairInv, Snapped, SnapshotOK
<1>5. Staged'
  BY DEF RepairInv, Staged, Has
<1>6. Originated'
  BY SameClassifier DEF RepairInv, Originated, Entered
<1> QED
  BY <1>2, <1>3, <1>4, <1>5, <1>6 DEF RepairInv

LEMMA InitRepair == Init => RepairInv
<1> SUFFICES ASSUME Init PROVE RepairInv
  OBVIOUS
<1>1. \A t \in Target : art[t].by \in {None, "before"}
  BY DEF Init
<1> QED
  BY <1>1, BeforeAssumption, NoneAssumption DEF Op, Writing, Init, RepairInv, Classified, Resumable, Snapped, SnapshotOK, Lined,
     Staged, Originated, Prepared, Has, Blank, OpenWrite

(* A step of the replay at one artifact leaves the others where they are.    *)
LEMMA ReplayOthers ==
  ASSUME Inv, Unmarked, Prepared, NEW t \in Target,
         MarkReplace(t) \/ UnlinkArtifact(t) \/ InstallArtifact(t) \/ MarkDone(t)
  PROVE  /\ journal'.op = journal.op /\ journal'.base = journal.base
         /\ journal'.cand = journal.cand /\ journal'.before = journal.before
         /\ \A f \in {"owner", "stages", "prepared", "committed"} : Has(f)' <=> Has(f)
         /\ Unmarked'
         /\ \A u \in Target \ {t} : /\ art'[u] = art[u]
                                    /\ Marked(u)' = Marked(u) /\ Replaces(u)' = Replaces(u)
         /\ journal # None /\ journal' # None
         /\ Has("markers") => Has("markers")'
         /\ ~Has("markers") => journal.done = {} /\ journal.replace = {}
<1>1. journal \in Journal /\ journal # None
  BY DEF Inv, StoreOK, Prepared, Has
<1>2. \/ UNCHANGED journal
      \/ journal' = [journal EXCEPT !.files = WithMarkers, !.replace = @ \cup {t}]
      \/ journal' = [journal EXCEPT !.files = WithMarkers, !.done = @ \cup {t}]
  BY DEF MarkReplace, UnlinkArtifact, InstallArtifact, MarkDone
<1>3. CASE UNCHANGED journal
  <2>1. \A u \in Target \ {t} : art'[u] = art[u]
    BY DEF Inv, StoreOK, MarkReplace, UnlinkArtifact, InstallArtifact, MarkDone
  <2> QED
    BY <1>1, <1>3, <2>1 DEF Has, Unmarked, Marked, Replaces
<1>4. CASE \/ journal' = [journal EXCEPT !.files = WithMarkers, !.replace = @ \cup {t}]
           \/ journal' = [journal EXCEPT !.files = WithMarkers, !.done = @ \cup {t}]
  <2>1. /\ journal'.op = journal.op /\ journal'.base = journal.base
        /\ journal'.cand = journal.cand /\ journal'.before = journal.before
        /\ journal'.files = WithMarkers
        /\ \/ journal'.replace = journal.replace \cup {t} /\ journal'.done = journal.done
           \/ journal'.done = journal.done \cup {t} /\ journal'.replace = journal.replace
        /\ journal' \in Journal
    <3>1. WithMarkers \in SUBSET {"owner", "stages", "prepared", "markers", "committed"}
      BY <1>1 DEF Journal, WithMarkers
    <3> HIDE DEF WithMarkers
    <3>2. CASE journal' = [journal EXCEPT !.files = WithMarkers, !.replace = @ \cup {t}]
      BY <1>1, <3>1, <3>2 DEF Journal
    <3>3. CASE journal' = [journal EXCEPT !.files = WithMarkers, !.done = @ \cup {t}]
      BY <1>1, <3>1, <3>3 DEF Journal
    <3> QED
      BY <1>4, <3>2, <3>3
  <2>2. journal' # None
    BY <2>1, NoneAssumption
  <2>3. \A f \in {"owner", "stages", "prepared", "committed"} : Has(f)' <=> Has(f)
    BY <1>1, <2>1, <2>2 DEF Has, WithMarkers
  <2>4. Has("markers")'
    BY <2>1, <2>2 DEF Has, WithMarkers
  <2>5. \A u \in Target \ {t} : Marked(u)' = Marked(u) /\ Replaces(u)' = Replaces(u)
    BY <2>1, <2>4 DEF Marked, Replaces, Unmarked
  <2>6. \A u \in Target \ {t} : art'[u] = art[u]
    BY DEF Inv, StoreOK, MarkReplace, UnlinkArtifact, InstallArtifact, MarkDone
  <2> QED
    BY <1>1, <2>1, <2>2, <2>3, <2>4, <2>5, <2>6 DEF Unmarked
<1> QED
  BY <1>2, <1>3, <1>4

(* And takes this one on without a conflict.                                 *)
LEMMA ReplayThis ==
  ASSUME Inv, Unmarked, ArtifactsOK, Prepared, NEW t \in Target,
         MarkReplace(t) \/ UnlinkArtifact(t) \/ InstallArtifact(t) \/ MarkDone(t)
  PROVE  /\ ArtifactState(t)' # "conflict"
         /\ Marked(t)' => ArtifactState(t)' = "candidate"
         /\ Replaces(t)' => Before(t).by # None /\ ~Unchanged(t)
<1>1. journal \in Journal /\ journal # None /\ art \in [Target -> File] /\ journal' # None
  BY ReplayOthers DEF Inv, StoreOK, Prepared, Has
<1>2. /\ Before(t)' = Before(t) /\ Wanted(t)' = Wanted(t) /\ Unchanged(t)' = Unchanged(t)
  BY ReplayOthers DEF Before, Wanted, Unchanged
<1>3. Before(t).by # journal.op /\ journal.op # None /\ journal.op \in Publication
  BY <1>1, NoneAssumption DEF Unmarked, Before, Journal, Op, Writing
<1>4. /\ ArtifactState(t) # "conflict" /\ (Marked(t) => ArtifactState(t) = "candidate")
      /\ Replaces(t) => Before(t).by # None /\ ~Unchanged(t)
  BY DEF ArtifactsOK
<1>5. CASE MarkReplace(t)
  <2>1. /\ ArtifactState(t) = "predecessor" /\ Before(t).by # None /\ art' = art
        /\ journal' = [journal EXCEPT !.files = WithMarkers, !.replace = @ \cup {t}]
    BY <1>5 DEF MarkReplace
  <2>2. art[t] = Before(t) /\ art[t].bytes # Wanted(t) /\ art[t].by # None
    BY <2>1 DEF ArtifactState
  <2>3. ~Unchanged(t)
    BY <2>2 DEF Unchanged
  <2>4. ArtifactState(t)' = "predecessor"
    BY <1>2, <2>1, <2>2 DEF ArtifactState
  <2>5. ~Marked(t)'
    <3>1. ~Marked(t) /\ journal'.done = journal.done
      BY <1>1, <1>4, <2>1 DEF Journal
    <3>2. ~Has("markers") => journal.done = {}
      BY DEF Unmarked
    <3> QED
      BY <3>1, <3>2 DEF Marked
  <2> QED
    BY <2>1, <2>3, <2>4, <2>5
<1>6. CASE UnlinkArtifact(t)
  <2>1. /\ ArtifactState(t) = "predecessor" /\ Replaces(t) /\ UNCHANGED journal
        /\ art'[t] = [bytes |-> NoBytes, by |-> None]
    BY <1>1, <1>6 DEF UnlinkArtifact
  <2>2. Replaces(t)' /\ ~Marked(t)'
    BY <1>4, <2>1 DEF Replaces, Marked, Has
  <2>3. ArtifactState(t)' = "unlinked"
    BY <1>2, <1>4, <2>1, <2>2 DEF ArtifactState
  <2> QED
    BY <1>4, <2>1, <2>2, <2>3
<1>7. CASE InstallArtifact(t)
  <2>1. /\ ArtifactState(t) = "unlinked" \/ (ArtifactState(t) = "predecessor" /\ ~Replaces(t))
        /\ UNCHANGED journal /\ art'[t] = [bytes |-> Wanted(t), by |-> journal.op]
    BY <1>1, <1>7 DEF InstallArtifact
  <2>2. ArtifactState(t) = "unlinked" => Replaces(t)
    BY DEF ArtifactState
  <2>3. Before(t).by # None => ~Unchanged(t)
    BY <1>4, <2>1, <2>2 DEF ArtifactState, Unchanged
  <2>6. Before(t)'.by # None => ~Unchanged(t)' /\ (Unchanged(t)' \in BOOLEAN)
    BY <1>2, <2>3 DEF Unchanged
  <2>7. art'[t].by # None /\ art'[t].bytes = Wanted(t)' /\ art'[t].by # Before(t)'.by
    BY <1>2, <1>3, <2>1
  <2>4. ArtifactState(t)' = "candidate"
    BY <2>6, <2>7 DEF ArtifactState
  <2>5. Replaces(t)' = Replaces(t)
    BY <2>1 DEF Replaces, Has
  <2> QED
    BY <1>4, <2>4, <2>5
<1>8. CASE MarkDone(t)
  <2>1. /\ ArtifactState(t) = "candidate" /\ art' = art /\ journal'.replace = journal.replace
    BY <1>1, <1>8 DEF MarkDone, Journal
  <2>2. ArtifactState(t)' = "candidate"
    BY <1>2, <2>1 DEF ArtifactState
  <2>3. ~Has("markers") => journal.replace = {}
    BY DEF Unmarked
  <2>4. Replaces(t)' => Replaces(t)
    BY <2>1, <2>3 DEF Replaces
  <2> QED
    BY <1>4, <2>2, <2>4
<1> QED
  BY <1>5, <1>6, <1>7, <1>8

LEMMA ReplayClassified ==
  ASSUME Inv, ClassifierOK, Unmarked, NEW o \in Op, ReplayArtifact(o)
  PROVE  ClassifierOK' /\ Unmarked'
<1>1. PICK t \in Target : MarkReplace(t) \/ UnlinkArtifact(t) \/ InstallArtifact(t) \/ MarkDone(t)
  BY DEF ReplayArtifact
<1>2. UNCHANGED <<log, loop, hash>> /\ Whole /\ Prepared /\ ArtifactsOK
  BY DEF ReplayArtifact, ClassifierOK, Whole
<1>3. /\ journal'.op = journal.op /\ journal'.base = journal.base
      /\ journal'.cand = journal.cand /\ journal'.before = journal.before
      /\ \A f \in {"owner", "stages", "prepared", "committed"} : Has(f)' <=> Has(f)
      /\ Unmarked'
      /\ \A u \in Target \ {t} : /\ art'[u] = art[u]
                                 /\ Marked(u)' = Marked(u) /\ Replaces(u)' = Replaces(u)
  BY <1>1, <1>2, ReplayOthers
<1>4. Turn(t)
  BY <1>1 DEF MarkReplace, UnlinkArtifact, InstallArtifact, MarkDone
<1>5. ASSUME NEW u \in Target \ {t}
      PROVE  /\ ArtifactState(u)' = ArtifactState(u) /\ Unchanged(u)' = Unchanged(u)
             /\ Before(u)' = Before(u)
             /\ Proven(u)' = Proven(u) /\ Progress(u)' = Progress(u)
             /\ Marked(u)' = Marked(u) /\ Replaces(u)' = Replaces(u)
  <2>1. /\ Before(u)' = Before(u) /\ Wanted(u)' = Wanted(u) /\ Unchanged(u)' = Unchanged(u)
    BY <1>3 DEF Before, Wanted, Unchanged
  <2>2. ArtifactState(u)' = ArtifactState(u)
    BY <1>3, <2>1 DEF ArtifactState
  <2> QED
    BY <1>3, <2>1, <2>2 DEF Proven, Progress
<1>6. /\ ArtifactState(t)' # "conflict"
      /\ Marked(t)' => ArtifactState(t)' = "candidate"
      /\ Replaces(t)' => Before(t)'.by # None /\ ~Unchanged(t)'
  <2>1. Before(t)' = Before(t) /\ Unchanged(t)' = Unchanged(t)
    BY <1>3 DEF Before, Wanted, Unchanged
  <2> QED
    BY <1>1, <1>2, <2>1, ReplayThis
<1>7. \A a, b \in Target : a < b /\ ~Proven(a)' => ~Progress(b)'
  <2> SUFFICES ASSUME NEW a \in Target, NEW b \in Target, a < b, ~Proven(a)' PROVE ~Progress(b)'
    OBVIOUS
  <2>1. a < t \/ a = t \/ (a > t /\ b > t)
    BY TargetsAssumption DEF Target
  <2>2. a # t => a >= t
    <3>1. a < t => Proven(a)
      BY <1>4 DEF Turn
    <3> QED
      BY <1>5, <2>1, <3>1 DEF Target
  <2>3. b > t /\ b # t
    BY <2>2, TargetsAssumption DEF Target
  <2>4. ~Progress(b)
    BY <1>2, <1>4, <2>3 DEF ArtifactsOK, Turn, Target
  <2> QED
    BY <1>5, <2>3, <2>4
<1>8. ArtifactsOK'
  <2>1. \A u \in Target : /\ ArtifactState(u)' # "conflict"
                          /\ Marked(u)' => ArtifactState(u)' = "candidate"
                          /\ Replaces(u)' => Before(u)'.by # None /\ ~Unchanged(u)'
    BY <1>2, <1>5, <1>6 DEF ArtifactsOK
  <2> QED
    BY <1>7, <2>1 DEF ArtifactsOK
<1>9. ~ArtifactsDone
  BY <1>4 DEF Turn, ArtifactsDone
<1>10. journal.op \in Publication
  BY <1>2 DEF Inv, StoreOK, Prepared, Has, Journal
<1>11. ~(Appended > 0) /\ ~LinesDone
  <2>1. ~(Appended > 0)
    BY <1>9 DEF ClassifierOK
  <2>2. Len(Lines(journal.op)) = 2
    BY <1>10, PublicationLines
  <2> QED
    BY <2>1, <2>2 DEF LinesDone
<1>12. ~LoopAt(journal.cand) /\ ~Has("committed")
  BY <1>9, <1>11 DEF ClassifierOK
<1>13. ClassifierOK'
  BY <1>2, <1>3, <1>8, <1>11, <1>12 DEF ClassifierOK, Whole, Prepared, LoopAt, HashAt, LinesOK,
     Appended
<1> QED
  BY <1>3, <1>13

LEMMA EmptyLines == \A o \in Silent : Lines(o) = <<>>
  BY DEF Lines

(* The lock that nobody holds is at no step.                                 *)
Idle == holder = None => step = "free"

LEMMA NextIdle == Inv /\ Idle /\ [Next]_vars => Idle'
<1> SUFFICES ASSUME Inv, Idle, [Next]_vars PROVE Idle'
  OBVIOUS
<1>0. CASE UNCHANGED vars
  BY <1>0 DEF vars, Idle
<1>1. CASE Crash
  BY <1>1 DEF Crash, Idle
<1>2. ASSUME NEW o \in Op, Enter(o) PROVE Idle'
  BY <1>2, NoneAssumption DEF Enter, Take, Idle
<1>3. ASSUME NEW o \in Op, Work(o) PROVE Idle'
  <2>1. \/ holder = o /\ (holder' = holder)
        \/ holder' = None /\ step' = "free"
    BY <1>3 DEF Work, Reconcile, ReplayArtifact, ReplayLine, ReplayState, MarkCommitted, Admit,
       Retire, Snapshot, AppendLine, WriteLoop, WriteHash, EmitCheckpoint, Finish, Cleanup, Sweep,
       Bootstrap, WriteStages, WritePrepared, PrepareFails, Abandon, Fail, WriteIntent,
       ResumeIntent, ReplayRestore, RefuseRestore, RestoreLine, RestoreState, RemoveIntent, Remove,
       Restoring
  <2> QED
    BY <2>1, NoneAssumption DEF Idle
<1> QED
  BY <1>0, <1>1, <1>2, <1>3 DEF Next

(* Taking the lock, giving it back, and moving on with the files as they are.*)
LEMMA MovesRepair ==
  ASSUME Inv, Idle, RepairInv, NEW o \in Op,
         \/ Enter(o) \/ Reconcile(o) \/ Admit(o) \/ EmitCheckpoint(o) \/ Finish(o) \/ Cleanup(o)
         \/ PrepareFails(o) \/ Fail(o) \/ ResumeIntent(o) \/ ReplayRestore(o) \/ RefuseRestore(o)
  PROVE  RepairInv'
<1> SUFFICES ASSUME ~harm' PROVE RepairInv'
  BY DEF RepairInv
<1>1. UNCHANGED <<log, loop, hash, art, journal, intent, harm>>
  BY DEF Enter, Take, Reconcile, Admit, EmitCheckpoint, Finish, Cleanup, PrepareFails, Fail,
     ResumeIntent, ReplayRestore, RefuseRestore, files
<1>2. /\ step' \notin {"append", "state", "anchor", "stages"}
      /\ step \notin {"retire", "append", "state", "anchor"}
  BY DEF Idle, Enter, Take, Reconcile, Admit, EmitCheckpoint, Finish, Cleanup, PrepareFails, Fail,
     ResumeIntent, ReplayRestore, RefuseRestore
<1>3. Lined'
  BY <1>2 DEF Lined
<1> QED
  BY <1>1, <1>2, <1>3, SameFiles DEF OpenWrite

LEMMA CrashRepair ==
  ASSUME Inv, RepairInv, Crash
  PROVE  RepairInv'
<1> SUFFICES ASSUME ~harm' PROVE RepairInv'
  BY DEF RepairInv
<1>1. UNCHANGED <<log, loop, hash, art, journal, intent>> /\ step' = "free" /\ ~harm
      /\ step # "retire" /\ (step \in OpenWrite => SnapshotOK)
  BY DEF Crash, files, Unrepaired, OpenWrite
<1>2. Lined'
  BY <1>1 DEF Lined
<1> QED
  BY <1>1, <1>2, SameFiles DEF OpenWrite

LEMMA SnapshotRepair ==
  ASSUME Inv, RepairInv, NEW o \in Op, Snapshot(o)
  PROVE  RepairInv'
<1> SUFFICES ASSUME ~harm' PROVE RepairInv'
  BY DEF RepairInv
<1>1. UNCHANGED <<log, loop, hash, art, journal, intent, harm>> /\ step = "snapshot"
      /\ step' # "stages"
  BY DEF Snapshot, files
<1>2. Lined'
  <2>1. step' # "anchor"
    BY DEF Snapshot
  <2>2. step' = "append" => SnapshotOK /\ o \in Plain /\ holder' = o
    BY DEF Snapshot
  <2>3. step' = "state" => SnapshotOK /\ o \in Silent /\ holder' = o
    BY DEF Snapshot
  <2>4. loop.head \in Seq(Line)
    BY DEF Inv, StoreOK, State
  <2>5. o \in Plain => Len(Lines(o)) = 2 /\ Lines(o) \in Seq(Line)
    BY KindAssumption, LinesAreLines DEF Lines
  <2>6. o \in Plain /\ SnapshotOK =>
          log = loop.head \o SubSeq(Lines(o), 1, 0) /\ 0 \in 0..(Len(Lines(o)) - 1)
    <3>1. ASSUME o \in Plain PROVE SubSeq(Lines(o), 1, 0) = <<>> /\ loop.head \o <<>> = loop.head
      BY <2>4, <2>5, <3>1, WholeLines
    <3>2. o \in Plain => 0 \in 0..(Len(Lines(o)) - 1)
      BY <2>5
    <3> QED
      BY <3>1, <3>2 DEF SnapshotOK
  <2>7. o \in Silent /\ SnapshotOK => log = loop.head \o Lines(o)
    BY <2>4, EmptyLines DEF SnapshotOK
  <2> QED
    BY <1>1, <2>1, <2>2, <2>3, <2>6, <2>7 DEF Lined
<1> QED
  BY <1>1, <1>2, SameFiles DEF OpenWrite

LEMMA ReplayArtifactRepair ==
  ASSUME Inv, RepairInv, NEW o \in Op, ReplayArtifact(o)
  PROVE  RepairInv'
<1> SUFFICES ASSUME ~harm' PROVE RepairInv'
  BY DEF RepairInv
<1>1. /\ UNCHANGED <<log, loop, hash, intent, step>> /\ step = "replay" /\ ~harm
      /\ Prepared /\ intent = None
  BY DEF ReplayArtifact, Inv, StepOK, Whole, Reconciled
<1>2. ClassifierOK /\ Unmarked /\ Originated
  BY <1>1 DEF RepairInv, Classified
<1>3. ClassifierOK' /\ Unmarked'
  BY <1>2, ReplayClassified
<1>4. PICK t \in Target : MarkReplace(t) \/ UnlinkArtifact(t) \/ InstallArtifact(t) \/ MarkDone(t)
  BY DEF ReplayArtifact
<1>5. journal'.op = journal.op /\ journal'.cand = journal.cand /\ Prepared'
      /\ \A u \in Target \ {t} : art'[u] = art[u]
  BY <1>1, <1>2, <1>4, ReplayOthers DEF Prepared
<1>6. Decided'
  <2>1. ~ArtifactsDone
    BY <1>4 DEF MarkReplace, UnlinkArtifact, InstallArtifact, MarkDone, Turn, ArtifactsDone
  <2>2. journal.op \in Publication
    BY <1>1 DEF Inv, StoreOK, Prepared, Has, Journal
  <2>3. ~LinesDone
    <3>1. Len(Lines(journal.op)) = 2
      BY <2>2, PublicationLines
    <3>2. ~(Appended > 0)
      BY <1>2, <2>1 DEF ClassifierOK
    <3> QED
      BY <3>1, <3>2 DEF LinesDone
  <2>4. hash # journal.cand
    BY <1>2, <2>3 DEF ClassifierOK, HashAt
  <2> QED
    BY <1>1, <1>5, <2>4 DEF Decided
<1>7. Originated'
  <2>1. art \in [Target -> File]
    BY DEF Inv, StoreOK
  <2>2. art'[t].by \in {art[t].by, None, journal.op}
    BY <1>4, <2>1 DEF MarkReplace, UnlinkArtifact, InstallArtifact, MarkDone
  <2>3. None \notin Publication
    BY NoneAssumption DEF Op, Writing
  <2> QED
    BY <1>1, <1>2, <1>5, <2>2, <2>3 DEF Originated, Entered
<1> QED
  BY <1>1, <1>3, <1>6, <1>7 DEF RepairInv, Classified, Resumable, Snapped, Lined, Staged

(* What the classifier reads of the log: how many lines have been appended.  *)
LEMMA ClassifiedLines ==
  ASSUME Inv, ClassifierOK
  PROVE  /\ journal # None /\ journal \in Journal /\ journal.op \in Publication
         /\ journal.base.head \in Seq(Line) /\ Lines(journal.op) \in Seq(Line)
         /\ journal.cand = Apply(journal.base, journal.op)
         /\ journal.cand.head = journal.base.head \o Lines(journal.op)
         /\ Appended \in 0..Len(Lines(journal.op))
         /\ log = journal.base.head \o SubSeq(Lines(journal.op), 1, Appended)
         /\ LinesDone => log = journal.cand.head
<1>1. journal # None /\ journal \in Journal
  BY DEF Inv, StoreOK, ClassifierOK, Whole, Prepared, Has
<1>2. /\ journal.op \in Publication /\ journal.base.head \in Seq(Line)
      /\ journal.cand = Apply(journal.base, journal.op)
  BY <1>1 DEF Inv, StoreOK, JournalOK, Journal, State
<1>3. Lines(journal.op) \in Seq(Line)
  BY <1>2, PublicationLines
<1>4. journal.cand.head = journal.base.head \o Lines(journal.op)
  <2>1. \A st, o : Apply(st, o).head = st.head \o Lines(o)
    BY DEF Apply
  <2> QED
    BY <1>2, <2>1
<1> DEFINE h == journal.base.head
           L == Lines(journal.op)
<1>5. PICK n \in 0..Len(L) : log = h \o SubSeq(L, 1, n)
  BY DEF ClassifierOK, LinesOK
<1>6. h \in Seq(Line) /\ L \in Seq(Line) /\ Appended = Len(log) - Len(h)
      /\ (LinesDone <=> Appended = Len(L))
  BY <1>2, <1>3 DEF Appended, LinesDone
<1>7. Appended = n
  <2> HIDE DEF h, L
  <2>1. SubSeq(L, 1, n) \in Seq(Line) /\ Len(SubSeq(L, 1, n)) = n
    BY <1>6
  <2>2. Len(log) = Len(h) + n
    BY <1>5, <1>6, <2>1
  <2>3. Len(h) \in Nat
    BY <1>6
  <2> QED
    BY <1>6, <2>2, <2>3
<1>8. SubSeq(L, 1, Len(L)) = L
  BY <1>6, WholeLines
<1> QED
  BY <1>1, <1>2, <1>3, <1>4, <1>5, <1>6, <1>7, <1>8

(* The classifier of the artifacts reads these and no other parts.           *)
LEMMA SameArtifacts ==
  ASSUME art' = art, journal'.op = journal.op, journal'.before = journal.before,
         \A t \in Target : /\ Marked(t)' <=> Marked(t)
                           /\ Replaces(t)' <=> Replaces(t)
  PROVE  (ArtifactsOK' <=> ArtifactsOK) /\ (ArtifactsDone' <=> ArtifactsDone)
<1>1. ASSUME NEW t \in Target
      PROVE  /\ Before(t)' = Before(t) /\ Wanted(t)' = Wanted(t)
             /\ Unchanged(t)' <=> Unchanged(t)
  BY DEF Before, Wanted, Unchanged
<1>2. ASSUME NEW t \in Target PROVE ArtifactState(t)' = ArtifactState(t)
  <2>1. Unchanged(t) \in BOOLEAN /\ Unchanged(t)' \in BOOLEAN
    BY DEF Unchanged
  <2>2. Unchanged(t)' = Unchanged(t)
    BY <1>1, <2>1
  <2>3. IF Replaces(t)' THEN Replaces(t) ELSE ~Replaces(t)
    OBVIOUS
  <2> HIDE DEF Marked, Replaces, Before, Wanted
  <2> QED
    BY <1>1, <2>2, <2>3 DEF ArtifactState
<1>3. ASSUME NEW t \in Target
      PROVE  (Proven(t)' <=> Proven(t)) /\ (Progress(t)' <=> Progress(t))
  BY <1>1, <1>2 DEF Proven, Progress
<1> QED
  BY <1>1, <1>2, <1>3 DEF ArtifactsOK, ArtifactsDone

LEMMA ReplayLineRepair ==
  ASSUME Inv, RepairInv, NEW o \in Op, ReplayLine(o)
  PROVE  RepairInv'
<1> SUFFICES ASSUME ~harm' PROVE RepairInv'
  BY DEF RepairInv
<1>1. /\ UNCHANGED <<loop, hash, art, journal, intent, step>> /\ step = "replay" /\ ~harm
      /\ Prepared /\ intent = None /\ ArtifactsDone /\ ~LinesDone
  BY DEF ReplayLine, Inv, StepOK, Whole, Reconciled
<1>2. ClassifierOK /\ Unmarked /\ Originated
  BY <1>1 DEF RepairInv, Classified
<1> DEFINE h == journal.base.head
           L == Lines(journal.op)
           n == Appended
<1>3. /\ h \in Seq(Line) /\ L \in Seq(Line) /\ n \in 0..(Len(L) - 1)
      /\ log = h \o SubSeq(L, 1, n) /\ log' = Append(log, L[n + 1])
  <2>1. log' = Append(log, L[n + 1])
    BY DEF ReplayLine
  <2>2. h \in Seq(Line) /\ L \in Seq(Line) /\ n \in 0..Len(L) /\ log = h \o SubSeq(L, 1, n)
    BY <1>2, ClassifiedLines
  <2>3. n # Len(L)
    BY <1>1 DEF LinesDone
  <2> QED
    BY <2>1, <2>2, <2>3
<1>4. log' = h \o SubSeq(L, 1, n + 1)
  <2> HIDE DEF h, L, n
  <2> QED
    BY <1>3, NextLine
<1>5. LinesOK'
  <2>1. n + 1 \in 0..Len(L)
    BY <1>3
  <2> QED
    BY <1>1, <1>4, <2>1 DEF LinesOK
<1>6. loop # journal.cand /\ hash # journal.cand /\ ~Has("committed")
  BY <1>1, <1>2 DEF ClassifierOK, LoopAt, HashAt
<1>7. ClassifierOK'
  <2>1. ArtifactsOK' /\ ArtifactsDone' /\ Whole' /\ (Has("committed")' <=> Has("committed"))
    BY <1>1, <1>2, SameArtifacts DEF ClassifierOK, Marked, Replaces, Whole, Prepared, Has
  <2> QED
    BY <1>1, <1>2, <1>5, <1>6, <2>1 DEF ClassifierOK, LoopAt, HashAt
<1>8. Unmarked' /\ Prepared' /\ Decided'
  BY <1>1, <1>2, <1>6 DEF Unmarked, Prepared, Has, Decided
<1>9. Originated'
  BY <1>1, <1>2, <1>8 DEF Originated, Entered
<1> QED
  BY <1>1, <1>7, <1>8, <1>9 DEF RepairInv, Classified, Resumable, Snapped, Lined, Staged

LEMMA ReplayStateRepair ==
  ASSUME Inv, RepairInv, NEW o \in Op, ReplayState(o)
  PROVE  RepairInv'
<1> SUFFICES ASSUME ~harm' PROVE RepairInv'
  BY DEF RepairInv
<1>1. /\ UNCHANGED <<log, art, journal, intent, step>> /\ step = "replay" /\ ~harm
      /\ Prepared /\ intent = None /\ ArtifactsDone /\ LinesDone
  BY DEF ReplayState, Inv, StepOK, Whole, Reconciled
<1>2. ClassifierOK /\ Unmarked /\ Originated
  BY <1>1 DEF RepairInv, Classified
<1>3. \/ loop = journal.base /\ loop' = journal.cand /\ hash' = hash
      \/ loop = journal.cand /\ loop' = loop /\ hash' = journal.cand
  BY DEF ReplayState
<1>4. /\ log = journal.cand.head /\ journal.cand = Apply(journal.base, journal.op)
      /\ journal.base \in State /\ journal.op \in Op
  BY <1>1, <1>2, ClassifiedLines DEF Journal, Op, Writing
<1>5. ClassifierOK'
  <2>1. /\ ArtifactsOK' /\ ArtifactsDone' /\ LinesDone' /\ LinesOK' /\ Whole'
        /\ (Has("committed")' <=> Has("committed"))
    <3>1. ArtifactsOK' /\ ArtifactsDone'
      BY <1>1, <1>2, SameArtifacts DEF ClassifierOK, Marked, Replaces, Has
    <3> QED
      BY <1>1, <1>2, <3>1 DEF ClassifierOK, Whole, Prepared, Has, LinesDone, LinesOK, Appended
  <2>2. /\ loop' = journal.cand /\ hash' \in {journal.base, journal.cand}
        /\ Has("committed") => hash' = journal.cand
    BY <1>2, <1>3 DEF ClassifierOK, HashAt, LoopAt
  <2> QED
    BY <1>1, <2>1, <2>2 DEF ClassifierOK, LoopAt, HashAt
<1>6. Unmarked' /\ Prepared'
  BY <1>1, <1>2 DEF Unmarked, Prepared, Has
<1>7. Snapped'
  <2>1. loop' = journal.cand
    BY <1>3
  <2> QED
    BY <1>1, <1>4, <1>6, <2>1 DEF Snapped, Decided, SnapshotOK
<1>8. Originated'
  <2>1. \A p : Entered(loop, p) => Entered(loop', p)
    BY <1>3, <1>4, EnteredStays
  <2> QED
    BY <1>1, <1>2, <1>6, <2>1 DEF Originated
<1> QED
  BY <1>1, <1>5, <1>6, <1>7, <1>8 DEF RepairInv, Classified, Resumable, Lined, Staged

LEMMA MarkCommittedRepair ==
  ASSUME Inv, RepairInv, NEW o \in Op, MarkCommitted(o)
  PROVE  RepairInv'
<1> SUFFICES ASSUME ~harm' PROVE RepairInv'
  BY DEF RepairInv
<1>1. /\ UNCHANGED <<log, loop, hash, art, intent>> /\ step = "replay" /\ step' = "admit" /\ ~harm
      /\ Prepared /\ intent = None /\ ArtifactsDone /\ LinesDone
      /\ loop = journal.cand /\ hash = journal.cand
  BY DEF MarkCommitted, Inv, StepOK, Whole, Reconciled
<1>2. ClassifierOK /\ Unmarked /\ Originated /\ Snapped
  BY <1>1 DEF RepairInv, Classified
<1> DEFINE fs == journal.files \cup {"committed"}
<1>3. /\ journal'.op = journal.op /\ journal'.base = journal.base /\ journal'.cand = journal.cand
      /\ journal'.before = journal.before /\ journal'.done = journal.done
      /\ journal'.replace = journal.replace /\ journal'.files = fs /\ journal' # None
      /\ journal # None
  <2>1. journal \in Journal /\ journal' = [journal EXCEPT !.files = fs] /\ journal # None
    BY <1>1 DEF MarkCommitted, Inv, StoreOK, Prepared, Has
  <2>2. fs \in SUBSET {"owner", "stages", "prepared", "markers", "committed"}
    BY <2>1 DEF Journal
  <2> HIDE DEF fs
  <2>3. journal' \in Journal
    BY <2>1, <2>2 DEF Journal
  <2> QED
    BY <2>1, <2>3, NoneAssumption DEF Journal
<1>4. /\ \A f \in {"owner", "stages", "prepared", "markers"} : Has(f)' <=> Has(f)
      /\ Has("committed")'
  BY <1>3 DEF Has
<1> HIDE DEF fs
<1>5. ClassifierOK'
  <2>1. ArtifactsOK' /\ ArtifactsDone'
    <3>1. \A t \in Target : (Marked(t)' <=> Marked(t)) /\ (Replaces(t)' <=> Replaces(t))
      BY <1>3, <1>4 DEF Marked, Replaces
    <3> QED
      BY <1>1, <1>2, <1>3, <3>1, SameArtifacts DEF ClassifierOK
  <2>2. LinesDone' /\ LinesOK' /\ Whole'
    BY <1>1, <1>2, <1>3, <1>4 DEF ClassifierOK, Whole, Prepared, LinesDone, LinesOK, Appended
  <2> QED
    BY <1>1, <1>3, <2>1, <2>2 DEF ClassifierOK, LoopAt, HashAt
<1>6. Unmarked' /\ Prepared'
  BY <1>1, <1>2, <1>3, <1>4 DEF Unmarked, Prepared
<1>7. SnapshotOK'
  BY <1>1, <1>2 DEF Snapped, Decided, SnapshotOK, OpenWrite
<1>8. Originated'
  BY <1>1, <1>2, <1>3, <1>6 DEF Originated, Entered
<1> QED
  BY <1>1, <1>5, <1>6, <1>7, <1>8 DEF RepairInv, Classified, Resumable, Lined, Staged, Snapped

LEMMA RetireRepair ==
  ASSUME Inv, RepairInv, NEW o \in Op, Retire(o)
  PROVE  RepairInv'
<1> SUFFICES ASSUME ~harm' PROVE RepairInv'
  BY DEF RepairInv
<1>1. /\ UNCHANGED <<log, loop, hash, art, intent>> /\ step = "retire" /\ ~harm
      /\ journal # None /\ hash = journal.cand /\ intent = None
  BY DEF Retire, Remove, Inv, StepOK, Reconciled
<1>2. (Prepared' => Prepared) /\ ((journal' = None /\ step' = "snapshot") \/ step' = "retire")
  BY <1>1, RemoveKeeps DEF Retire
<1>3. SnapshotOK /\ SnapshotOK'
  BY <1>1 DEF RepairInv, Snapped, Decided, SnapshotOK, OpenWrite
<1>4. \A p \in Publication : Prepared /\ journal.op = p => Entered(loop, p)
  <2>1. /\ journal.op \in Logging /\ journal.base \in State
        /\ journal.cand = Apply(journal.base, journal.op)
    BY <1>1 DEF Inv, StoreOK, JournalOK, Journal, Logging
  <2> QED
    BY <1>1, <1>3, <2>1, EntersOwn DEF SnapshotOK
<1>5. Originated'
  BY <1>1, <1>4 DEF RepairInv, Originated, Entered
<1>6. Classified'
  BY <1>2 DEF Classified, Prepared, Has
<1> QED
  BY <1>1, <1>2, <1>3, <1>5, <1>6 DEF RepairInv, Resumable, Snapped, Lined, Staged

(* Nothing that is not prepared is missed when it is deleted.                *)
LEMMA RemoveRepair ==
  ASSUME Inv, RepairInv, NEW o \in Op, Sweep(o) \/ Abandon(o)
  PROVE  RepairInv'
<1> SUFFICES ASSUME ~harm' PROVE RepairInv'
  BY DEF RepairInv
<1>1. /\ UNCHANGED <<log, loop, hash, art, intent>> /\ step \in {"sweep", "abandon"} /\ ~harm
      /\ journal # None /\ ~Prepared /\ intent = None
  BY DEF Sweep, Abandon, Remove, Inv, StepOK, Reconciled, Clear
<1>2. ~Prepared' /\ step' \in {"sweep", "abandon", "prepare", "fail"}
  BY <1>1, RemoveKeeps DEF Sweep, Abandon
<1>3. SnapshotOK'
  BY <1>1 DEF RepairInv, Snapped, Decided, SnapshotOK, OpenWrite
<1>4. Originated'
  BY <1>1 DEF RepairInv, Originated, Entered
<1> QED
  BY <1>1, <1>2, <1>3, <1>4 DEF RepairInv, Classified, Resumable, Snapped, Lined, Staged

-----------------------------------------------------------------------------
LEMMA AppendLineRepair ==
  ASSUME Inv, RepairInv, NEW o \in Op, AppendLine(o)
  PROVE  RepairInv'
<1> SUFFICES ASSUME ~harm' PROVE RepairInv'
  BY DEF RepairInv
<1>1. /\ UNCHANGED <<loop, hash, art, journal, intent>> /\ step = "append" /\ ~harm
      /\ holder = o /\ holder' = o /\ ~Prepared /\ intent = None
  BY DEF AppendLine, Inv, StepOK, Reconciled, Clear
<1> DEFINE h == loop.head
           L == Lines(o)
<1>2. h \in Seq(Line) /\ L \in Seq(Line)
  BY LinesAreLines DEF Inv, StoreOK, State
<1>3. PICK n \in 0..(Len(L) - 1) : log = h \o SubSeq(L, 1, n)
  BY <1>1 DEF RepairInv, Lined
<1>4. Len(log) = Len(h) + n /\ Append(log, L[n + 1]) = h \o SubSeq(L, 1, n + 1)
  <2> HIDE DEF h, L
  <2> QED
    BY <1>2, <1>3, NextLine
<1>5. Len(log) - Len(h) = n
  BY <1>2, <1>4
<1>6. log' = h \o SubSeq(L, 1, n + 1) /\ step' = (IF n + 1 = Len(L) THEN "state" ELSE "append")
  BY <1>1, <1>4, <1>5 DEF AppendLine
<1>7. Lined'
  <2>1. SubSeq(L, 1, Len(L)) = L
    BY <1>2, WholeLines
  <2>2. n + 1 # Len(L) => n + 1 \in 0..(Len(L) - 1)
    BY <1>2
  <2> QED
    BY <1>1, <1>6, <2>1, <2>2 DEF Lined
<1>8. ~Prepared'
  BY <1>1 DEF Prepared, Has
<1>9. Originated'
  BY <1>1 DEF RepairInv, Originated, Entered
<1> QED
  BY <1>1, <1>6, <1>7, <1>8, <1>9 DEF RepairInv, Classified, Resumable, Snapped, Staged, OpenWrite

LEMMA WriteLoopRepair ==
  ASSUME Inv, RepairInv, NEW o \in Op, WriteLoop(o)
  PROVE  RepairInv'
<1> SUFFICES ASSUME ~harm' PROVE RepairInv'
  BY DEF RepairInv
<1>1. /\ UNCHANGED <<log, hash, art, journal, intent>> /\ step = "state" /\ step' = "anchor"
      /\ ~harm /\ holder = o /\ ~Prepared /\ intent = None /\ loop' = Apply(loop, o)
      /\ loop \in State
  BY DEF WriteLoop, Inv, StepOK, StoreOK, Reconciled, Clear
<1>2. loop'.head = loop.head \o Lines(o)
  <2>1. \A st, p : Apply(st, p).head = st.head \o Lines(p)
    BY DEF Apply
  <2> QED
    BY <1>1, <2>1
<1>3. Lined'
  BY <1>1, <1>2 DEF RepairInv, Lined
<1>4. ~Prepared'
  BY <1>1 DEF Prepared, Has
<1>5. Originated'
  <2>1. \A p : Entered(loop, p) => Entered(loop', p)
    BY <1>1, EnteredStays
  <2> QED
    BY <1>1, <2>1 DEF RepairInv, Originated
<1> QED
  BY <1>1, <1>3, <1>4, <1>5 DEF RepairInv, Classified, Resumable, Snapped, Staged, OpenWrite

LEMMA WriteHashRepair ==
  ASSUME Inv, RepairInv, NEW o \in Op, WriteHash(o)
  PROVE  RepairInv'
<1> SUFFICES ASSUME ~harm' PROVE RepairInv'
  BY DEF RepairInv
<1>1. /\ UNCHANGED <<log, loop, art, journal, intent>> /\ step = "anchor" /\ step' = "return"
      /\ ~harm /\ ~Prepared /\ intent = None /\ hash' = loop
  BY DEF WriteHash, Inv, StepOK, Reconciled, Clear
<1>2. SnapshotOK'
  BY <1>1 DEF RepairInv, Lined, SnapshotOK
<1>3. ~Prepared' /\ Originated'
  BY <1>1 DEF RepairInv, Originated, Prepared, Has, Entered
<1> QED
  BY <1>1, <1>2, <1>3 DEF RepairInv, Classified, Resumable, Snapped, Staged, Lined

-----------------------------------------------------------------------------
LEMMA BootstrapRepair ==
  ASSUME Inv, Inv', RepairInv, NEW o \in Op, Bootstrap(o)
  PROVE  RepairInv'
<1> SUFFICES ASSUME ~harm' PROVE RepairInv'
  BY DEF RepairInv
<1>1. /\ UNCHANGED <<log, loop, hash, art, intent>> /\ step = "prepare" /\ step' = "stages"
      /\ ~harm /\ ~Prepared /\ intent = None /\ holder = o /\ o \in Publication /\ ~Entered(loop, o)
  BY DEF Bootstrap, Inv, StepOK, Reconciled, Clear
<1>2. /\ journal' # None /\ journal'.op = o /\ journal'.before = art /\ journal'.files = {"owner"}
      /\ journal'.done = {} /\ journal'.replace = {}
  BY <1>1 DEF Bootstrap, Inv, StepOK
<1>3. \A t \in Target : art[t].by # o
  BY <1>1 DEF RepairInv, Originated
<1>4. Staged' /\ ~Prepared'
  BY <1>1, <1>2, <1>3 DEF Staged, Has, Prepared
<1>5. SnapshotOK' /\ Originated'
  BY <1>1 DEF RepairInv, Snapped, Decided, SnapshotOK, OpenWrite, Originated, Entered
<1> QED
  BY <1>1, <1>4, <1>5 DEF RepairInv, Classified, Resumable, Snapped, Lined

LEMMA WriteStagesRepair ==
  ASSUME Inv, Inv', RepairInv, NEW o \in Op, WriteStages(o)
  PROVE  RepairInv'
<1> DEFINE fs == journal.files \cup {"stages"}
<1> SUFFICES ASSUME ~harm' PROVE RepairInv'
  BY DEF RepairInv
<1>1. /\ UNCHANGED <<log, loop, hash, art, intent, step>> /\ step = "stages" /\ ~harm
      /\ ~Prepared /\ intent = None /\ journal # None /\ journal' # None /\ journal \in Journal
      /\ journal' = [journal EXCEPT !.files = fs]
  BY DEF WriteStages, Inv, StepOK, StoreOK, Reconciled, Clear
<1>2. /\ journal'.op = journal.op /\ journal'.before = journal.before /\ journal'.files = fs
      /\ journal'.done = journal.done /\ journal'.replace = journal.replace
  <2> HIDE DEF fs
  <2> QED
    BY <1>1 DEF Journal
<1>3. Staged' /\ ~Prepared'
  BY <1>1, <1>2 DEF RepairInv, Staged, Has, Prepared
<1>5. SnapshotOK' /\ Originated'
  BY <1>1 DEF RepairInv, Snapped, Decided, SnapshotOK, OpenWrite, Originated, Entered
<1> QED
  BY <1>1, <1>3, <1>5 DEF RepairInv, Classified, Resumable, Snapped, Lined

(* What has just been prepared is where nothing has been written yet.        *)
LEMMA WritePreparedRepair ==
  ASSUME Inv, Inv', RepairInv, NEW o \in Op, WritePrepared(o)
  PROVE  RepairInv'
<1> DEFINE fs == journal.files \cup {"prepared"}
<1> SUFFICES ASSUME ~harm' PROVE RepairInv'
  BY DEF RepairInv
<1>1. /\ UNCHANGED <<log, loop, hash, art, intent>> /\ step = "stages" /\ step' = "reconcile"
      /\ ~harm /\ ~Prepared /\ intent = None /\ journal # None /\ journal \in Journal
      /\ journal' = [journal EXCEPT !.files = fs] /\ Has("stages") /\ loop = hash
      /\ journal.base = loop /\ journal.op \in Publication
      /\ journal.cand = Apply(journal.base, journal.op) /\ journal.base \in State
  BY DEF WritePrepared, Inv, StepOK, StoreOK, JournalOK, Journal, Reconciled, Clear
<1>2. /\ journal'.op = journal.op /\ journal'.before = journal.before /\ journal'.files = fs
      /\ journal'.done = journal.done /\ journal'.replace = journal.replace
      /\ journal'.base = journal.base /\ journal'.cand = journal.cand /\ journal' # None
  <2>1. fs \in SUBSET {"owner", "stages", "prepared", "markers", "committed"}
    BY <1>1 DEF Journal
  <2> HIDE DEF fs
  <2>2. journal' \in Journal
    BY <1>1, <2>1 DEF Journal
  <2> QED
    BY <1>1, <2>2, NoneAssumption DEF Journal
<1>3. /\ SnapshotOK /\ Originated /\ Has("owner") /\ ~Has("markers") /\ ~Has("committed")
      /\ journal.before = art /\ journal.done = {} /\ journal.replace = {}
      /\ \A t \in Target : art[t].by # journal.op
  BY <1>1 DEF RepairInv, Staged, Snapped, Decided, OpenWrite
<1>4. Whole' /\ Prepared' /\ ~Has("markers")' /\ ~Has("committed")'
  BY <1>1, <1>2, <1>3 DEF Whole, Prepared, Has
<1>5. journal.cand # loop
  BY <1>1, Enters DEF Logging
<1>6. ASSUME NEW t \in Target
      PROVE  ArtifactState(t)' # "conflict" /\ ~Progress(t)' /\ ~Marked(t)' /\ ~Replaces(t)'
  <2>1. Before(t)' = art[t] /\ art'[t] = art[t]
    BY <1>1, <1>2, <1>3 DEF Before
  <2>2. ~Marked(t)' /\ ~Replaces(t)'
    BY <1>4 DEF Marked, Replaces
  <2>3. Unchanged(t)' <=> art[t].by # None /\ art[t].bytes = Wanted(t)'
    BY <2>1 DEF Unchanged
  <2>4. ArtifactState(t)' =
          IF art[t].by # None /\ art[t].bytes = Wanted(t)' THEN "candidate" ELSE "predecessor"
    BY <2>1, <2>3 DEF ArtifactState, Unchanged
  <2> QED
    BY <2>2, <2>3, <2>4 DEF Progress
<1>7. ArtifactsOK'
  BY <1>6 DEF ArtifactsOK
<1>8. Appended' = 0 /\ LinesOK'
  <2>1. loop.head \in Seq(Line) /\ Lines(journal.op) \in Seq(Line)
    BY <1>1, PublicationLines DEF State
  <2>2. Len(loop.head) \in Nat /\ log = loop.head
    BY <1>3, <2>1 DEF SnapshotOK
  <2>3. loop.head \o SubSeq(Lines(journal.op), 1, 0) = loop.head /\ 0 \in 0..Len(Lines(journal.op))
    <3>1. SubSeq(Lines(journal.op), 1, 0) = <<>> /\ loop.head \o <<>> = loop.head
      BY <2>1, WholeLines
    <3> QED
      BY <2>1, <3>1
  <2>4. log' = log /\ journal'.base.head = loop.head /\ Lines(journal'.op) = Lines(journal.op)
    BY <1>1, <1>2
  <2>5. Appended' = 0
    BY <2>2, <2>4 DEF Appended
  <2>6. log' = journal'.base.head \o SubSeq(Lines(journal'.op), 1, 0) /\ 0 \in 0..Len(Lines(journal'.op))
    BY <2>2, <2>3, <2>4
  <2> QED
    BY <2>5, <2>6 DEF LinesOK
<1>9. ClassifierOK'
  BY <1>1, <1>2, <1>4, <1>5, <1>7, <1>8 DEF ClassifierOK, LoopAt, HashAt
<1>10. Unmarked'
  BY <1>2, <1>3 DEF Unmarked
<1>11. Decided'
  BY <1>1, <1>2, <1>4, <1>5 DEF Decided
<1>12. Originated'
  BY <1>1, <1>3 DEF Originated, Entered
<1> QED
  BY <1>1, <1>9, <1>10, <1>11, <1>12 DEF RepairInv, Classified, Resumable, Snapped, Lined, Staged

LEMMA WriteIntentRepair ==
  ASSUME Inv, Inv', RepairInv, NEW o \in Op, WriteIntent(o)
  PROVE  RepairInv'
<1> SUFFICES ASSUME ~harm' PROVE RepairInv'
  BY DEF RepairInv
<1>1. /\ UNCHANGED <<log, loop, hash, art, journal>> /\ step' = "restoring" /\ ~harm
      /\ journal = None /\ SnapshotOK /\ intent'.base = loop
  BY DEF WriteIntent, JournalEmpty, Admissible
<1>2. intent' # None
  BY <1>1 DEF Inv, StepOK
<1>3. PartialOK'
  BY <1>1 DEF PartialOK, LogPartial, SnapshotOK
<1>4. ~Prepared' /\ Originated'
  BY <1>1 DEF RepairInv, Originated, Prepared, Has, Entered
<1> QED
  BY <1>1, <1>2, <1>3, <1>4 DEF RepairInv, Classified, Resumable, Snapped, Lined, Staged

(* The two writes of a restore lead from one partial state to the next.      *)
LEMMA RestoreRepair ==
  ASSUME Inv, RepairInv, NEW o \in Op, RestoreLine(o) \/ RestoreState(o)
  PROVE  RepairInv'
<1> SUFFICES ASSUME ~harm' PROVE RepairInv'
  BY DEF RepairInv
<1>1. /\ UNCHANGED <<art, journal, intent, step>> /\ step = "restoring" /\ ~harm
      /\ intent # None /\ journal = None /\ PartialOK
      /\ intent.cand = Apply(intent.base, intent.op) /\ intent.base \in State /\ intent.op \in Op
  BY DEF RestoreLine, RestoreState, Restoring, Inv, StepOK, StoreOK, IntentOK, Intent, RepairInv,
     Resumable, Op, Writing
<1>2. CASE RestoreLine(o)
  <2>1. log' = RestoreLines /\ UNCHANGED <<loop, hash>>
    BY <1>2 DEF RestoreLine
  <2>2. PartialOK'
    BY <1>1, <2>1 DEF PartialOK, LogPartial, RestoreLines
  <2>3. ~Prepared' /\ Originated'
    BY <1>1, <2>1 DEF RepairInv, Originated, Prepared, Has, Entered
  <2> QED
    BY <1>1, <2>2, <2>3 DEF RepairInv, Classified, Resumable, Snapped, Lined, Staged
<1>3. CASE RestoreState(o)
  <2>1. /\ log = RestoreLines /\ log' = log
        /\ \/ hash = intent.base /\ hash' = intent.cand /\ loop' = loop
           \/ hash = intent.cand /\ loop = intent.base /\ loop' = intent.cand /\ hash' = hash
    BY <1>3 DEF RestoreState
  <2>2. PartialOK'
    BY <1>1, <2>1 DEF PartialOK, LogPartial, RestoreLines
  <2>3. ~Prepared' /\ Originated'
    <3>1. \A p : Entered(loop, p) => Entered(loop', p)
      BY <1>1, <2>1, EnteredStays
    <3> QED
      BY <1>1, <3>1 DEF RepairInv, Originated, Prepared, Has
  <2> QED
    BY <1>1, <2>2, <2>3 DEF RepairInv, Classified, Resumable, Snapped, Lined, Staged
<1> QED
  BY <1>2, <1>3

LEMMA RemoveIntentRepair ==
  ASSUME Inv, RepairInv, NEW o \in Op, RemoveIntent(o)
  PROVE  RepairInv'
<1> SUFFICES ASSUME ~harm' PROVE RepairInv'
  BY DEF RepairInv
<1>1. /\ UNCHANGED <<log, loop, hash, art, journal>> /\ step' = "return" /\ ~harm
      /\ intent # None /\ journal = None /\ PartialOK /\ intent' = None
      /\ loop = intent.cand /\ hash = intent.cand
      /\ intent.cand = Apply(intent.base, intent.op) /\ intent.base \in State
      /\ intent.op \in Logging
  BY DEF RemoveIntent, Restoring, Inv, StepOK, StoreOK, IntentOK, Intent, RepairInv,
     Resumable, Logging
<1>2. intent.cand # intent.base
  BY <1>1, Enters
<1>3. log = RestoreLines
  BY <1>1, <1>2 DEF PartialOK
<1>4. intent.cand.head = RestoreLines
  <2>1. \A st, p : Apply(st, p).head = st.head \o Lines(p)
    BY DEF Apply
  <2> QED
    BY <1>1, <2>1 DEF RestoreLines
<1>5. SnapshotOK'
  BY <1>1, <1>3, <1>4 DEF SnapshotOK
<1>6. ~Prepared' /\ Originated'
  BY <1>1 DEF RepairInv, Originated, Prepared, Has, Entered
<1> QED
  BY <1>1, <1>5, <1>6 DEF RepairInv, Classified, Resumable, Snapped, Lined, Staged

-----------------------------------------------------------------------------
LEMMA NextRepair == Inv /\ Inv' /\ Idle /\ RepairInv /\ [Next]_vars => RepairInv'
<1> SUFFICES ASSUME Inv, Inv', Idle, RepairInv, [Next]_vars PROVE RepairInv'
  OBVIOUS
<1>1. CASE UNCHANGED vars
  <2>1. UNCHANGED <<log, loop, hash, art, journal, intent, step, holder, harm>>
    BY <1>1 DEF vars, files
  <2>2. SUFFICES ASSUME ~harm PROVE RepairInv'
    BY <2>1 DEF RepairInv
  <2>3. Lined'
    BY <2>1, <2>2 DEF RepairInv, Lined
  <2> QED
    BY <2>1, <2>2, <2>3, SameFiles
<1>2. CASE Crash
  BY <1>2, CrashRepair
<1>3. ASSUME NEW o \in Op, Enter(o) PROVE RepairInv'
  BY <1>3, MovesRepair
<1>4. ASSUME NEW o \in Op, Work(o) PROVE RepairInv'
  <2>1. CASE Reconcile(o) \/ Admit(o) \/ EmitCheckpoint(o) \/ Finish(o) \/ Cleanup(o)
    BY <2>1, MovesRepair
  <2>2. CASE PrepareFails(o) \/ Fail(o) \/ ResumeIntent(o) \/ ReplayRestore(o) \/ RefuseRestore(o)
    BY <2>2, MovesRepair
  <2>3. CASE ReplayArtifact(o) \/ ReplayLine(o) \/ ReplayState(o) \/ MarkCommitted(o)
    BY <2>3, ReplayArtifactRepair, ReplayLineRepair, ReplayStateRepair, MarkCommittedRepair
  <2>4. CASE Retire(o) \/ Sweep(o) \/ Abandon(o)
    BY <2>4, RetireRepair, RemoveRepair
  <2>5. CASE Snapshot(o) \/ AppendLine(o) \/ WriteLoop(o) \/ WriteHash(o)
    BY <2>5, SnapshotRepair, AppendLineRepair, WriteLoopRepair, WriteHashRepair
  <2>6. CASE Bootstrap(o) \/ WriteStages(o) \/ WritePrepared(o)
    BY <2>6, BootstrapRepair, WriteStagesRepair, WritePreparedRepair
  <2>7. CASE WriteIntent(o) \/ RestoreLine(o) \/ RestoreState(o) \/ RemoveIntent(o)
    BY <2>7, WriteIntentRepair, RestoreRepair, RemoveIntentRepair
  <2> QED
    BY <1>4, <2>1, <2>2, <2>3, <2>4, <2>5, <2>6, <2>7 DEF Work
<1> QED
  BY <1>1, <1>2, <1>3, <1>4 DEF Next

(* After any number of killed calls, outside the windows for which the code  *)
(* has no repair: a publication that is prepared is one its classifier rolls *)
(* forward, a pending restore is one that is resumed, and if neither is      *)
(* pending then log, state and hash agree.                                   *)
THEOREM CrashesAreRepaired == Spec => []CrashesAreRepairable
<1>1. Init => Idle
  BY DEF Init, Idle
<1>2. Idle /\ RepairInv => CrashesAreRepairable
  <2> SUFFICES ASSUME Idle, RepairInv, holder = None, ~harm PROVE CrashesAreRepairable
    BY DEF CrashesAreRepairable
  <2> QED
    BY DEF Idle, RepairInv, Classified, Resumable, Snapped, OpenWrite, CrashesAreRepairable
<1> QED
  BY <1>1, <1>2, InitInv, InitRepair, NextInv, NextIdle, NextRepair, PTL DEF Spec
=============================================================================
