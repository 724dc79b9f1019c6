----------------------------- MODULE Checkpoint -----------------------------
(* Checkpoints around a compaction of the host's context: checkpoint.mjs,    *)
(* the restore of integrity.mjs, compact-restore-intent.mjs and the two      *)
(* hooks.  The agent emits a checkpoint of the state of its run; after the   *)
(* compaction the PostCompact hook leaves a receipt beside the newest one;   *)
(* the SessionStart hook inspects them and names one; the agent restores it, *)
(* once, by an event in the log.  Old pairs are pruned under a tombstone.    *)
(* Every call holds the run lock and may be killed between two file          *)
(* operations.  AnchoredLog has the writes of the restore event one by one;  *)
(* here they are one step between the intent and its removal.                *)
EXTENDS Naturals, Sequences, FiniteSets

CONSTANTS Evidence,   \* what else is in a context: provider evidence, next action
          Keep,       \* KEEP
          None,
          MaxState,   \* bound: writes of the run
          MaxCrashes  \* bound: calls that are killed

ASSUME KeepAssumption     == Keep \in Nat /\ Keep > 1  \* five in the code
ASSUME BoundAssumption    == MaxState \in Nat /\ MaxCrashes \in Nat
ASSUME EvidenceAssumption == None \notin Evidence

VARIABLES run,       \* the state of the run, as far as a context shows it
          files,     \* the checkpoints by their context, the oldest first
          receipts,  \* the checkpoints that have an observation beside them
          tombs,     \* the checkpoints that have a prune tombstone
          intent,    \* the pending restore, or None
          restored,  \* the compact-restored events of the log
          call,      \* the call that holds the lock, or None
          made,      \* history: the checkpoint that was written last
          crashes

disk == <<run, files, receipts, tombs, intent, restored>>
vars == <<disk, call, made, crashes>>

(* A restore is asked for with the admission of the hook's receipt or of a   *)
(* person.                                                                   *)
Admissions == {"postcompact-observation", "human-attested"}

-----------------------------------------------------------------------------
Files == {files[i] : i \in 1..Len(files)}

(* affinity: the owner's scope is open and bound and has a current episode.  *)
(* leaseCheck refuses a paused run.                                          *)
Mutable == run.bound /\ ~run.paused

(* deriveContext: the whole state is in it, by its hash.                     *)
Context(ev) == [of |-> run.version, gen |-> run.gen, evidence |-> ev]

(* validateStrictBytes: the context is the one the state has now.            *)
Current(k) == k = Context(k.evidence)

Eligible == {k \in Files \ tombs : Current(k)}

Position(k)  == CHOOSE i \in 1..Len(files) : files[i] = k
NewestOf(S)  == CHOOSE k \in S : \A l \in S : Position(l) <= Position(k)
OldestOf(S)  == CHOOSE k \in S : \A l \in S : Position(k) <= Position(l)
Without(k)   == IF k \notin Files THEN files
                ELSE [i \in 1..(Len(files) - 1) |-> files[IF i < Position(k) THEN i ELSE i + 1]]

Call(verb, key, adm) == [verb |-> verb, key |-> key, adm |-> adm,
                         pc |-> "reconcile", victim |-> None, then |-> "reconcile"]

Init == /\ run = [version |-> 0, gen |-> 1, bound |-> TRUE, paused |-> FALSE,
                  cursor |-> None, cycle |-> 0]
        /\ files = <<>> /\ receipts = {} /\ tombs = {}
        /\ intent = None /\ restored = <<>>
        /\ call = None /\ made = None /\ crashes = 0

-----------------------------------------------------------------------------
(* All other writers of the run, one commit each.  They refuse a pending     *)
(* restore intent, as every user of the reconciled lock does.                *)
(* Mutant: the writers do not look for an intent.                            *)
UnblockedAnyway == call = None
Unblocked       == call = None /\ intent = None

Write(next) ==
  /\ Unblocked /\ run.version < MaxState
  /\ run' = [next EXCEPT !.version = @ + 1]
  /\ UNCHANGED <<files, receipts, tombs, intent, restored, call, made, crashes>>

Work       == Mutable /\ Write(run)
CloseScope == Mutable /\ Write([run EXCEPT !.bound = FALSE])
BindScope  == ~run.bound /\ ~run.paused /\ Write([run EXCEPT !.bound = TRUE])
PauseRun   == ~run.paused /\ Write([run EXCEPT !.paused = TRUE])

(* A person resumes by another session, whose row has no cursor yet.         *)
AcquireLease ==
  run.paused /\ Write([run EXCEPT !.gen = @ + 1, !.paused = FALSE, !.bound = FALSE,
                                  !.cursor = None, !.cycle = 0])

-----------------------------------------------------------------------------
Holds(verbs, pc) == call # None /\ call.verb \in verbs /\ call.pc = pc
Goto(pc)         == call' = [call EXCEPT !.pc = pc]
Done             == call' = None
Same(v)          == UNCHANGED <<v, made, crashes>>

(* emit and observe enter by withFencedReconciledMutationLock.  The hook     *)
(* observes the newest file, whatever state it is of.                        *)
StartEmit ==
  /\ Unblocked /\ Mutable /\ run.version < MaxState
  /\ \E ev \in Evidence : call' = Call("emit", Context(ev), None)
  /\ Same(disk)

StartObserve ==
  /\ Unblocked /\ Mutable /\ files # <<>>
  /\ call' = Call("observe", files[Len(files)], None)
  /\ Same(disk)

StartRestore ==
  /\ call = None /\ Mutable
  /\ \E k \in Files, adm \in Admissions : call' = Call("restore", k, adm)
  /\ Same(disk)

(* reconcileCompactPruneTombstonesLocked: what a killed prune left is taken  *)
(* away, the receipt first, the tombstone last.                              *)
Doomed == IF call.verb = "restore" THEN tombs \cap {call.key} ELSE tombs

Reconcile ==
  /\ Holds({"emit", "observe", "restore"}, "reconcile") /\ Doomed # {}
  /\ \E k \in Doomed :
       call' = [call EXCEPT !.victim = k, !.pc = "receipt",
                            !.then = IF call.verb = "restore" THEN "refuse" ELSE "reconcile"]
  /\ Same(disk)

Verbs == {"emit", "observe", "restore"}

UnlinkReceipt ==
  /\ Holds(Verbs, "receipt")
  /\ receipts' = receipts \ {call.victim} /\ Goto("checkpoint")
  /\ UNCHANGED <<run, files, tombs, intent, restored, made, crashes>>

UnlinkCheckpoint ==
  /\ Holds(Verbs, "checkpoint")
  /\ files' = Without(call.victim) /\ Goto("tombstone")
  /\ UNCHANGED <<run, receipts, tombs, intent, restored, made, crashes>>

UnlinkTombstone ==
  /\ Holds(Verbs, "tombstone")
  /\ tombs' = tombs \ {call.victim}
  /\ IF call.then = "refuse" THEN Done
     ELSE call' = [call EXCEPT !.pc = call.then, !.victim = None]
  /\ UNCHANGED <<run, files, receipts, intent, restored, made, crashes>>

-----------------------------------------------------------------------------
(* strictEmit: the file of this context is there already, or is written.     *)
WriteCheckpoint ==
  /\ Holds({"emit"}, "reconcile") /\ Doomed = {}
  /\ files' = IF call.key \in Files THEN files ELSE Append(files, call.key)
  /\ made' = IF call.key \in Files THEN made ELSE call.key
  /\ Goto("prune")
  /\ UNCHANGED <<run, receipts, tombs, intent, restored, crashes>>

(* observeLocked: only the newest checkpoint of the present state.           *)
Observable == call.key \in Eligible /\ call.key = NewestOf(Eligible)

WriteReceipt ==
  /\ Holds({"observe"}, "reconcile") /\ Doomed = {} /\ Observable
  /\ receipts' = receipts \cup {call.key} /\ Goto("prune")
  /\ UNCHANGED <<run, files, tombs, intent, restored, made, crashes>>

RefuseObserve ==
  /\ Holds({"observe"}, "reconcile") /\ Doomed = {} /\ ~Observable
  /\ Done /\ Same(disk)

(* pruneCapturedLocked: down to Keep, the oldest first, but neither the      *)
(* checkpoint at hand nor the one of a pending restore.                      *)
Pinned == IF intent = None THEN {} ELSE {intent.key}

Prunable == IF Len(files) <= Keep THEN {} ELSE (Files \ Pinned) \ {call.key}

(* Mutant: the pair is removed without a tombstone.                          *)
WriteTombstoneNot ==
  /\ Holds({"emit", "observe"}, "prune") /\ Prunable # {}
  /\ call' = [call EXCEPT !.victim = OldestOf(Prunable), !.pc = "receipt", !.then = "prune"]
  /\ Same(disk)

WriteTombstone ==
  /\ Holds({"emit", "observe"}, "prune") /\ Prunable # {}
  /\ tombs' = tombs \cup {OldestOf(Prunable)}
  /\ call' = [call EXCEPT !.victim = OldestOf(Prunable), !.pc = "receipt", !.then = "prune"]
  /\ UNCHANGED <<run, files, receipts, intent, restored, made, crashes>>

FinishPrune ==
  /\ Holds({"emit", "observe"}, "prune") /\ Prunable = {}
  /\ Done /\ Same(disk)

-----------------------------------------------------------------------------
(* validateRestoreAdmission.                                                 *)
(* Mutant: the checkpoint must still be of the present state.                *)
AdmittedFresh == /\ call.key.gen = run.gen /\ Current(call.key)
                 /\ call.adm = "postcompact-observation" => call.key \in receipts

Admitted == call.key.gen = run.gen
            /\ (call.adm = "postcompact-observation" => call.key \in receipts)

(* The cursor of the owner's row is the last event of the log.               *)
Replayed == run.cursor # None /\ run.cursor.key = call.key /\ run.cursor.version = run.version

(* compactRestoreRequestBinding: the same key and the same admission.        *)
Bound == intent.key = call.key /\ intent.adm = call.adm

Ready == Holds({"restore"}, "reconcile") /\ Doomed = {}

(* Mutant: a checkpoint of an earlier state will do.                         *)
RestorableStale(k) == k \in Files
Restorable(k)      == k \in Files /\ Current(k)

WriteIntent ==
  /\ Ready /\ Admitted /\ intent = None /\ ~Replayed /\ Restorable(call.key)
  /\ intent' = [key |-> call.key, adm |-> call.adm, base |-> run.version]
  /\ Goto("restore")
  /\ UNCHANGED <<run, files, receipts, tombs, restored, made, crashes>>

ResumeIntent ==
  /\ Ready /\ Admitted /\ intent # None /\ Bound
  /\ Goto("restore") /\ Same(disk)

ReplayRestore ==
  /\ Ready /\ Admitted /\ intent = None /\ Replayed
  /\ Done /\ Same(disk)

RefuseRestore ==
  /\ Ready
  /\ \/ ~Admitted
     \/ intent = None /\ ~Replayed /\ ~Restorable(call.key)
     \/ intent # None /\ ~Bound
  /\ Done /\ Same(disk)

(* classifyRestoreLog: the event is there already, or is appended now with   *)
(* the cursor it makes.                                                      *)
(* Mutant: the event is appended without looking.                            *)
UncommittedAnyway == TRUE
Uncommitted       == run.version = intent.base

CommitRestore ==
  /\ Holds({"restore"}, "restore")
  /\ IF Uncommitted
     THEN /\ restored' = Append(restored, [key |-> call.key, at |-> run.version, gen |-> run.gen])
          /\ run' = [run EXCEPT !.version = @ + 1, !.cycle = @ + 1,
                                !.cursor = [key |-> call.key, version |-> run.version + 1]]
     ELSE UNCHANGED <<run, restored>>
  /\ Goto("clean")
  /\ UNCHANGED <<files, receipts, tombs, intent, made, crashes>>

RemoveIntent ==
  /\ Holds({"restore"}, "clean")
  /\ intent' = None /\ Done
  /\ UNCHANGED <<run, files, receipts, tombs, restored, made, crashes>>

Crash ==
  /\ call # None /\ crashes < MaxCrashes
  /\ Done /\ crashes' = crashes + 1
  /\ UNCHANGED <<disk, made>>

-----------------------------------------------------------------------------
Step == \/ Reconcile \/ UnlinkReceipt \/ UnlinkCheckpoint \/ UnlinkTombstone
        \/ WriteCheckpoint \/ WriteReceipt \/ RefuseObserve \/ WriteTombstone \/ FinishPrune
        \/ WriteIntent \/ ResumeIntent \/ ReplayRestore \/ RefuseRestore
        \/ CommitRestore \/ RemoveIntent

Next == \/ Work \/ CloseScope \/ BindScope \/ PauseRun \/ AcquireLease
        \/ StartEmit \/ StartObserve \/ StartRestore \/ Step \/ Crash

Spec == Init /\ [][Next]_vars

(* A call that has the lock runs on; the session that wanted a restore asks  *)
(* for it again.                                                             *)
AskAgain == StartRestore /\ intent # None /\ call'.key = intent.key /\ call'.adm = intent.adm

FairSpec == Spec /\ WF_vars(Step) /\ SF_vars(AskAgain)

-----------------------------------------------------------------------------
(* inspectLocked, for the SessionStart hook: the newest eligible checkpoint, *)
(* unless the cursor names a newer one; a receipt makes it compacted.        *)
CursorKeys == IF run.cursor # None /\ run.cursor.key \in Files \ tombs
              THEN {run.cursor.key} ELSE {}
(* Mutant: the newest file is named, whatever state it is of.                *)
CandidatesOfAnyState == (Files \ tombs) \cup CursorKeys
Candidates           == Eligible \cup CursorKeys

Inspected ==
  IF run.paused \/ ~run.bound \/ Candidates = {} THEN None
  ELSE LET k == NewestOf(Candidates)
       IN  [key |-> k, phase |-> IF k \in CursorKeys THEN "restored"
                                 ELSE IF k \in receipts THEN "compacted" ELSE "prepared"]

(* A restore that has begun can be completed by the same request, whoever    *)
(* was killed and whatever else was called meanwhile: the files it is        *)
(* admitted by are there, and the run is as the intent found or made it.     *)
IntentCompletable ==
  intent # None =>
    /\ intent.key \in Files \ tombs /\ intent.key.gen = run.gen
    /\ intent.adm = "postcompact-observation" => intent.key \in receipts
    /\ Mutable
    /\ \/ run.version = intent.base
       \/ run.cursor = [key |-> intent.key, version |-> intent.base + 1]
          /\ run.version = intent.base + 1

(* A checkpoint is restored at most once, and the cycles of a session count  *)
(* its restores.                                                             *)
RestoredOnce ==
  /\ \A i, j \in 1..Len(restored) : restored[i].key = restored[j].key => i = j
  /\ run.cycle = Cardinality({i \in 1..Len(restored) : restored[i].gen = run.gen})

(* A restore extends the very state its checkpoint was taken of: the agent   *)
(* is never told to go on from a context that the run has left.              *)
RestoresItsState == \A i \in 1..Len(restored) : restored[i].at = restored[i].key.of

(* Pruning, wherever it is cut short, takes the receipt of a checkpoint only *)
(* under the tombstone that takes the checkpoint too, so that none is left   *)
(* behind as one that was never observed; and it spares the checkpoint that  *)
(* was written last, which the coming compaction depends on.                 *)
PruneSpares ==
  [][/\ \A k \in receipts : k \notin receipts' => k \in tombs /\ k \in tombs'
     /\ made # None => made \in Files' \ tombs']_vars

(* What the SessionStart hook names, restore admits.                         *)
OfferIsRestorable ==
  Inspected # None /\ intent = None /\ call = None =>
    /\ Inspected.phase \in {"prepared", "compacted"} =>
         Inspected.key \notin tombs /\ Restorable(Inspected.key) /\ Inspected.key.gen = run.gen
    /\ Inspected.phase = "restored" => \E i \in 1..Len(restored) : restored[i].key = Inspected.key

(* A restore that has begun is completed.                                    *)
IntentResolves == intent # None ~> intent = None
=============================================================================
