# deep-loop: a TLA+ verification development

deep-loop runs long agent work as a chain of sessions. One *run* is a directory
with a `loop.json`, an event log and artifacts; at any time one *session* owns
the run through a lease, and when a workstream is closed the run is handed to a
fresh session. The program's own logic is a kernel (`src/scripts/lib`, about 27
thousand lines of JavaScript) behind a command line (`src/scripts/deep-loop.mjs`);
agents follow skills (`src/skills`) that call the command line. The kernel is
the reference of this development: every definition translates its code.

## 1. Inventory

| part | state it keeps | operations | interacts through |
|---|---|---|---|
| lease (`lease.mjs`) | `session_chain.lease`: owner, generation, state, handoff phase, child, boundary event, deadline, takeover kind | `acquireLease`, `releaseLease`, `reserveHandoff`, `rollbackReservedEmit`, `leaseCheck` | every other write is fenced by it |
| handoff (`handoff.mjs`) | child row, links of the parent row, artifacts | `emitHandoff` | reserves and commits on the lease |
| respawn (`respawn.mjs`) | nothing of its own; claims the phase | `respawn` and its rollback, cancellation, preserving pause, readiness wait | reads once, then acts through fenced calls; starts an external host |
| recovery (`recover.mjs`) | replacement row, abandoned row, reservation | `recoverRun`, `supersedeAffinity`, `acquireRecovery` | needs a paused run; its reservation blocks all but its replacement |
| session scope (`session-scope.mjs`, `workspace.mjs`) | `scope` of each session row; workstreams | bind, close, supersede | routing and handoff ask which scopes are open or closed |
| run status (`state.mjs`, `finish.mjs`, `initrun.mjs`, `schema.mjs`) | `status`, `pause_reason` | `pauseRun`, `finishRun`, `initRun` | pauses close the business gate |
| next action (`next-action.mjs`) | none | `nextAction` | asked again inside reserve, commit, claim and cancel |
| budget (`budget.mjs`) | counters, limits, receipts, reservations | `recordCost`, `extendBudget`, `reconcileBudget` | gates respawn and recovery; unpauses |
| breaker, reviews, episodes (`breaker.mjs`, `review.mjs`, `episode.mjs`, `comprehension.mjs`) | episodes, review points, breaker counter | record, bind, approve, reject, reset | trip pauses the run; finish proof reads them |
| run lock, state store (`state.mjs`, `atomic-write.mjs`, `fs-safe.mjs`) | `.lock/owner.json`; `loop.json` and its hash | `withLock`, `writeState` | makes every kernel function one step |
| anchored log, transactions (`integrity.mjs`, `transaction-journal.mjs`) | event log, anchor, journal | `appendAnchored`, reconcile, roll forward | every commit |
| project root (`project-root.mjs`, `project-root-recovery.mjs`) | `project.root`, its binding generation, commands people were given, receipts | diagnose, rebind, recover, acquire | while the stored root does not resolve nothing else runs; its reservation also pauses and unpauses |
| checkpoints, compaction restore (`checkpoint.mjs`, `compact-restore-intent.mjs`, two hooks) | checkpoints, observations, prune tombstones, the pending intent, the cursor of a session | emit, observe, prune, inspect, restore | a pending intent blocks every other writer |
| headless host, preflight (`headless-host.mjs`, `codex-preflight.mjs`, `preflight-receipt-journal.mjs`) | receipts of measured processes, the published preflight | drive: drain, review, preflight, start | drives respawn; settles costs in the budget |
| launchers, executables, routing, insights, evaluation | none, or none shared | — | give respawn a verdict |

Hard behaviour. Commands are separate processes. A kernel function reads
`loop.json` under the run lock and writes it once, so it is atomic; a *command*
is several functions, and whatever it remembers from an earlier one (the owner
and generation, the child id, the snapshot its artifacts were built from, that
the gate was open, that the run was not paused) may be stale at the next.
Commands die between functions. A launch of a host may fail, succeed, or report
failure after it succeeded. A child may come late. People pause, recover, extend
and resume at any time. `PROJECT.json` lists each hazard at its line.

What makes each part correct: a handoff that is committed stays whole until it
is taken, rolled back or recovered; the host of a child starts at most once; a
lease passes only from a session that laid it down to the one reserved; a
recovery reservation stays acquirable; nothing changes after the end; a
reservation or a launch never leaves the run waiting for ever. For the store:
a commit happens at once and whole, wherever a call is killed. For the work of a
run: what is advised is accepted, what was closed stays proven, a review decides
only what it was asked about. For a moved project: nobody is thrown out by a
command that was not about him. For compaction: one restore, to the state the
checkpoint was made of. For the budget: every process is paid for once, by the
session it worked for, before its receipt goes.

## 2. Modules

| module | models | state and actions |
|---|---|---|
| `SessionChain` | the shared durable state and the predicates its guards are made of | `lease`, `sess` (rows), `status`, `pauseReason`, `blocked` (gates that are closed), `work` (the finish proof), `minted` (drawn ids), `fresh` (emitters whose snapshot still is the state) |
| `Lease` | `lease.mjs` acquire and release, `pauseRun`, `finishRun`, budget and breaker gates, the owner's scope | one action per function that changes state |
| `Handoff` | `handoff emit`: fence, reserve, snapshot, commit, compensation, crash | `emit[e]`: where an emitting process is and what it remembers |
| `Respawn` | `respawn`: first read, gate, claim, launch, record, wait, rollback, preserving pause, cancellation, crash | `resp[r]`, and `launches[s]`, a count of hosts started |
| `Recovery` | `supersedeAffinity`, `recoverBoundary`, `acquireRecovery` | over the same state |
| `Kernel`, `MCKernel` | the composition of these five, its fairness, its properties | |
| `Ownership` | what the chain promises, abstractly: holder, term, held, heir, ended | implemented by `Kernel` and by `RootRecovery` |
| `RunLock`, `MCRunLock` | `withLock`, file operation by file operation | `lock`, `quarantine`, `owner`, `pc` per call |
| `AnchoredLog`, `MCAnchoredLog` | how a commit is written: log, `loop.json`, `.loop.hash`, the journal of write-ahead transactions, a restore's intent | `step`, the place of the one call that holds the lock, and the files |
| `AtomicCommit` | what the store promises: one whole commit at a time | implemented by `AnchoredLog` |
| `Checkpoint`, `MCCheckpoint` | emit, observe, prune, inspect and restore of checkpoints around a compaction | `files`, `receipts`, `tombs`, `intent`, `restored`, the running `call` |
| `Workplane`, `MCWorkplane` | workstreams, maker and checker episodes, dispatch, claims, import, rejection, comprehension, breaker, finish proof, and `nextAction`'s routing | `eps`, `streams`, `reports`, `dispatching`, counters |
| `RootRecovery`, `MCRootRecovery` | a project that moves: diagnosis, rebinding, recovery and its acquisition, with `Handoff` and `Recovery` going on | `at`, `root`, `binding`, `epoch`, `orders` |
| `Accounting` | floors, reports and receipts in the budget, on top of `Respawn` and `Recovery` | `log`, `turns`, `spent`, `files` (receipts) |
| `HeadlessHost`, `MCHeadlessHost` | the unattended host and its workers, on top of `Accounting` | `host`, `running`, `record` |
| `ChainTyping`, `KernelProofs`, `RunLockProofs`, `AnchoredLogProofs`, `CheckpointProofs`, `WorkplaneProofs`, `RootRecoveryProofs`, `HeadlessHostProofs` | theorems | |

Definitions keep the source's names where they can; `map` in `PROJECT.json`
gives the lines of each.

*How they compose.* `RunLock` shows why a call may be one step for others; it is
the ground all other modules stand on. `AnchoredLog` shows why a commit may be
one step for others although it is many writes; `Kernel`, `Workplane`,
`RootRecovery` and `Accounting` take each commit as one action for that reason,
and `Checkpoint` takes the two writes of the restore event as one, because
`AnchoredLog` has them one by one. `RootRecovery` and `HeadlessHost` are
compositions with the real modules of the session chain and not with a stub of
it: the sessions, the emitter and the recoveries go on beside the moved project,
and the host's respawn is `Respawn`'s. `Workplane` is the work of one run under
whatever session owns it; the session chain has its result as `work`.

*What the data is abstracted to.* Session ids are model values; `minted` keeps a
ulid from being drawn twice. A boundary event is named by the session whose
scope it closed, since a scope closes at most once. The idempotency key is a
hash of owner, generation and boundary, so it is the same for every reservation
of a generation and is derived, not stored. In the session chain the finish
proof is `open`, `scoped` (only the episodes the owner's view keeps are done) or
`whole`; `Workplane` has it in full. Gates are a set of closed ones: `budget`,
`wallclock`, `breaker`, and `policy` for `max_sessions` and `auto_handoff`. The
deadline is none, live or expired. Trusting a launcher or an executable is a
choice: it passes or preserves the handoff. Continuation policy is
`workstream-session`, the only one `initRun` accepts. In `AnchoredLog` a state
is the lines it anchors, the artifacts it refers to and the number of writes
that log nothing; equal contents are one file, as digests are what the code
compares. A checkpoint is named by what its context contains. Review flags and
the artifacts of a worktree are the number of their changes.

## 3. Runs

Passing:

| run | instance | states | shows |
|---|---|---|---|
| `race` | 3 sessions, 1 emitter, 2 respawners, all may crash, budget gate, 2 generations | 1.6 M | `HandoffCommitted`, `PreservedChildCanAcquire`, `LaunchedOnce`, `LinksAgree`, `OwnershipSpec`, `TerminalIsFinal` |
| `attended` | 4 sessions, 1 emitter that may crash, no respawner, wall clock and breaker, 3 generations | 0.5 M | `KernelTypeOK`, `OneOpenScope`, `PreservedHandoffIsRecoverable`, `RecoveryStands` |
| `settles` | 2 sessions, 2 emitters and 1 respawner that run on, policy gate, 2 generations | 0.21 M | `VisibleSpawnSettles`, `ReservationResolves` |
| `lock` | 4 calls of `withLock`, 2 of which may be killed, 2 attempts | 1.3 M | `DeletesOnlyMoved`, `BreakingTakesFour` |
| `store` | one operation of each kind, a publication of 3 artifacts, 2 calls killed | 0.33 M | `CrashesAreRepairable`, `CleanReadIsWhole`, `OneProtocolPending`, `CommitsAtomically`, `RollsForward` |
| `compaction` | 2 pieces of evidence, 2 checkpoints kept, 3 states of the run, 2 calls killed | 0.5 M | `IntentCompletable`, `RestoredOnce`, `RestoresItsState`, `OfferIsRestorable`, `PruneSpares`, `IntentResolves` |
| `work` | 2 workstreams, 1 review point, 4 episodes, 2 owner sessions, 2 claims, 2 disturbances | 1.0 M | `AdviceAccepted`, `RoutingSeesAllWork`, `ClosedIsProven`, `CountersAgree`, `ActiveReviewsUseCurrentFlags`, `ClaimDecidesItself` |
| `relocation` | 3 sessions, 1 emitter, breaker, 2 places, 3 moves, 3 generations | 2.4 M | `ReservationStaysWhole`, `WorkstreamFollows`, `SpentCommandsAreRefused`, `OwnershipAcrossMoves` |
| `accounting` | 3 sessions, 1 host driven twice, killed anywhere, 1 preflight, 1 checker, 1 other write, 2 generations | 1.4 M | `BooksAgree`, `NoTurnLostOrDoubled`, `NothingBlocksTheDrain`, `EndedBooksClose`, `CleanUpIsSafe` |

Violations (each is a finding in `PROJECT.json`):

| run | property | what the code does |
|---|---|---|
| `lock_four` | `MutualExclusion` of the run lock, 4 calls of which one is killed | a slow reclaimer moves a live lock away (section 5) |
| `lock_unlink` | `NeverDeletesALiveOwner`, 4 calls of which one is killed | a slow reclaimer deletes the `owner.json` of a running call (section 5) |
| `relocation_stuck` | `ReplacementCanAcquire`, 4 sessions, 4 generations, 1 move | a relocation that finds no open scope retires nobody, and the acquisition later asks for a retired predecessor (section 9) |

Bounds. Each is a constant of its module and named there with the word bound.
*Session chain*: `Session`, `MaxGeneration` and the number of processes
(`launches` saturates at 2, which is enough to tell once from twice).
Two generations cover a handoff and its acquisition; three cover a recovery
after an acquired handoff, and a second handoff by the child. A third session
id lets a handoff be rolled back and emitted again, a fourth lets that be
recovered; `settles` has one child only, for which two emitters compete (with
three sessions and one emitter both its properties hold too, 0.12 M states). Two
respawners are the least that race. Larger instances were run
once without the respawner (4 sessions, 4 generations) and with it (4 sessions,
3 generations, 5.6 M states) with the same outcome. The instances split the
gates because a gate multiplies the states and only `HardBudget`, `breaker` and
`policy` are told apart by guards. `attended` has the wall clock
because that is the gate that can close while a recovery is reserved (accounting
is fenced off by then). *Store*: one artifact that is replaced, one that is
already as wanted and one that is added are the three cases of a target; two
kills let the call that repairs be killed too. *Compaction*: `Keep` is 2 instead
of 5, the least that keeps a checkpoint besides the newest; two pieces of
evidence make two checkpoints of one state. *Work*: four episodes are two makers
with their checkers, or a maker, its rejected checker, the fix and its checker,
or a maker whose two checkers were dispatched twice; `MaxExtras` bounds only
what is out of the ordinary (status set by hand, abandonment, acknowledgement,
pause and reset, edits behind a claim), and `MaxLoad` episodes and these
together, 5 here.
*Relocation*: three moves are away, back and away again, so that an old command
meets a run that went on. *Accounting*: the second drive is the one that finds
what the first left; three generations were run once (4.5 M states) with the
same outcome. Ids other than the root are symmetric in the safety runs, as are
workstreams and calls; the liveness runs use no symmetry. Deadlock is checked in
`store`; in the other modules a run that has ended, a paused run at its bound, or
processes that have exited really stop.

Fairness. In the session chain `FairSpec` has weak fairness of `Continue(e)` and
`Proceed(r)`, the steps of a process that has begun its command: each is
straight-line code that waits for nothing but the run lock. Nobody is obliged to
begin a command, no child is obliged to come, no person to act. Crashes are
outside its instances: a killed emitter really leaves its reservation, which only
`recoverBoundary` replaces. In `AnchoredLog` a call that holds the lock runs on
(weak fairness of `Work`), and callers come back (strong fairness of entering,
for the restores each, for the rest together, since `withLock` retries and the
next command reconciles whatever it is). In `Checkpoint` a call runs on, and the
session that asked for a restore that was cut short asks again with the same
request (strong, because the lock may be held whenever it looks): until it does,
every one of its own writes fails with the pending intent, which is what makes
it ask. Kills are bounded in both, so that some attempt is not killed.

## 4. The session chain: what is proved

All theorems are about `Spec` for every set of sessions, emitters, respawners,
gates and every bound, from the named assumptions on constants in `SessionChain`.

* `KernelProofs!Typing`: `KernelTypeOK`, from one lemma per component in
  `ChainTyping`, which the other compositions use too.
* `KernelProofs!LeaseSafety`: `LeaseInv`, by induction with the types.
  `HandoffCommitted` alone is not inductive: a rollback decided earlier has to
  know that the lease it returns has no deadline, and an acquisition that the
  reserved child is a drawn id other than the owner. `OnlyHandoffExpires` and
  `ReservedIsMinted` say so, and the three together are inductive.
  `CommittedHandoffWhole` and `PreservedChildAdmitted` (a preserving pause keeps
  the child admitted) are consequences of `LeaseInv`.
* `KernelProofs!KernelImplementsOwnership`: each step of the kernel is a
  step of `Ownership` or a stutter, with `holder = lease.owner`, `term =
  generation`, `held` an active lease, `heir` the reserved child and `ended` a
  terminal run. It uses `LeaseInv`: an acquisition takes from a lease that is
  not active and names nobody or the taker.
* `KernelProofs!EndIsFinal`: `TerminalIsFinal`, step by step; every command that
  began before the end is refused by its own guard, not by a common check.
* `KernelProofs!LaunchOnce`: `LaunchedOnce`. The invariant counts, for each
  child, the claims that may still launch it: a launch in the future needs a
  respawner at `launch` for this child, there is at most one, the phase is then
  past `emitted` or the generation or child has moved on, and a child that was
  launched is never reserved again because ids are drawn once.
* `KernelProofs!ChainIsLinked`: `LinksAgree`. Strengthened by two facts: a row
  is of an id that was drawn, and the child of a handoff that is only reserved
  has no row yet. So the row that a commit writes is new, and nobody names it.

Three more hold where nobody launches anything, and are proved under the
hypothesis `Attended` (`Respawner = {}`), for any sessions, emitters, gates and
bounds. The hypothesis is the attended mode of the program, in which a person
starts the successor; with a respawner late rollbacks and failed launches break
them (below), so they are not true for all constants.

* `KernelProofs!OneScopeOpen`: `OneOpenScope`. The invariant, `LiveInv`, is that
  at most one row is not retired and that it has no successor. A commit or a
  recovery retires the only such row before it writes the next; that it is the
  only one needs `LeaseInv` and `LinkInv` (which row a phase of the lease names).
* `KernelProofs!PausedHandoffIsRecoverable`: a handoff that a pause preserved is
  one that `recoverBoundary` accepts. The guard of the recovery reads rows, links
  and phases that several commands wrote; `LeaseInv` and `LiveInv` have each of
  them.
* `KernelProofs!RecoveryHolds`: `RecoveryStands`, a reservation that a recovery
  left ends in one way only, its replacement takes the lease: every other command
  that writes the lease refuses one that is reserved for a recovery.

Only model-checked: `VisibleSpawnSettles` and `ReservationResolves`, which are
liveness.

What the model shows of the code that no property states, because the code or a
comment accepts it or nothing says otherwise:

* `pause --mode rollback` in the middle of a handoff keeps `takeover_kind`, the
  boundary event and the retired parent row (`state.mjs:693`; the comment at
  `:686` says the reservation is rolled back).
* A late rollback of a respawner destroys the reservation that a boundary
  recovery made in the same generation: it compares owner and generation only
  (`respawn.mjs:273`, decided at `:240`).
* The claim does not look at the pause again (`respawn.mjs:144`), in spite of
  `respawn.mjs:460`; a run paused in between is still spawned.
* A run paused with an active lease and an unbound or closed scope admits
  neither resume nor recovery (`recover.mjs:657`).
* The row of a child whose launch failed stays an open scope and keeps
  `recoverBoundary` from abandoning a later handoff (`respawn.mjs:242`, `:326`).
* `extendBudget` and `resetBreaker` unpause a run that was paused a second time
  for another reason (`breaker.mjs:46`), and `extendBudget` does not accept a
  pause for `gate:wallclock`, whose name has no limit in it (`budget.mjs:487`).

## 5. The run lock

`RunLock` is `withLock` of `state.mjs`, one action per file-system call that
other processes can come between. A call makes the directory `.lock`, captures
its identity, writes `owner.json` through the path, reads it back, runs its
function (`inside`, with renewals), and releases by renaming the directory away,
looking at it again and deleting it. A call that finds the directory taken may
reclaim it: `tryReclaim` inspects it, renames it to a quarantine named after the
token it read, inspects it again and deletes it. `resumeReclaim`, at the head of
every attempt, completes a quarantine whose reclaimer died.

A directory is named by the call that made it, which is also its identity and
its token's call; `owner.json` is what the directory says of itself. `rmSync` is
two steps, `owner.json` and then the directory; a directory that was replaced by
a full one in between stays, and the model lets that call throw or go on. A
call's process ends after the call (`Exit`) or at any step of it (`Crash`), and
only then can its lock be reclaimed, once its heartbeat has passed the TTL
(`Age`). The reads of `tryReclaim` are one step because the last of them looks
at everything again. Left out, because they only make a call give up sooner or
leave a lock alone: deadlines, locks of another host, a reused pid; and the
flushes, since a power failure is not modelled.

Three calls that may all be killed exclude each other (a corollary of what is
proved below, `ThreeExclude`). It ends there, and two runs with four calls, one
of them killed, show why.

`lock_four`: the check and the rename of `tryReclaim` are two system calls on a
path, and the code makes up for it by looking again after the rename. When the
moved directory is not the one inspected (another call reclaimed the dead lock
first, and a third made a new one), the look comes too late: the live lock is out
of its place, a fourth call whose `resumeReclaim` was already past makes a new
one, and two are inside. The same race leaves the moved directory under a
quarantine name that is not its owner's, which `resumeReclaim` refuses for every
later call (`state.mjs:540`). The code refuses rather than repairs on purpose,
as it never reclaims a directory without `owner.json`
(`src/tests/state.test.mjs:379`).

`lock_unlink`: the second look and the deletion are two calls on a path as well
(`state.mjs:516`, `:519`). A reclaimer that is slow between them still means the
dead lock it saw; meanwhile another call resumes that quarantine, empties it,
makes a lock and is inside, and a third, slow before its own rename, moves this
live lock to the emptied path. The first then deletes the `owner.json` of a
running call (`NeverDeletesALiveOwner`).

What does hold, for four calls with two killed (`lock`) and, as theorems,
for every number of calls and attempts and whichever of them are killed:

* `DeletesOnlyMoved` (`DeletionsAreOfTheMoved`): an owner file is deleted only by
  the release of its own call or out of the quarantine of a dead one. The lock at
  its own path is never emptied, whoever moved or rewrote it meanwhile. It rests
  on `PlaceInv`: whoever reclaims does so in the name of an ended call, no
  directory is at two places, and a call deletes what it retreated with.
* `BreakingTakesFour` (`ExclusionHoldsOut`): two calls are inside only after a
  third ended and left its lock behind, and a fourth, which had seen that lock,
  is past its own rename; so three calls exclude each other (`ThreeExclude`). The
  invariant is a disjunction. Either the place is in order (`Orderly`: an owner
  file names the maker of its directory, the lock is of the call that holds it or
  of a dead one, and only dead calls' directories are in quarantine), or some
  call is misled (`Misled`): it moved another lock than the one it saw, and this
  stays so, since it can only throw. The one step that leads from the first to
  the second is a rename that came too late.

The types are proved (`LockTyping`) and not checked by a run. Two attempts
(`MaxTries`) are enough for a call that reclaims and then acquires; calls with
the same rights to crash are interchangeable, hence the symmetry.

`Kernel` takes mutual exclusion for granted: its atomic actions stand on it. A
race as in `lock_four` needs a killed call, an expired TTL and three contenders
inside one rename, and is outside what `Kernel` shows.

## 6. The store

`AnchoredLog` has the three protocols that write a run's state. `appendAnchored`
without a publication appends lines, then writes `loop.json`, then `.loop.hash`.
With a publication it prepares a transaction in `transactions/` (bytes staged,
digests before and after), writes the artifacts, the lines and the two files,
marks it committed and retires it. A restore writes an intent, one line, the
hash and the state. `writeState` under a reconciled lock writes the two files
without a line. One call holds the lock at a time (`RunLock`) and may be killed
between any two writes. The next call classifies what it finds
(`ClassifierOK`, `PartialOK`, `SnapshotOK` stand for the reconciliation in
`integrity.mjs`), replays a prepared publication or refuses.

What holds: a publication or restore that a kill cut short is always such that
the next call completes it (`CrashesAreRepairable`); a read that reports a clean
run sees artifacts of one commit (`CleanReadIsWhole`); a pending restore and a
decided publication never meet (`OneProtocolPending`); the whole implements
`AtomicCommit` (`CommitsAtomically`), where the value is the candidate of a
prepared publication and otherwise the state whose hash was written; and what is
pending is completed (`RollsForward`, fairness above).

The exception is named in the model: `harm`. A plain append killed between its
lines and its state (`integrity.mjs:2883-2900`), and the two files of a state
without a transaction (`state.mjs:283`), have no repair: every later call
refuses. Retiring a committed publication deletes files one by one; a directory
that still has `prepared.json` but no commit mark makes later calls report
`RECONCILIATION_REQUIRED`. The refinement holds all the same, since refusing
commits nothing. Also seen: a call whose publication was already committed is
checked against the fence it had then (`integrity.mjs:2111-2113`).

Proved for any operations, targets, contents and number of kills:
`StoreKeepsOneProtocol` and `StoreCommitsAtomically`. Their invariant says, for
each place of a call, how far log, state and hash have come, that a prepared
journal knows the state it started from, and that an intent is pending only
beside no prepared journal. Types are part of it. `CleanReadsAreWhole` and `CrashesAreRepaired` prove the
other two invariants. They need to know what the artifacts are in the middle of
a publication (`ArtsInv`: outside of it they are those of the state, and a
pending restore changes none) and what a kill leaves behind (`RepairInv`, as long
as there is no `harm`): a prepared journal is one the next call classifies and
found no artifact that bears its own mark (`Classified`), a pending restore is one
that can be resumed (`Resumable`), and without either the snapshot is whole
(`Snapped`). This is said of every place of a call, so that a kill anywhere leaves
something repairable; on the way the log is the old one and a prefix of the lines
of the operation (`Lined`), and a mark on an artifact is of a publication whose
lines are in the log, or of the pending one (`Originated`). One assumption on the
names is stated, `BeforeAssumption`: "before" is not a publication.
`RollsForward` is liveness and stays with TLC.

## 7. Compaction

`Checkpoint` has the agent that emits a checkpoint, the PostCompact hook that
leaves an observation beside the newest one, the SessionStart hook that names one
(`Inspected`), the restore, and the prune that keeps the last `KEEP`. Work,
pauses and takeovers go on in between. Each call is killed between file
operations. A restore asks for one checkpoint with one admission (`key`): it
leaves an intent, writes its event, removes the intent; a second call with the
same request completes it, any other refuses.

What holds: a checkpoint is restored at most once (`RestoredOnce`) and to the
state it was taken of (`RestoresItsState`); what the hook offers is admitted
(`OfferIsRestorable`); a begun restore can be completed by its request
(`IntentCompletable`) and is (`IntentResolves`); a prune cut short leaves no
checkpoint that lost its observation only, and spares the newest
(`PruneSpares`). All five invariants and action properties are proved for any
evidence, bounds and kills, from one invariant, `CheckInv`: a call runs on a run
that stays mutable, only a restore meets an intent and commits that one, and what
is unlinked is under its tombstone (`Working`); an intent is of the state its
checkpoint was taken of; no checkpoint is two files, and the one written last is
the last of them (`Distinct`, `Spared`); the log of the restores is of the past
and has the one the cursor names (`Past`, `CursorLogged`). The count of
`RestoredOnce` is the size of a set of places in that log, so that no induction
over it is needed.
`KeepAssumption` says `Keep > 1`; the code keeps five. It is needed: an emission
of a context that is already on disk is not the newest file, and with `Keep = 1`
the prune that follows it could delete the newest. `IntentResolves` is liveness
and stays with TLC.

Seen: a pending intent blocks every other writer, and only the same request
resolves it; the hook that observes picks the newest checkpoint by file time and
the library by `generated_at`; SessionStart may name another checkpoint while an
intent is pending, and the restore refuses it, hence the antecedent of
`OfferIsRestorable`.

## 8. The work of a run

`Workplane` has the calls of `episode`, `review`, `workspace`, `comprehension`,
`breaker` and `finish`, each one step under the lock and fenced by the owner,
except where the code is not: `dispatchReview` reads the run first and creates
the checker later (`dispatching`), and a reviewer works for any time between the
claim and the import (`reports`), while the artifacts are edited, the flags
replaced and the lease taken over. `Advice` is the routing of `nextAction` on the
owner's view, read in its order.

What holds: the call that `nextAction` names is accepted by the kernel
(`AdviceAccepted`: routing and the fences of the calls are separate code), and
when it has nothing left, nothing but blocked episodes stands in the way of the
proof (`RoutingSeesAllWork`); what was closed stays proven (`ClosedIsProven`);
the counters follow the flags through acknowledgements, credits and abandonments
in any order (`CountersAgree`); no review goes on by replaced flags; and a
claimed review is decided by the report of its last claim, in the session of this
claim and on its artifacts (`ClaimDecidesItself`). Each episode keeps, in the
field `report`, the report that decided it, as the event of the outcome names
its attempt (`review.mjs:625`): a reviewer who was given up may still hand in,
after a reset and another claim, and must not decide. All six are proved for any
workstreams and bounds (`WorkplaneProofs`). For the reviews, the invariant
numbers the claims, no two alike, keeps the last with its checker, binds each
checker to the flags and its target, and each
dispatch in flight to what it read. For the counters (`CountersAreRight`), each
step rewrites one or two episodes and a rewritten episode moves each counter by
the change of its membership; this needs that a reviewed maker is done, and so
never abandoned. For the routing and the closing the invariant is `RouteInv`:
a checker comes after the maker it is of, in its workstream and at its point
(`Follows`); only a checker is judged, and work is of a workstream that exists
(`WorkExists`); a review point is done only by a done maker (`PointsDone`); a
scope that is not closed is of an open workstream (`ScopeOpen`); and
`ClosedIsProven` itself. It is kept by a relation on steps and not action by
action: every step keeps what an episode is of and what is terminal, and adds
work to open workstreams only (`Grows`), closes a workstream only with its proof
(`Moves`), and binds the scope to an open one (`Binds`); the invariant survives
any such step. The last episode with a property, which the routing asks for, is
the greatest element of a finite set of places; that it exists is the least
number principle of the library and needs no induction of our own.

Left out: hill-climb contracts, the `standalone` reviewer, CONCERN (it passes as
APPROVE does), checkers made by hand with `episode new --role checker`, exports
without callers (`recordReviewed`, `recordReviewVerdict`, `tripBreaker`),
inheritance between workstreams and their integration order. The budget gate and
the linked boundary are the session chain's.

Seen: a maker without a workstream is advised but refused
(`WORKSTREAM_REQUIRED`, `episode.mjs:295`), the one exception of
`AdviceAccepted`; a stale claim can only be abandoned or reset; two dispatches
of one maker make two checkers, both of which must be done away with; a
workstream that was never started cannot be abandoned; blocked episodes that are
not the current one are not surfaced.

## 9. A project that moves

`RootRecovery` extends `Handoff` and `Recovery`. While `project.root` does not
resolve every call of the session chain is refused; a person diagnoses the run,
is given a command (`orders`), and carries it out then or later. A rebinding
opens a new epoch. A recovery also retires whoever had an open scope and reserves
the lease for a replacement.

What holds: a reservation of a recovery, made before or after a move, keeps all
its acquisition asks for except, see below, a predecessor
(`ReservationStaysWhole`); a command that was given before the present owner took
the lease, or before the run was bound to its present root, is refused, however
often the project has come back and gone again (`SpentCommandsAreRefused`;
`spent` is a history variable that only this property reads); a workstream that was open stays open in some session
(`WorkstreamFollows`); and the lease still passes as `Ownership` says, with the
generation less the epochs as term and no end
(`OwnershipAcrossMoves`).

All four are proved, for any sessions, emitters, places and moves.
`MovesKeepOwnership` rests on the fields of the lease and the fact that only a
handoff has a deadline. `SpentCommandsFail` rests on the generation, which no step
takes back and which advances with every new owner and every new root
(`Advances`), so that a spent command is of an earlier one (`SpentInv`).
`ReservationsStand` and `WorkIsKept` are about scopes over the whole chain and
rest on `ReservedInv`: ids are drawn before they are used as owner, child, row or
successor; a session without a row has done nothing yet; the child of a handoff
has no scope of its own unless it is superseded for its affinity; and then
`ReservationStaysWhole` is inductive. `RootTyping` types `SessionChain` and
`RootRecovery` together (a relocation has a pause reason and an outcome of its
own), and `FewDrawn`, that finitely many ids are drawn at any time, is needed
because `AffinityReady` counts the open scopes.

What does not hold is the run `relocation_stuck`: `tombstoneForRelocation`
supersedes rows with an open scope; if there is none (the scope of the owner is
closed and its child has no row yet, or a child acquired and closed its scope),
the reservation names nobody it replaces, and `rootRecoveryReservationKind`
(`budget.mjs:563`) never admits the replacement.

Seen: `root rebind` makes a stopped or completed run paused
(`project-root-recovery.mjs:815`), though `finish.mjs:127-128` calls the end
one-way (hence no `ended` in the mapping); a rebound run that was quiet is left
paused, active and unbound, which nobody can resume; an owner with a closed
scope and no handoff is `unverifiable`, so that the run waits until the project
is moved back; a command is not bound to the hash of the state it was
diagnosed on; a lease taken by an id without a row makes a relocation drop the
workstream; and a terminal run whose lease was reserved and released before the
rebinding leaves a reserved child of the old epoch that `acquireLease` admits.

Left out: a live headless host (it only delays), relocated receipts and
review claims, the retention of receipts, retries without effect, copies of a
project.

## 10. What a run has spent

`Accounting` has the log as far as it costs: a floor of one turn for every
business write, explicit reports, and receipts that the workers of measured
processes leave on disk. A report or a receipt absorbs the floors its session
logged since the last of them. `HeadlessHost` is one drive of the host: drain the
receipts, review a pending checker or start the child of an emitted handoff, each
behind a preflight of two smokes. The host may be killed anywhere, its workers go
on, and the next host drains what they left, while sessions acquire, work,
recover and finish.

What holds: budget, sessions and log agree (`BooksAgree`); a turn is neither lost
nor paid twice whatever the order of settlement (`NoTurnLostOrDoubled`); a
receipt never blocks the hosts to come, because its context no longer fits
(`NothingBlocksTheDrain`); after the end at most one measured process is charged
(`EndedBooksClose`); and no receipt goes before its cost is in the log, nor a
read smoke's before its write smoke's (`CleanUpIsSafe`).

`HeadlessHostProofs` has all five for any sessions and any number of attempts,
over the types of `HostTyping`:

* `BooksAreRight`. What a commit charges is added to the sum over the log, to the
  budget and to the session in the same step; the turns of a session are a
  cardinality of units, so no induction over the log is needed.
* `TurnsArePaidOnce`. The inductive invariant `Balanced` has both bounds at every
  state, with the floors after the last report or receipt still to be absorbed:
  a session has paid for its receipts and those floors, for all its floors, and
  for no more than its receipts, its floors and two for each report.
* `EndedBooksAreClosed`. `EndInv` says that a finish in the log has ended the run
  and that the floor of the same commit follows it at once.
* `CleanUpSpares`. `CleanInv` says that an attempt's id is not drawn again and its
  smokes run once, that a published record is a pair of settled smokes, and that
  the list a host is removing goes with what it still has to settle.
* `DrainGoesOn`. `NothingBlocksTheDrain` says `SettlementAccepted`, the whole
  condition of the settlement, of every receipt whose predecessor is settled, so
  the proof is about contexts at past generations. `DrainInv` has three parts.
  `DrivenInv` is about the chain under a host: only the owner waits for the child
  of a handoff, that child has not started, and a respawner gives a child up only
  before it comes. `Told` gives every maker its `Story`: it acquired, or nobody
  came in its place, or its launch failed; and whatever sessions do later, that
  remains so. `EventsInv` says of each settled event that it is the only one of
  its receipt, has the price of the log before it, and that the origin it names
  is still a possible one.

Left out: a release of the lease, its expiry and takeovers by strangers (after
them the terminal proofs below are missing), the inventory of receipts at a
relocation, `settleTerminalCodexMakerCost`, a torn receipt, two hosts that
overlap after the TTL of the host lock, the legacy accounting mode, the cache of
preflights beyond one key, budget gates, tokens (they follow turns), the host's
own emission after an imported review (it is the owner's), visible and
unmeasured runtimes.

Seen: a write smoke that ends after its host was killed and its read receipt
was drained makes every listing throw (against `codex-preflight.mjs:879-880`); a
crash between opening a receipt and writing it leaves an empty one; the drain
stops at the first refusal, so one bad receipt blocks the rest; of two unsettled
receipts at the end the second has no terminal proof, and preflight receipts
then are always refused; a child that comes late and takes a released lease
makes its maker's receipt mismatch for ever;
`inventoryRelocatedProcessReceipts` absorbs one floor twice (`budget.mjs:183`),
and a relocation leaves receipts with the digest of the old root;
`pauseWithFreshFence` may pause the session of a child that has just acquired.

## 11. What is not modelled, and why

* *Legacy continuation policy* (`advanceHandoffPhase`, `rollbackHandoff`,
  `legacyRecover`, the precompact hook): `initRun` accepts only
  `workstream-session`, so no new run reaches them.
* *Launchers, executables, descriptors, desktop targets*: text and facts of the
  operating system; `Respawn` takes their verdict as a choice.
* *Run context, recipes, routing of models, insights, evaluation harness*:
  sequential computations over files that change no shared state.
* *Skills and recipes*: what the agent is told to do. The model lets its calls
  come in any order, so what holds here does not depend on them.
* *Contents*: event payloads, capsules, snapshots, digests, wording, the hash
  chain of single lines.
* *Power failure*: flushes are not modelled; a crash is a killed process.
* The parts that sections 8 to 10 name as left out.

Out of the prover's reach everywhere: liveness under fairness
(`VisibleSpawnSettles`, `ReservationResolves`, `RollsForward`, `IntentResolves`),
ENABLED, and induction over data. Of the safety that the passing runs check,
nothing is left to TLC alone.

## 12. Plan

Done: everything in sections 4 to 10. Left, in this order:

1. `inventoryRelocatedProcessReceipts` as the composition of `RootRecovery` and
   `Accounting`, and two hosts that overlap; tokens apart from turns.
2. Hill-climb contracts and inheritance between workstreams in `Workplane`.
3. `Workplane` composed with `SessionChain`, so that `work` and the breaker's
   gate are its projections instead of choices.
4. Proofs: what the late rollbacks and failed launches of respawners leave true
   of the scopes (section 4).
