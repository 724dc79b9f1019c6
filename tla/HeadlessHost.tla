---------------------------- MODULE HeadlessHost ----------------------------
(* The unattended host of a Codex run (headless-host.mjs, codex-preflight.mjs *)
(* and the workers of streaming-process.mjs), next to the sessions it drives. *)
(* One call of driveHeadlessRun settles the receipts that lie on disk, removes *)
(* them, and then does one thing: it has a pending checker review the work,   *)
(* or it starts the child of an emitted handoff, each after a preflight of    *)
(* two smoke processes.  Every process writes the receipt of its own usage;   *)
(* the host only waits.  The host may be killed anywhere, its workers are     *)
(* processes of their own and go on, and the next host drains what they left. *)
(*                                                                            *)
(* At most one host drives a run at a time (acquireHeadlessHostLock); the     *)
(* respawn it calls is Respawn's, with the host as its only respawner.  Which *)
(* checker is pending is any choice, and expected entries, identities and     *)
(* environments that have drifted are a failure that may come at any time.    *)
EXTENDS Accounting

CONSTANTS Host,       \* the host, as a respawner
          MaxStarts   \* bound on the calls of driveHeadlessRun

ASSUME HostAssumption    == Respawner = {Host} /\ Emitter = {}
ASSUME StartsAssumption  == MaxStarts \in Nat

VARIABLES host,      \* what the host remembers
          running,   \* the receipts that live workers will write
          record,    \* the pair of smokes that was published as passed
          tries,     \* the preflights begun, for their attempt ids
          starts     \* the hosts begun

hostVars == <<host, running, record, tries, starts>>
runVars  == <<chainVars, log, turns, spent, checks, extras>>
vars     == <<chainVars, resp, launches, costVars, hostVars>>

(* `todo' are the receipts still to be settled and `list' those to be removed *)
(* after that; `next' is where the host goes then and `failed' where it goes  *)
(* when a settlement is refused.                                              *)
HostOff == [pc |-> "off", owner |-> Root, generation |-> 1, child |-> None,
            goal |-> "none", maker |-> "none", todo |-> {}, list |-> {},
            next |-> "off", failed |-> "off"]

Init == /\ ChainInit /\ RespawnInit /\ AccountingInit
        /\ host = HostOff /\ running = {} /\ record = {} /\ tries = 0 /\ starts = 0

At(l)   == host.pc = l
Goto(l) == host' = [host EXCEPT !.pc = l]
Stop    == host' = HostOff
SettleThen(receipts, next, failed) ==
  host' = [host EXCEPT !.pc = "settle", !.todo = receipts, !.list = receipts,
                       !.next = next, !.failed = failed]

Started(s) == HasRow(s) /\ sess[s].started

-----------------------------------------------------------------------------
(* The sessions: takeovers, the recovery of a lost child, the owner's work    *)
(* with its floors, an explicit report of `budget record', and the end.       *)
SessionAcquires(o) ==
  /\ \/ o = lease.child /\ AcquireTakeover(o)
     \/ AcquireRecovered(o)
  /\ UNCHANGED costVars

Recovers(o) == RecoverBoundary(o) /\ UNCHANGED costVars

(* emitHandoff; the steps of it that other emitters come between are those    *)
(* of Handoff.                                                                *)
EmitHandoff(child) ==
  /\ LeaseCheck(Owner, lease.generation, "lease") /\ status = "running"
  /\ ~RecoveryInFlight /\ lease.phase \in {"idle", "acquired"}
  /\ ClosedScope(Owner) /\ ~sess[Owner].retired /\ NextAction = "handoff"
  /\ child \in Session \ minted
  /\ sess' = [sess EXCEPT
                ![child] = [NoSession EXCEPT !.row = TRUE, !.parent = Owner],
                ![Owner].succ = child, ![Owner].retired = TRUE]
  /\ lease' = [lease EXCEPT !.phase = "emitted", !.state = "releasing", !.child = child,
                            !.event = Owner, !.expires = "live",
                            !.takeover = "boundary-handoff"]
  /\ minted' = minted \cup {child}
  /\ ChargeFloor
  /\ Write /\ UNCHANGED <<status, pauseReason, blocked, work, files, checks, extras>>

Works == /\ BindScope \/ CloseScope("open")
         /\ ChargeFloor /\ UNCHANGED <<files, checks, extras>>

WritesMore ==
  /\ extras < MaxExtras /\ extras' = extras + 1
  /\ LeaseCheck(Owner, lease.generation, "business")
  /\ ChargeFloor /\ UNCHANGED <<chainVars, files, checks>>

Reports(n) ==
  /\ extras < MaxExtras /\ extras' = extras + 1
  /\ LeaseCheck(Owner, lease.generation, "accounting")
  /\ Charge(Explicit("report", lease.owner, lease.generation, n, None))
  /\ UNCHANGED <<chainVars, files, checks>>

FinishEvent == [type |-> "finish", owner |-> lease.owner, generation |-> lease.generation,
                turns |-> 0, of |-> None]

Finishes ==
  /\ FinishRun("stopped")
  /\ LET floor == FloorOf(lease.owner, lease.generation)
     IN  /\ log' = log \o <<FinishEvent, floor>>
         /\ spent' = spent + floor.turns
         /\ turns' = [turns EXCEPT ![floor.owner] = @ + floor.turns]
  /\ UNCHANGED <<files, checks, extras>>

SessionNext ==
  /\ \/ \E o \in Session : SessionAcquires(o) \/ Recovers(o) \/ EmitHandoff(o)
     \/ Works \/ WritesMore \/ \E n \in 1..2 : Reports(n)
     \/ Finishes
  /\ UNCHANGED <<resp, launches, hostVars>>

-----------------------------------------------------------------------------
(* The workers.                                                               *)
Runs(r) == running' = running \cup {r}

WorkerEnds(r, ok) ==
  /\ r \in running /\ running' = running \ {r}
  /\ files' = IF ok THEN files \cup {r} ELSE files
  /\ UNCHANGED <<runVars, resp, launches, host, record, tries, starts>>

-----------------------------------------------------------------------------
(* driveHeadlessRunLocked reads the run and lists the receipts, settles all   *)
(* of them under the fence that it read, and only then removes them.          *)
HostStart ==
  /\ At("off") /\ starts < MaxStarts /\ Listable
  /\ starts' = starts + 1
  /\ host' = [HostOff EXCEPT !.pc = "settle", !.owner = lease.owner,
                             !.generation = lease.generation, !.child = lease.child,
                             !.todo = files, !.list = files, !.next = "choose"]
  /\ UNCHANGED <<runVars, files, resp, launches, running, record, tries>>

SettleNext(r) ==
  /\ At("settle") /\ NextSettled(host.todo, r)
  /\ Settle(r, host)
  /\ host' = [host EXCEPT !.todo = @ \ {r}]
  /\ UNCHANGED <<chainVars, files, checks, extras, resp, launches,
                 running, record, tries, starts>>

(* Mutant: the receipts are removed although one of them was refused.         *)
RefusedThenCleans == [host EXCEPT !.pc = "clean"]

Refused == [host EXCEPT !.pc = host.failed, !.todo = {}, !.list = {}]

SettleRefused(r) ==
  /\ At("settle") /\ NextSettled(host.todo, r) /\ ~SettlementAccepted(r, host)
  /\ host' = Refused
  /\ UNCHANGED <<runVars, files, resp, launches, running, record, tries, starts>>

SettleDone ==
  /\ At("settle") /\ host.todo = {} /\ Goto("clean")
  /\ UNCHANGED <<runVars, files, resp, launches, running, record, tries, starts>>

RemoveNext(r) ==
  /\ At("clean") /\ NextRemoved(host.list, r)
  /\ files' = files \ {r}
  /\ host' = [host EXCEPT !.list = @ \ {r}]
  /\ UNCHANGED <<runVars, resp, launches, running, record, tries, starts>>

CleanDone ==
  /\ At("clean") /\ host.list = {} /\ Goto(host.next)
  /\ UNCHANGED <<runVars, files, resp, launches, running, record, tries, starts>>

Accounts == \/ \E r \in host.todo : SettleNext(r) \/ SettleRefused(r)
            \/ \E r \in host.list : RemoveNext(r)
            \/ SettleDone \/ CleanDone

(* pauseWithOriginalFence, and pauseWithFreshFence, which asks the run again  *)
(* when the session it knew has lost the lease.                               *)
PauseOriginal ==
  /\ At("pause") /\ Stop
  /\ IF FencedBy(host) /\ MayPause THEN PausePreserve("other") ELSE UNCHANGED chainVars
  /\ UNCHANGED <<costVars, resp, launches, running, record, tries, starts>>

PauseFresh ==
  /\ At("pauseFresh") /\ Stop
  /\ IF MayPause THEN PausePreserve("other") ELSE UNCHANGED chainVars
  /\ UNCHANGED <<costVars, resp, launches, running, record, tries, starts>>

-----------------------------------------------------------------------------
(* What the host does after the drain: nothing for a run that has ended or    *)
(* whose checker is stranded, a pending checker first, then an emitted        *)
(* handoff; a spawned one whose child never came is paused.                   *)
Stranded == \E a \in Attempt : checks[a] = "claimed"
NextAttempt == Cardinality({a \in Attempt : checks[a] # "none"}) + 1

SameHandoff == host.child # None /\ lease.child = host.child

CheckerMayPend == /\ status = "running" /\ NextAttempt \in Attempt
                  /\ LeaseCheck(host.owner, host.generation, "business")

Prepare(goal) == host' = [host EXCEPT !.pc = "preflight", !.goal = goal]

Choose ==
  /\ At("choose")
  /\ \/ Stop
     \/ ~Terminal /\ ~Stranded /\ CheckerMayPend /\ Prepare("review")
     \/ /\ ~Terminal /\ ~Stranded /\ SameHandoff
        /\ \/ lease.phase = "emitted" /\ Prepare("respawn")
           \/ lease.phase = "spawned" /\ ~Started(host.child) /\ Goto("pauseFresh")
  /\ UNCHANGED <<runVars, files, resp, launches, running, record, tries, starts>>

(* ensureCodexPreflight.  Receipts of smokes that the record does not name    *)
(* are settled and removed first; a published pair is settled again and       *)
(* stands for the preflight; otherwise the two smokes run.                    *)
SmokesOf(receipts) == {r \in receipts : r.kind \in Smokes}
Orphans == SmokesOf(files) \ record
Smoke(kind) == [kind |-> kind, owner |-> host.owner, generation |-> host.generation, ref |-> tries]
Measured == files \cap {Smoke("read"), Smoke("write")}

(* The pair is settled; the receipts stay when something has drifted since.   *)
Activate(pair) ==
  \E passes \in BOOLEAN :
    host' = [host EXCEPT !.pc = "settle", !.todo = pair,
                         !.list = IF passes THEN pair ELSE {},
                         !.next = IF passes THEN host.goal ELSE "pause",
                         !.failed = "pause"]

Preflight ==
  /\ At("preflight")
  /\ \/ Goto("pause") /\ UNCHANGED <<running, tries>>
     \/ Listable /\ Orphans # {} /\ SettleThen(Orphans, "preflight", "pause")
        /\ UNCHANGED <<running, tries>>
     \/ Listable /\ Orphans = {} /\ record # {} /\ Activate(record)
        /\ UNCHANGED <<running, tries>>
     \/ /\ Listable /\ Orphans = {} /\ record = {}
        /\ tries < MaxAttempts /\ tries' = tries + 1
        /\ Runs([Smoke("read") EXCEPT !.ref = tries'])
        /\ Goto("read")
  /\ UNCHANGED <<runVars, files, resp, launches, record, starts>>

(* A smoke has ended.  One that failed, and a pair that cannot be published,  *)
(* is settled as far as it was measured before the run is paused.             *)
ReadPasses ==
  /\ At("read") /\ Smoke("read") \in files
  /\ Runs(Smoke("write")) /\ Goto("write")
  /\ UNCHANGED <<runVars, files, resp, launches, record, tries, starts>>

WritePasses ==
  /\ At("write") /\ Smoke("write") \in files
  /\ record' = Measured /\ Activate(Measured)
  /\ UNCHANGED <<runVars, files, resp, launches, running, tries, starts>>

SmokeFails ==
  /\ At("read") \/ At("write")
  /\ Smoke(host.pc) \notin running
  /\ IF Measured = {} THEN Goto("pause") ELSE SettleThen(Measured, "pause", "pause")
  /\ UNCHANGED <<runVars, files, resp, launches, running, record, tries, starts>>

-----------------------------------------------------------------------------
(* driveIndependentChecker: the claim and the worker, and the import of what  *)
(* it says.  A result that cannot be imported blocks the claim, and the usage *)
(* is settled all the same when the worker has reported it.                   *)
Check == [kind |-> "checker", owner |-> host.owner, generation |-> host.generation,
          ref |-> NextAttempt - 1]

ClaimReview ==
  /\ At("review")
  /\ IF CheckerMayPend
     THEN /\ checks' = [checks EXCEPT ![NextAttempt] = "claimed"]
          /\ Runs([Check EXCEPT !.ref = NextAttempt])
          /\ Goto("checking") /\ Write
     ELSE Stop /\ UNCHANGED <<checks, running, fresh>>
  /\ UNCHANGED <<status, pauseReason, blocked, work, lease, sess, minted>>
  /\ UNCHANGED <<log, turns, spent, files, extras, resp, launches, record, tries, starts>>

Imported ==
  /\ At("checking") /\ Check \in files \ running
  /\ status = "running" /\ LeaseCheck(host.owner, host.generation, "business")
  /\ checks' = [checks EXCEPT ![Check.ref] = "imported"]
  /\ ChargeFloor
  /\ SettleThen({Check}, "off", "off")
  /\ UNCHANGED <<chainVars, files, extras, resp, launches, running, record, tries, starts>>

MayBlock == LeaseCheck(host.owner, host.generation, "business")

ReviewFails(measured) ==
  /\ At("checking") /\ Check \notin running
  /\ measured => Check \in files
  /\ IF MayBlock
     THEN checks' = [checks EXCEPT ![Check.ref] = "blocked"] /\ PausePreserve("other")
     ELSE /\ UNCHANGED checks
          /\ IF measured /\ FencedBy(host) /\ MayPause THEN PausePreserve("other")
                                                      ELSE UNCHANGED chainVars
  /\ IF measured THEN SettleThen({Check}, "off", "off") ELSE Stop
  /\ UNCHANGED <<log, turns, spent, files, extras, resp, launches,
                 running, record, tries, starts>>

-----------------------------------------------------------------------------
(* The respawn of the child and what the host makes of its outcome.           *)
Maker == [kind |-> "maker", owner |-> host.owner, generation |-> host.generation,
          ref |-> host.child]

RespawnBegins ==
  /\ At("respawn")
  /\ \/ FencedBy(host) /\ SameHandoff /\ StartRespawn(Host, FALSE) /\ Goto("maker")
     \/ Stop /\ UNCHANGED <<chainVars, resp, launches>>
  /\ UNCHANGED <<costVars, running, record, tries, starts>>

RespawnStep ==
  /\ At("maker") /\ resp[Host].pc \notin {"idle", "launch", "running"}
  /\ SpawnStep(Host)
  /\ UNCHANGED <<costVars, hostVars>>

MakerLaunches ==
  /\ At("maker") /\ Launch(Host) /\ Runs(Maker)
  /\ UNCHANGED <<costVars, host, record, tries, starts>>

MakerDrifted ==
  /\ At("maker") /\ LaunchFails(Host)
  /\ UNCHANGED <<costVars, hostVars>>

(* The worker's answer is lost in a timeout although its receipt is written.  *)
MakerReturns(ok) ==
  /\ At("maker") /\ Maker \notin running
  /\ ok => Maker \in files
  /\ LaunchReturns(Host, ok)
  /\ host' = [host EXCEPT !.maker = IF ok THEN "ok" ELSE "failed"]
  /\ UNCHANGED <<costVars, running, record, tries, starts>>

MakerReturned ==
  /\ At("maker") /\ resp[Host].pc = "idle"
  /\ CASE host.maker = "ok" /\ ~Terminal /\ ~Started(host.child) ->
            SettleThen({Maker}, "pauseFresh", "pauseFresh")
       [] host.maker = "ok" /\ (Terminal \/ Started(host.child)) ->
            host' = [host EXCEPT !.pc = "settle", !.todo = {Maker}, !.list = {Maker},
                                 !.owner = host.child, !.generation = @ + 1,
                                 !.next = "off", !.failed = "off"]
       [] host.maker = "failed" /\ ~Terminal /\ sess[host.child].outcome # "failed_launch" ->
            Goto("pauseFresh")
       [] OTHER -> Stop
  /\ UNCHANGED <<runVars, files, resp, launches, running, record, tries, starts>>

-----------------------------------------------------------------------------
(* The host is killed, in the middle of anything; the lock it leaves behind   *)
(* is reclaimed (host-lock owner dead, or older than its time to live).       *)
HostCrash ==
  /\ ~At("off") /\ Stop
  /\ resp' = [resp EXCEPT ![Host] = SpawnIdle]
  /\ UNCHANGED <<runVars, files, launches, running, record, tries, starts>>

HostNext ==
  \/ HostStart \/ Accounts \/ PauseOriginal \/ PauseFresh
  \/ Choose \/ Preflight \/ ReadPasses \/ WritePasses \/ SmokeFails
  \/ ClaimReview \/ Imported \/ \E measured \in BOOLEAN : ReviewFails(measured)
  \/ RespawnBegins \/ RespawnStep \/ MakerLaunches \/ MakerDrifted
  \/ \E ok \in BOOLEAN : MakerReturns(ok)
  \/ MakerReturned \/ HostCrash

Next == \/ SessionNext
        \/ \E r \in running, ok \in BOOLEAN : WorkerEnds(r, ok)
        \/ HostNext

Spec == Init /\ [][Next]_vars

-----------------------------------------------------------------------------
(* The three books of a run agree: what a session and the budget are said to *)
(* have spent is what the events of the log charge to it, whoever held the   *)
(* lease when a receipt was settled.  (budget.mjs recomputes budget.spent    *)
(* from the log and adds to sessions[].turns one event at a time.)           *)
Paid(lines, places) == Cardinality(UNION {{i} \X (1..lines[i].turns) : i \in places})
ChargedTo(s) == {i \in 1..Len(log) : log[i].owner = s}
BooksAgree ==
  /\ spent = Paid(log, 1..Len(log))
  /\ \A s \in Session : turns[s] = Paid(log, ChargedTo(s))

(* A turn is paid for, and not twice: a session pays at least for each of    *)
(* its measured processes, at least for each of its writes, and at most for  *)
(* both and its reports together, in whatever order hosts settle receipts of *)
(* earlier sessions in between.  (trailingFloor in budget.mjs.)              *)
NoTurnLostOrDoubled ==
  \A s \in Session, g \in 1..MaxGeneration :
    LET own      == OwnCosts(log, s, g)
        Of(type) == Cardinality({i \in own : log[i].type = type})
    IN  /\ Paid(log, own) >= Of("receipt")
        /\ Paid(log, own) >= Of("floor")
        /\ Paid(log, own) <= Of("receipt") + Of("floor") + 2 * Of("report")

(* A receipt on disk never blocks the hosts to come: unless the run has      *)
(* ended or nobody holds the lease, the owner of the moment may settle it,   *)
(* or is told that it is settled, though the child that it was written for   *)
(* has acquired, failed or been replaced since.  (settleCodexProcessCost     *)
(* refuses a receipt whose context or whose event no longer fits, and the    *)
(* drain stops at the first refusal; a write smoke waits for its read smoke.)*)
NothingBlocksTheDrain ==
  ~Terminal /\ lease.state # "released" =>
    \A r \in files : PredecessorSettled(r) \/ Recorded(r) => SettlementAccepted(r, lease)

(* No receipt disappears before the log has its cost, and the receipt of a   *)
(* read smoke not before a paid one of its write smoke, without which the    *)
(* next listing of the directory would fail, wherever a clean-up stopped.    *)
(* (The order of settling and cleaning in headless-host.mjs:1068-1087, and   *)
(* removeExactRawReceipts in codex-preflight.mjs.)                           *)
CleanUpIsSafe ==
  [][\A r \in files \ files' :
       /\ Recorded(r)
       /\ \A o \in files' : o.kind = "write" /\ ReadOf(o) = r => ~Recorded(o)]_vars

(* The books of an ended run close: at most one cost follows the floor of    *)
(* the finish, it is a measured process, and the session that ended the run  *)
(* pays it.  (verifyTerminalMakerSettlement and its two siblings.)           *)
EndedBooksClose ==
  \A i \in 1..Len(log) : log[i].type = "finish" =>
    /\ Len(log) \in {i + 1, i + 2}
    /\ Len(log) = i + 2 => /\ log[i + 2].type = "receipt"
                          /\ log[i + 2].owner = log[i].owner
=============================================================================
