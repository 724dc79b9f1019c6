----------------------------- MODULE Accounting ------------------------------
(* What a run has spent (budget.mjs, integrity.mjs).  The event log holds a  *)
(* cost for every business write (a floor of one turn), for every explicit   *)
(* report, and for every measured process, whose worker left a receipt of    *)
(* its usage on disk (preflight-receipt-journal.mjs).  A report or a         *)
(* receipt absorbs the floors that its session has logged since the last of  *)
(* them, so that a turn is not paid for twice.                               *)
(*                                                                           *)
(* A receipt is settled by whoever owns the lease then, and charged to the   *)
(* session that the process worked for, which for a maker depends on whether *)
(* the child ever acquired.  Tokens follow the same rule as turns and are    *)
(* left out, and a measured process counts one turn always.  Settling is one *)
(* call under the run lock, so one step.                                     *)
EXTENDS Respawn, Recovery, Sequences

CONSTANTS MaxAttempts,  \* bound on the preflights and checkers of a run
          MaxExtras     \* bound on the owner's other writes and reports

ASSUME AttemptsAssumption == MaxAttempts \in Nat
ASSUME ExtrasAssumption   == MaxExtras \in Nat

VARIABLES log,     \* the cost and finish events of event-log.jsonl
          turns,   \* [Session -> sessions[].turns]
          spent,   \* budget.spent
          files,   \* the receipts in preflight/process-receipts
          checks,  \* [attempt -> status of the checker that claimed it]
          extras   \* the owner's other writes so far, for the bound

costVars == <<log, turns, spent, files, checks, extras>>

(* The identity of a measured process, makeCodexPreflightReceipt and         *)
(* makeCodexProcessReceipt: `owner' and `generation' are the parent's for a  *)
(* maker, and `ref' is its child; for the others `ref' is their attempt.     *)
Smokes  == {"read", "write"}
Attempt == 1..MaxAttempts
Receipt == [kind : {"maker"}, owner : Session, generation : 1..MaxGeneration, ref : Session]
      \cup [kind : {"checker"} \cup Smokes, owner : Session,
            generation : 1..MaxGeneration, ref : Attempt]

AccountingInit ==
  /\ log = <<>> /\ turns = [s \in Session |-> 0] /\ spent = 0
  /\ files = {} /\ checks = [a \in Attempt |-> "none"] /\ extras = 0

-----------------------------------------------------------------------------
(* trailingFloor: the floors that a session has logged since its last        *)
(* explicit cost.  The costs of a session are told by their places.          *)
OwnCosts(lines, owner, generation) ==
  {i \in 1..Len(lines) : /\ lines[i].type # "finish"
                         /\ lines[i].owner = owner /\ lines[i].generation = generation}

(* Mutants: an explicit cost does not end the tick, or the floors of earlier *)
(* sessions count as well.                                                   *)
FloorsOfTheSession(lines, owner, generation) ==
  Cardinality({i \in OwnCosts(lines, owner, generation) : lines[i].type = "floor"})

Trailing(lines, owner, generation) ==
  LET own == OwnCosts(lines, owner, generation)
  IN  {i \in own : \A j \in own : j >= i => lines[j].type = "floor"}

TrailingFloor(lines, owner, generation) == Cardinality(Trailing(lines, owner, generation))

LessFloor(n, floor) == IF n > floor THEN n - floor ELSE 0

FloorOf(owner, generation) ==
  [type |-> "floor", owner |-> owner, generation |-> generation, turns |-> 1, of |-> None]

Explicit(type, owner, generation, n, r) ==
  [type |-> type, owner |-> owner, generation |-> generation, of |-> r,
   turns |-> LessFloor(n, TrailingFloor(log, owner, generation))]

(* The cost is appended, budget.spent is recomputed from the log, and the    *)
(* session that the event names is charged.                                  *)
(* Mutant: the session that holds the lease is charged.                      *)
ChargeHolder(cost) ==
  /\ log' = Append(log, cost)
  /\ spent' = spent + cost.turns
  /\ turns' = [turns EXCEPT ![lease.owner] = @ + cost.turns]

Charge(cost) ==
  /\ log' = Append(log, cost)
  /\ spent' = spent + cost.turns
  /\ turns' = [turns EXCEPT ![cost.owner] = @ + cost.turns]

(* appendAnchored with a floor: one turn for the owner of the lease.         *)
ChargeFloor == Charge(FloorOf(lease.owner, lease.generation))

-----------------------------------------------------------------------------
(* Which session a process worked for.  acquiredMakerContext asks that the   *)
(* rows still tell one of two stories, and makerOrigin picks the session.    *)
Parent(r) == sess[r.owner]
Child(r)  == sess[r.ref]

ChildAcquired(r) == /\ Child(r).started /\ Child(r).outcome # "failed_launch"
                    /\ Parent(r).outcome = "took_over"

MakerContextOK(r) ==
  /\ HasRow(r.owner) /\ HasRow(r.ref)
  /\ \/ ChildAcquired(r) /\ Parent(r).succ = r.ref
     \/ /\ ~ChildAcquired(r) /\ ~Child(r).started
        /\ Parent(r).succ = r.ref \/ Child(r).outcome = "failed_launch"

ContextOK(r) == r.kind = "maker" => MakerContextOK(r)

OriginParent(r) == [owner |-> r.owner, generation |-> r.generation]
OriginChild(r)  == [owner |-> r.ref, generation |-> r.generation + 1]

Origin(r) == IF r.kind = "maker" /\ ChildAcquired(r) THEN OriginChild(r) ELSE OriginParent(r)

(* historicalMakerOrigin: a cost that was charged to the parent stays right  *)
(* although the child has acquired since.                                    *)
(* Mutant: a retry asks where the process belongs now.                       *)
PossibleOriginsNow(r) == {Origin(r)}

PossibleOrigins(r) ==
  {OriginParent(r)} \cup (IF r.kind = "maker" /\ ChildAcquired(r) THEN {OriginChild(r)} ELSE {})

-----------------------------------------------------------------------------
(* An identical retry is recognised by the event that it would write: same   *)
(* receipt, same origin, and the turns that the log before it leaves.        *)
EventsOf(r) == {i \in 1..Len(log) : log[i].type = "receipt" /\ log[i].of = r}
Recorded(r) == EventsOf(r) # {}

ExactEvent(i, r) ==
  /\ [owner |-> log[i].owner, generation |-> log[i].generation] \in PossibleOrigins(r)
  /\ log[i].turns = LessFloor(1, TrailingFloor(SubSeq(log, 1, i - 1),
                                               log[i].owner, log[i].generation))

ReadOf(r) == [r EXCEPT !.kind = "read"]

(* verifyPreflightWritePredecessor                                           *)
PredecessorSettled(r) == r.kind = "write" => Recorded(ReadOf(r))

(* The three proofs by which the receipt of a run that has ended may still   *)
(* be settled: nothing but the floor of finish follows the finish event, and *)
(* the run was ended by the acquired child of the maker, or by the session   *)
(* of the checker after its import, or stopped before it.                    *)
EndsWithFinish(origin) ==
  LET n == Len(log)
  IN  /\ n >= 2 /\ log[n - 1].type = "finish"
      /\ log[n] = FloorOf(origin.owner, origin.generation)

StillHeldBy(origin) == /\ lease.owner = origin.owner /\ lease.generation = origin.generation
                       /\ lease.state = "active"

TerminalProof(r) ==
  /\ StillHeldBy(Origin(r)) /\ EndsWithFinish(Origin(r))
  /\ \/ r.kind = "maker" /\ ChildAcquired(r) /\ lease.phase = "acquired"
     \/ r.kind = "checker" /\ checks[r.ref] = "imported"
     \/ r.kind = "checker" /\ checks[r.ref] = "claimed" /\ status = "stopped"

(* settleCodexPreflightCost and settleCodexProcessCost, called by a host     *)
(* that remembers the owner and the generation of the lease.                 *)
FencedBy(fence) == lease.owner = fence.owner /\ lease.generation = fence.generation

AlreadySettled(r, fence) ==
  /\ FencedBy(fence) /\ PredecessorSettled(r)
  /\ ContextOK(r)
  /\ \E i \in EventsOf(r) : EventsOf(r) = {i} /\ ExactEvent(i, r)

(* Mutant: the proof is not asked for.                                       *)
SettlesUnproven(r, fence) ==
  /\ FencedBy(fence) /\ PredecessorSettled(r) /\ ~Recorded(r) /\ ContextOK(r)
  /\ \/ LeaseCheck(fence.owner, fence.generation, "accounting")
     \/ Terminal

MaySettle(r, fence) ==
  /\ FencedBy(fence) /\ PredecessorSettled(r) /\ ~Recorded(r) /\ ContextOK(r)
  /\ \/ LeaseCheck(fence.owner, fence.generation, "accounting")
     \/ Terminal /\ TerminalProof(r)

Settle(r, fence) ==
  \/ MaySettle(r, fence)
     /\ Charge(Explicit("receipt", Origin(r).owner, Origin(r).generation, 1, r))
  \/ AlreadySettled(r, fence) /\ UNCHANGED <<log, turns, spent>>

SettlementAccepted(r, fence) == MaySettle(r, fence) \/ AlreadySettled(r, fence)

-----------------------------------------------------------------------------
(* listPreflightUsageReceipts: the listing of the directory fails while a    *)
(* receipt of a write smoke lies there without the one of its read smoke.    *)
Listable == \A r \in files : r.kind = "write" => ReadOf(r) \in files

(* The order of a clean-up: write smokes, processes, read smokes.            *)
NextRemoved(list, r) ==
  /\ r \in list
  /\ r.kind # "write" => \A o \in list : o.kind # "write"
  /\ r.kind = "read"  => \A o \in list : o.kind = "read"

NextSettled(list, r) == r \in list /\ (r.kind = "write" => ReadOf(r) \notin list)
=============================================================================
