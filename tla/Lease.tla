------------------------------- MODULE Lease -------------------------------
(* The operations on the lease and on the run status that no handoff process *)
(* stands behind: acquiring and releasing the lease (lease.mjs), pausing     *)
(* (state.mjs), the budget and breaker gates that pause and unpause          *)
(* (budget.mjs, breaker.mjs, review.mjs), the owner's own work as far as it  *)
(* opens and closes a scope (session-scope.mjs, workspace.mjs) and finishing *)
(* (finish.mjs).                                                             *)
EXTENDS SessionChain

(* Every operation writes loop.json, so no snapshot taken before is fresh.   *)
Write == fresh' = {}

-----------------------------------------------------------------------------
(* acquireLease.  Refusals change nothing, so only the two plans that its    *)
(* preCheck can make are actions.                                            *)
NotAlreadyOwned(o) == ~(lease.owner = o /\ lease.state = "active")

(* Mutant: the reserved child, too, has to wait for the deadline.            *)
TakeableAfterDeadline(o) ==
  lease.state = "released" \/ (lease.state = "releasing" /\ lease.expires = "expired")

Takeable(o) ==
  \/ lease.state = "released"
  \/ lease.state = "releasing" /\ (lease.expires = "expired" \/ o = lease.child)

(* Mutant: the reservation is looked at only while the lease is releasing.   *)
NotReservedWhileReleasing(o) ==
  lease.state = "releasing" /\ lease.child # None /\ o # lease.child
    => lease.expires = "expired"

NotReservedForOther(o) ==
  lease.state = "released" /\ lease.child # None /\ o # lease.child
    => lease.expires = "expired"

(* Mutant: a boundary recovery goes through the ordinary takeover.           *)
MayTakeOverInRecovery(o) ==
  /\ NotAlreadyOwned(o) /\ ~Terminal
  /\ lease.child # None => sess[lease.child].recovery # "affinity-supersession"
  /\ TopologyOK
  /\ lease.takeover = "boundary-handoff" => o = lease.child
  /\ Takeable(o) /\ NotReservedForOther(o)

MayTakeOver(o) ==
  /\ NotAlreadyOwned(o) /\ ~Terminal
  /\ ~RecoveryInFlight
  /\ lease.child # None => sess[lease.child].recovery # "affinity-supersession"
  /\ TopologyOK
  /\ lease.takeover = "boundary-handoff" => o = lease.child
  /\ Takeable(o) /\ NotReservedForOther(o)

AcquireTakeover(o) ==
  /\ MayTakeOver(o) /\ lease.generation < MaxGeneration
  /\ lease' = [owner |-> o, generation |-> lease.generation + 1, state |-> "active",
               phase |-> "acquired", child |-> None, event |-> None,
               expires |-> "none", takeover |-> "none"]
  /\ status' = "running"
  /\ pauseReason' = IF status = "paused" THEN "none" ELSE pauseReason
  /\ sess' = [s \in Session |->
                IF s = o /\ sess[s].row THEN [sess[s] EXCEPT !.started = TRUE]
                ELSE IF s \in Predecessors(o) THEN [sess[s] EXCEPT !.outcome = "took_over"]
                ELSE sess[s]]
  /\ minted' = minted \cup {o}
  /\ Write /\ UNCHANGED <<blocked, work>>

MayAcquireRecovered(o) ==
  /\ NotAlreadyOwned(o) /\ ~Terminal
  /\ lease.takeover = "boundary-recovery" /\ o = lease.child
  /\ RecoveryReserved("boundary-recovery")
  /\ ~SafetyBlocked

(* Mutant: both halves of the acquisition advance the generation.            *)
RecoveredLeaseTwice(o) ==
  [owner |-> o, generation |-> lease.generation + 2, state |-> "active",
   phase |-> "acquired", child |-> None, event |-> None,
   expires |-> "none", takeover |-> "none"]

(* clearRecoveryLease, with the receipt left out.                            *)
RecoveredLease(o) ==
  [owner |-> o, generation |-> lease.generation + 1, state |-> "active",
   phase |-> "acquired", child |-> None, event |-> None,
   expires |-> "none", takeover |-> "none"]

AcquireRecovered(o) ==
  /\ MayAcquireRecovered(o) /\ lease.generation < MaxGeneration
  /\ lease' = RecoveredLease(o)
  /\ status' = "running" /\ pauseReason' = "none"
  /\ sess' = [sess EXCEPT ![o].started = TRUE]
  /\ Write /\ UNCHANGED <<blocked, work, minted>>

(* releaseLease: the owner's fence only; a terminal run may be released.     *)
ReleaseLease ==
  /\ ~RecoveryInFlight /\ status # "paused" /\ lease.state # "released"
  /\ lease' = [lease EXCEPT !.state = "released"]
  /\ Write /\ UNCHANGED <<status, pauseReason, blocked, work, sess, minted>>

(* Time passes the stale-lease deadline that emission set.                   *)
Expire ==
  /\ lease.expires = "live"
  /\ lease' = [lease EXCEPT !.expires = "expired"]
  /\ UNCHANGED <<status, pauseReason, blocked, work, sess, minted, fresh>>

-----------------------------------------------------------------------------
(* pauseRun: an owner fence, then recovery and terminal; a paused run may be *)
(* paused again, which replaces the reason.                                  *)
(* Mutant: the second check is missing.                                      *)
MayPauseEnded == ~RecoveryInFlight

MayPause == ~RecoveryInFlight /\ ~Terminal

PausePreserve(reason) ==
  /\ MayPause
  /\ status' = "paused" /\ pauseReason' = reason
  /\ lease' = [lease EXCEPT !.expires = "none"]
  /\ Write /\ UNCHANGED <<blocked, work, sess, minted>>

PauseRollback(reason) ==
  /\ MayPause
  /\ status' = "paused" /\ pauseReason' = reason
  /\ lease' = [lease EXCEPT !.state = "active", !.phase = "idle",
                            !.child = None, !.expires = "none"]
  /\ Write /\ UNCHANGED <<blocked, work, sess, minted>>

FinishRun(final) ==
  /\ LeaseCheck(Owner, lease.generation, "business")
  /\ final = "completed" => work = "whole"
  /\ status' = final
  /\ Write /\ UNCHANGED <<pauseReason, blocked, work, lease, sess, minted>>

-----------------------------------------------------------------------------
(* recordCost is accounting: it may exhaust the budget even while the lease  *)
(* is releasing or the run is paused.                                        *)
ExhaustBudget ==
  /\ "budget" \in Blockers \ blocked
  /\ LeaseCheck(Owner, lease.generation, "accounting")
  /\ blocked' = blocked \cup {"budget"}
  /\ Write /\ UNCHANGED <<status, pauseReason, work, lease, sess, minted>>

(* Wall-clock time runs out, or a limit that only respawnGate reads          *)
(* (max_sessions, auto_handoff) is met.                                      *)
MeetLimit(limit) ==
  /\ limit \in {"wallclock", "policy"} \cap (Blockers \ blocked)
  /\ blocked' = blocked \cup {limit}
  /\ UNCHANGED <<status, pauseReason, work, lease, sess, minted, fresh>>

(* commitReviewOutcome, third REQUEST_CHANGES in a row: pause_reason is left *)
(* as it was.                                                                *)
TripBreaker ==
  /\ "breaker" \in Blockers \ blocked
  /\ LeaseCheck(Owner, lease.generation, "business")
  /\ blocked' = blocked \cup {"breaker"} /\ status' = "paused"
  /\ Write /\ UNCHANGED <<pauseReason, work, lease, sess, minted>>

MayExtendBudget ==
  /\ HardBudget
  /\ \/ status = "paused" /\ pauseReason = "budget" /\ lease.state = "active"
     \/ AnyRecoveryReserved

ExtendBudget ==
  /\ MayExtendBudget
  /\ blocked' = blocked \ {"budget", "wallclock"}
  /\ IF AnyRecoveryReserved THEN UNCHANGED <<status, pauseReason>>
     ELSE status' = "running" /\ pauseReason' = "none"
  /\ Write /\ UNCHANGED <<work, lease, sess, minted>>

MayResetBreaker ==
  /\ "breaker" \in blocked /\ ~Terminal
  /\ AnyRecoveryReserved \/ LeaseCheck(Owner, lease.generation, "breaker-reset")

ResetBreaker ==
  /\ MayResetBreaker
  /\ blocked' = blocked \ {"breaker"}
  /\ status' = IF AnyRecoveryReserved THEN status ELSE "running"
  /\ Write /\ UNCHANGED <<pauseReason, work, lease, sess, minted>>

-----------------------------------------------------------------------------
(* The owner's work: the first maker of an unbound scope binds it, the       *)
(* terminal status of its workstream closes it, and any other business write *)
(* may change what the finish proof says.                                    *)
BindScope ==
  /\ LeaseCheck(Owner, lease.generation, "business")
  /\ IsOpenScope(Owner) /\ sess[Owner].scope = "unbound"
  /\ sess' = [sess EXCEPT ![Owner].scope = "bound"]
  /\ work' = "open"
  /\ Write /\ UNCHANGED <<status, pauseReason, blocked, lease, minted>>

CloseScope(proof) ==
  /\ LeaseCheck(Owner, lease.generation, "business")
  /\ IsOpenScope(Owner) /\ sess[Owner].scope = "bound"
  /\ sess' = [sess EXCEPT ![Owner].scope = "closed"]
  /\ work' = proof
  /\ Write /\ UNCHANGED <<status, pauseReason, blocked, lease, minted>>

BusinessWrite(proof) ==
  /\ LeaseCheck(Owner, lease.generation, "business")
  /\ IsOpenScope(Owner) /\ sess[Owner].scope = "bound" => proof = "open"
  /\ proof # work \/ fresh # {}
  /\ work' = proof
  /\ Write /\ UNCHANGED <<status, pauseReason, blocked, lease, sess, minted>>

LeaseNext ==
  \/ \E o \in Session : AcquireTakeover(o) \/ AcquireRecovered(o)
  \/ ReleaseLease \/ Expire
  \/ \E reason \in PauseReasons \ {"none"} : PausePreserve(reason) \/ PauseRollback(reason)
  \/ \E final \in {"completed", "stopped"} : FinishRun(final)
  \/ ExhaustBudget \/ TripBreaker \/ ExtendBudget \/ ResetBreaker
  \/ \E limit \in Blockers : MeetLimit(limit)
  \/ BindScope
  \/ \E proof \in WorkStates : CloseScope(proof) \/ BusinessWrite(proof)
=============================================================================
