------------------------------ MODULE Respawn ------------------------------
(* respawn.mjs: the process that starts the successor's host.  It reads the  *)
(* run once, decides, and then acts through calls that other processes may   *)
(* come between: the claim emitted -> spawned, the launch of an external     *)
(* process, and a record, a rollback or a preserving pause.  Every call is   *)
(* fenced by the owner and the generation that the first read saw.  The      *)
(* launch is not part of the run's state: `launches' only counts it.         *)
EXTENDS Lease

VARIABLES resp,       \* [Respawner -> what the respawning process remembers]
          launches    \* [Session -> times a host was started for it, 0..2]

SpawnPc    == {"idle", "claim", "cancel", "launch", "running", "record",
               "wait", "rollback", "preserve"}
SpawnState == [pc : SpawnPc, owner : Session, generation : 1..MaxGeneration,
               child : Optional, visible : BOOLEAN, reason : PauseReasons]
SpawnIdle  == [pc |-> "idle", owner |-> Root, generation |-> 1, child |-> None,
               visible |-> FALSE, reason |-> "none"]

RespawnTypeOK == /\ resp \in [Respawner -> SpawnState]
                 /\ launches \in [Session -> 0..2]

RespawnInit == /\ resp = [r \in Respawner |-> SpawnIdle]
               /\ launches = [s \in Session |-> 0]

Holds(r)         == lease.owner = resp[r].owner /\ lease.generation = resp[r].generation
StopRespawn(r)   == resp' = [resp EXCEPT ![r] = SpawnIdle]
SpawnGoto(r, l)  == resp' = [resp EXCEPT ![r].pc = l]
RollbackFor(r, why) == resp' = [resp EXCEPT ![r].pc = "rollback", ![r].reason = why]

(* respawnGate names every limit that holds; extendBudget later reads        *)
(* `gate:budget' as a budget pause and no other gate.                        *)
GateReason(limits) == IF limits = {"budget"} THEN "budget" ELSE "other"

-----------------------------------------------------------------------------
(* The first read.  A handoff that is spawned already is only waited for,    *)
(* and only by a visible respawner; a paused run is left alone; a closed     *)
(* gate rolls the handoff back; with no launcher there is nothing to do; an  *)
(* unverifiable executable or an unusable launch entry preserves it.         *)
Remember(r, l, visible, why) ==
  resp' = [resp EXCEPT ![r] =
             [pc |-> l, owner |-> lease.owner, generation |-> lease.generation,
              child |-> lease.child, visible |-> visible, reason |-> why]]

StartRespawn(r, visible) ==
  /\ resp[r].pc = "idle"
  /\ status = "running" /\ lease.child # None /\ TopologyOK
  /\ LeaseCheck(Owner, lease.generation, "lease")
  /\ \/ /\ lease.phase = "spawned" /\ visible
        /\ Remember(r, "wait", visible, "none")
     \/ /\ lease.phase = "emitted" /\ lease.state = "releasing"
        /\ IF blocked # {} THEN Remember(r, "rollback", visible, GateReason(blocked))
           ELSE \/ Remember(r, "claim", visible, "none")
                \/ Remember(r, "preserve", visible, "none")
  /\ UNCHANGED <<chainVars, launches>>

-----------------------------------------------------------------------------
(* claimSpawnedHandoff, in the order of its checks.  It reads the lease, the *)
(* gates and the recommendation again, and not whether the run is paused.    *)
(* Mutant: a handoff that is spawned already can be claimed again.           *)
ClaimableAgain(r) ==
  /\ Holds(r) /\ ~Terminal
  /\ lease.child = resp[r].child /\ ~RecoveryInFlight
  /\ lease.phase \in {"emitted", "spawned"} /\ lease.state = "releasing"

Claimable(r) ==
  /\ Holds(r) /\ ~Terminal
  /\ lease.child = resp[r].child /\ ~RecoveryInFlight
  /\ lease.phase = "emitted" /\ lease.state = "releasing"

ClaimSpawn(r) ==
  /\ resp[r].pc = "claim" /\ Claimable(r)
  /\ blocked = {} /\ TopologyOK /\ NextAction # "finish"
  /\ lease' = [lease EXCEPT !.phase = "spawned"]
  /\ SpawnGoto(r, "launch")
  /\ Write /\ UNCHANGED <<status, pauseReason, blocked, work, sess, minted, launches>>

(* An attended style that is no longer authorised is noticed last.           *)
ClaimUnauthorized(r) ==
  /\ resp[r].pc = "claim" /\ Claimable(r) /\ resp[r].visible
  /\ blocked = {} /\ TopologyOK /\ NextAction # "finish"
  /\ SpawnGoto(r, "preserve") /\ UNCHANGED <<chainVars, launches>>

ClaimFinish(r) ==
  /\ resp[r].pc = "claim" /\ Claimable(r)
  /\ ~SafetyBlocked /\ TopologyOK /\ NextAction = "finish"
  /\ SpawnGoto(r, "cancel") /\ UNCHANGED <<chainVars, launches>>

ClaimBlocked(r) ==
  /\ resp[r].pc = "claim" /\ Claimable(r) /\ blocked # {}
  /\ \/ HardBudget /\ RollbackFor(r, "budget")
     \/ ~HardBudget /\ "breaker" \in blocked /\ RollbackFor(r, "other")
     \/ ~SafetyBlocked /\ TopologyOK /\ NextAction # "finish" /\ RollbackFor(r, "other")
  /\ UNCHANGED <<chainVars, launches>>

(* Fenced, terminal, mismatched, already spawned or with a broken topology:  *)
(* the claim is refused and nothing is undone.                               *)
ClaimRefused(r) ==
  /\ resp[r].pc = "claim"
  /\ ~Claimable(r) \/ (~SafetyBlocked /\ ~TopologyOK)
  /\ StopRespawn(r) /\ UNCHANGED <<chainVars, launches>>

-----------------------------------------------------------------------------
(* invalidateHandoff: the child never ran, its parent is unlinked, and the   *)
(* lease returns to its owner.                                               *)
Invalidated(child) ==
  [s \in Session |->
     IF s = child /\ sess[s].row THEN [sess[s] EXCEPT !.outcome = "failed_launch"]
     ELSE IF s \in Predecessors(child)
          THEN [sess[s] EXCEPT !.succ = None, !.retired = FALSE]
     ELSE sess[s]]

(* Mutant: a field that the rollback forgets to reset.                       *)
ReturnedStillReleasing == [lease EXCEPT !.phase = "idle", !.child = None,
                               !.event = None, !.expires = "none", !.takeover = "none"]

ReturnedLease == [lease EXCEPT !.state = "active", !.phase = "idle", !.child = None,
                               !.event = None, !.expires = "none", !.takeover = "none"]

(* rollbackAndPause: fenced by owner and generation, whatever the lease      *)
(* reserves by now.                                                          *)
RollbackAndPause(r) ==
  /\ resp[r].pc = "rollback"
  /\ IF Holds(r) /\ ~Terminal
     THEN /\ sess' = Invalidated(resp[r].child) /\ lease' = ReturnedLease
          /\ status' = "paused" /\ pauseReason' = resp[r].reason
          /\ Write /\ UNCHANGED <<blocked, work, minted>>
     ELSE UNCHANGED chainVars
  /\ StopRespawn(r) /\ UNCHANGED launches

(* cancelHandoffForFinish: fenced by the child and the phase as well.        *)
CancelForFinish(r) ==
  /\ resp[r].pc = "cancel"
  /\ IF /\ Holds(r) /\ ~Terminal
        /\ lease.child = resp[r].child
        /\ lease.phase = "emitted" /\ lease.state = "releasing"
        /\ NextAction = "finish"
     THEN /\ sess' = Invalidated(resp[r].child) /\ lease' = ReturnedLease
          /\ Write /\ UNCHANGED <<status, pauseReason, blocked, work, minted>>
     ELSE UNCHANGED chainVars
  /\ StopRespawn(r) /\ UNCHANGED launches

(* preservePause keeps the reservation for a late acquire.                   *)
PreservePause(r) ==
  /\ resp[r].pc = "preserve"
  /\ IF Holds(r) /\ ~Terminal
     THEN /\ lease' = [lease EXCEPT !.expires = "none"]
          /\ status' = "paused" /\ pauseReason' = "other"
          /\ Write /\ UNCHANGED <<blocked, work, sess, minted>>
     ELSE UNCHANGED chainVars
  /\ StopRespawn(r) /\ UNCHANGED launches

-----------------------------------------------------------------------------
(* spawnFn starts the host; it may also fail before a host exists, or the    *)
(* executable's identity may have drifted since the claim.                   *)
Launch(r) ==
  /\ resp[r].pc = "launch"
  /\ launches' = [launches EXCEPT ![resp[r].child] = IF @ = 2 THEN 2 ELSE @ + 1]
  /\ SpawnGoto(r, "running") /\ UNCHANGED chainVars

LaunchFails(r) ==
  /\ resp[r].pc = "launch"
  /\ RollbackFor(r, "other") /\ UNCHANGED <<chainVars, launches>>

(* spawnFn returns: a headless host after its whole session, a visible one   *)
(* at once, and either may report failure although the host did start.       *)
LaunchReturns(r, ok) ==
  /\ resp[r].pc = "running"
  /\ IF ok THEN SpawnGoto(r, "record") ELSE RollbackFor(r, "other")
  /\ UNCHANGED <<chainVars, launches>>

(* The respawn-spawned event: it changes nothing but the log.                *)
RecordSpawned(r) ==
  /\ resp[r].pc = "record"
  /\ IF Holds(r) /\ ~Terminal /\ TopologyOK
     THEN /\ Write
          /\ IF resp[r].visible THEN SpawnGoto(r, "wait") ELSE StopRespawn(r)
     ELSE UNCHANGED fresh /\ StopRespawn(r)
  /\ UNCHANGED <<status, pauseReason, blocked, work, lease, sess, minted, launches>>

(* awaitChildReadiness: success and fence end the wait, the deadline leads   *)
(* to a preserving pause.                                                    *)
ChildReady(r) == /\ lease.owner = resp[r].child /\ lease.state = "active"
                 /\ lease.phase = "acquired"
FencedWait(r) == /\ lease.generation # resp[r].generation
                 /\ lease.owner # resp[r].child

StopWaiting(r) ==
  /\ resp[r].pc = "wait" /\ (ChildReady(r) \/ FencedWait(r))
  /\ StopRespawn(r) /\ UNCHANGED <<chainVars, launches>>

(* Mutant: the deadline is never looked at while the run is running.         *)
WaitForever(r) ==
  /\ resp[r].pc = "wait" /\ ~ChildReady(r) /\ ~FencedWait(r) /\ status # "running"
  /\ SpawnGoto(r, "preserve") /\ UNCHANGED <<chainVars, launches>>

WaitTimeout(r) ==
  /\ resp[r].pc = "wait" /\ ~ChildReady(r) /\ ~FencedWait(r)
  /\ SpawnGoto(r, "preserve") /\ UNCHANGED <<chainVars, launches>>

CrashRespawn(r) ==
  /\ r \in Crashable /\ resp[r].pc # "idle"
  /\ StopRespawn(r) /\ UNCHANGED <<chainVars, launches>>

SpawnStep(r) ==
  \/ \E visible \in BOOLEAN : StartRespawn(r, visible)
  \/ ClaimSpawn(r) \/ ClaimUnauthorized(r) \/ ClaimFinish(r)
  \/ ClaimBlocked(r) \/ ClaimRefused(r)
  \/ RollbackAndPause(r) \/ CancelForFinish(r) \/ PreservePause(r)
  \/ Launch(r) \/ LaunchFails(r) \/ \E ok \in BOOLEAN : LaunchReturns(r, ok)
  \/ RecordSpawned(r) \/ StopWaiting(r) \/ WaitTimeout(r)

RespawnNext == \E r \in Respawner : SpawnStep(r) \/ CrashRespawn(r)
=============================================================================
