------------------------------ MODULE Recovery ------------------------------
(* recover.mjs: what a person may do with a paused run whose host is gone.   *)
(* supersedeAffinity hands an open, bound scope to a replacement;            *)
(* recoverBoundary replaces the successor of a handoff that was reserved,    *)
(* emitted, spawned or freshly acquired; acquireRecovery is how the first    *)
(* kind of replacement takes the lease (the second takes it by acquireLease).*)
(* Both publications commit only if the snapshot they were built from still  *)
(* is the run (RECOVERY_SNAPSHOT_STALE), so snapshot and commit are one.     *)
EXTENDS Lease

(* exactRecoveryLease                                                        *)
RecoveryLease(kind, child, event) ==
  [lease EXCEPT !.state = "released", !.phase = "reserved", !.child = child,
                !.event = event, !.expires = "none", !.takeover = kind]

(* baseRecoverySession                                                       *)
(* Mutant: the replacement does not say whom it recovers.                    *)
ReplacementUnlinked(kind, from, scope) ==
  [NoSession EXCEPT !.row = TRUE, !.scope = scope, !.recovery = kind]

Replacement(kind, from, scope) ==
  [NoSession EXCEPT !.row = TRUE, !.scope = scope, !.recovery = kind, !.from = from]

-----------------------------------------------------------------------------
(* openAffinityState and assertAffinitySupersessionReady                     *)
OpenAffinity == IsOpenScope(Owner) /\ sess[Owner].scope = "bound"

AffinityReady ==
  /\ status = "paused" /\ ~RecoveryInFlight
  /\ lease.state = "active" /\ lease.phase \in {"idle", "acquired"}
  /\ lease.child = None /\ lease.event = None /\ lease.takeover = "none"
  /\ OpenAffinity /\ Cardinality(OpenScopes) = 1

SupersedeAffinity(child) ==
  /\ AffinityReady /\ pauseReason = "host-session-lost"
  /\ ~SafetyBlocked
  /\ child \in Session \ minted
  /\ sess' = [sess EXCEPT
                ![Owner].retired = TRUE, ![Owner].succ = child,
                ![child] = Replacement("affinity-supersession", Owner, "bound")]
  /\ lease' = RecoveryLease("affinity-supersession", child, None)
  /\ minted' = minted \cup {child}
  /\ Write /\ UNCHANGED <<status, pauseReason, blocked, work>>

-----------------------------------------------------------------------------
(* boundaryRecoverySource, one predicate for each phase it recovers from.    *)
ClosedBy(parent) == ClosedScope(parent) /\ lease.event = parent

ReservedSource ==
  /\ lease.phase = "reserved" /\ lease.state = "active"
  /\ lease.child # None /\ ~HasRow(lease.child)
  /\ lease.takeover \in {"none", "boundary-handoff"}
  /\ ClosedBy(Owner) /\ sess[Owner].succ = None /\ ~sess[Owner].retired

(* Mutant: the owner's scope must not be retired, as in ReservedSource.      *)
EmittedSourceUnretired ==
  /\ lease.phase \in {"emitted", "spawned"} /\ lease.state = "releasing"
  /\ lease.takeover = "boundary-handoff" /\ HasRow(lease.child)
  /\ ClosedBy(Owner) /\ ~sess[Owner].retired /\ sess[Owner].succ = lease.child

EmittedSource ==
  /\ lease.phase \in {"emitted", "spawned"} /\ lease.state = "releasing"
  /\ lease.takeover = "boundary-handoff"
  /\ HasRow(lease.child) /\ sess[lease.child].parent = Owner
  /\ ~sess[lease.child].started /\ sess[lease.child].outcome = "none"
  /\ sess[lease.child].succ = None
  /\ IsOpenScope(lease.child) /\ sess[lease.child].scope = "unbound"
  /\ ClosedBy(Owner) /\ sess[Owner].succ = lease.child

AcquiredSource ==
  /\ lease.phase = "acquired" /\ lease.state = "active" /\ lease.takeover = "none"
  /\ HasRow(Owner) /\ sess[Owner].started
  /\ sess[Owner].outcome = "none" /\ sess[Owner].succ = None
  /\ IsOpenScope(Owner) /\ sess[Owner].scope = "unbound"
  /\ ClosedScope(sess[Owner].parent)
  /\ sess[sess[Owner].parent].succ = Owner

StaleSession == IF lease.phase = "acquired" THEN Owner ELSE lease.child
StaleParent  == IF lease.phase = "acquired" THEN sess[Owner].parent ELSE Owner

(* assertBoundaryRecoveryReady, without the safety gates and the snapshot.   *)
BoundaryRecoverable ==
  /\ status = "paused" /\ ~RecoveryInFlight /\ HasRow(Owner)
  /\ ~OpenAffinity
  /\ ReservedSource \/ EmittedSource \/ AcquiredSource
  /\ OpenScopes \subseteq {StaleSession}

(* Mutant: the scope of the session that is given up stays open.             *)
AbandonedOpen(row, replacement) ==
  [row EXCEPT !.row = TRUE, !.outcome = "abandoned_recover", !.succ = replacement]

Abandoned(row, replacement) ==
  [row EXCEPT !.row = TRUE, !.outcome = "abandoned_recover",
              !.succ = replacement, !.retired = TRUE]

RecoverBoundary(replacement) ==
  /\ BoundaryRecoverable /\ ~SafetyBlocked
  /\ replacement \in Session \ minted
  /\ LET stale  == StaleSession
         parent == StaleParent
     IN /\ sess' = [sess EXCEPT
                      ![stale] = Abandoned([@ EXCEPT !.parent = parent], replacement),
                      ![parent].succ = stale, ![parent].retired = TRUE,
                      ![replacement] = Replacement("boundary-recovery", stale, "unbound")]
        /\ lease' = RecoveryLease("boundary-recovery", replacement, parent)
  /\ pauseReason' = "other"
  /\ minted' = minted \cup {replacement}
  /\ Write /\ UNCHANGED <<status, blocked, work>>

-----------------------------------------------------------------------------
(* acquireRecovery                                                           *)
MayAcquireAffinity(o) ==
  /\ lease.takeover = "affinity-supersession" /\ lease.child = o
  /\ RecoveryReserved("affinity-supersession")
  /\ ~SafetyBlocked

AcquireAffinity(o) ==
  /\ MayAcquireAffinity(o) /\ lease.generation < MaxGeneration
  /\ lease' = RecoveredLease(o)
  /\ status' = "running" /\ pauseReason' = "none"
  /\ sess' = [sess EXCEPT ![o].started = TRUE, ![sess[o].from].outcome = "took_over"]
  /\ Write /\ UNCHANGED <<blocked, work, minted>>

RecoveryNext ==
  \E o \in Session : SupersedeAffinity(o) \/ RecoverBoundary(o) \/ AcquireAffinity(o)
=============================================================================
