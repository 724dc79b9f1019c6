----------------------------- MODULE Workplane ------------------------------
(* The work of a run: workstreams, maker and checker episodes, reviews and   *)
(* their claims, comprehension, the breaker, the finish proof and the        *)
(* routing of next-action (workspace.mjs, episode.mjs, review.mjs,           *)
(* review-import.mjs, comprehension.mjs, breaker.mjs, finish.mjs,            *)
(* next-action.mjs, session-scope.mjs).  Every call is fenced by the owner   *)
(* of the lease and is one step under the run lock, except that dispatch     *)
(* reads a snapshot first and that a reviewer works, for any time, between   *)
(* the claim of a review and the import of its report.                       *)
EXTENDS Naturals, Sequences, FiniteSets

CONSTANTS Workstreams, Points, None,
          MaxParallel,  \* autonomy.max_parallel
          MaxEpisodes, MaxGen, MaxClaims, MaxExtras, MaxLoad  \* bounds

ASSUME NoneAssumption == None \notin Workstreams
ASSUME ClaimAssumption == None \notin [checker : Nat, attempt : Nat, gen : Nat, bytes : Nat]
ASSUME BoundAssumption ==
  {MaxParallel, MaxEpisodes, MaxGen, MaxClaims, MaxExtras, MaxLoad} \subseteq Nat

VARIABLES status,      \* of the run
          scope,       \* the owner's scope: generation, workstream, closed
          streams,     \* per workstream: status, active, review_points_done
          eps,         \* the episodes in the order of their ids
          breaker,     \* consecutive_request_changes, tripped
          counts,      \* comprehension.episodes_total, _human_, _agent_reviewed
          flags,       \* review.flags, as the number of their changes
          bytes,       \* the artifacts of each worktree, as the number of edits
          dispatching, \* what a dispatch in flight has read, or None
          reports,     \* the claims that a reviewer works on or has reported
          extras       \* how often something out of the ordinary was done, for its bound

run  == <<status, scope, streams, eps, breaker, counts, flags>>
vars == <<run, bytes, dispatching, reports, extras>>

-----------------------------------------------------------------------------
Terminal    == {"ready", "merged", "abandoned"}
EpTerminal  == {"done", "approved", "rejected", "abandoned"}
Verdicts    == {"APPROVE", "REQUEST_CHANGES"}     \* CONCERN passes as APPROVE does
Threshold   == 3

Ids         == 1..Len(eps)
Makers      == {i \in Ids : eps[i].role = "maker"}
Checkers    == {i \in Ids : eps[i].role = "checker"}
DoneMakers  == {i \in Makers : eps[i].status = "done"}
Judged      == {i \in Checkers : eps[i].status \in {"approved", "rejected"}}
Latest(S)   == CHOOSE i \in S : \A j \in S : j <= i
First(S)    == CHOOSE i \in S : \A j \in S : i <= j
Exists(w)   == w \in Workstreams /\ streams[w].status # "absent"
Open(w)     == Exists(w) /\ streams[w].status \notin Terminal

(* kind is `fix' when a rejection of the same work is there.                 *)
NewEpisode(role, w, p, target, proof) ==
  [role |-> role,
   fix |-> \E c \in Judged : eps[c].status = "rejected" /\ eps[c].ws = w /\ eps[c].point = p,
   ws |-> w, point |-> p, target |-> target, proof |-> proof,
   status |-> "pending", human |-> FALSE, agent |-> FALSE, claim |-> None,
   flags |-> flags, failed |-> FALSE, report |-> None]

(* leaseCheck of a business write, and assertScopeAllows.                    *)
Fenced          == status = "running"
ScopeIs(w)      == ~scope.closed /\ scope.ws = w
ScopeAdmits(w)  == ~scope.closed /\ scope.ws \in {w, None}

Init == /\ status = "running" /\ scope = [gen |-> 1, ws |-> None, closed |-> FALSE]
        /\ streams = [w \in Workstreams |-> [status |-> "absent", active |-> FALSE, done |-> {}]]
        /\ eps = <<>>
        /\ breaker = [count |-> 0, tripped |-> FALSE]
        /\ counts = [total |-> 0, human |-> 0, agent |-> 0]
        /\ flags = 0 /\ bytes = [w \in Workstreams |-> 0]
        /\ dispatching = None /\ reports = {} /\ extras = 0

Bounded(n, max) == n < max

(* Episodes and extras together are at most MaxLoad.                         *)
RoomForEpisode == Len(eps) < MaxEpisodes /\ Len(eps) + extras < MaxLoad
RoomForExtra   == extras < MaxExtras /\ Len(eps) + extras < MaxLoad

-----------------------------------------------------------------------------
(* What the episodes prove.                                                  *)

(* makerReviewed and latestBoundChecker.                                     *)
Reviews(m)       == {c \in Judged : eps[c].target = m}
Reviewed(m)      == Reviews(m) # {}
ApprovedLast(m)  == Reviewed(m) /\ eps[Latest(Reviews(m))].status = "approved"

(* rejectionResolved: approved again, or made again.                         *)
Resolved(c) ==
  \/ \E d \in Reviews(eps[c].target) : eps[d].status = "approved" /\ d > c
  \/ \E m \in DoneMakers : /\ eps[m].ws = eps[c].ws /\ eps[m].point = eps[c].point
                           /\ m > eps[c].target

Settled(i) == \/ eps[i].status \in {"done", "approved", "abandoned"}
              \/ eps[i].role = "checker" /\ eps[i].status = "rejected" /\ Resolved(i)

(* workstreamClosureProofState, on a set of episodes.                        *)
LatestMakers(S) ==
  {m \in S \cap DoneMakers : \A n \in S \cap DoneMakers :
     eps[n].ws = eps[m].ws /\ eps[n].point = eps[m].point => n <= m}

Converged(S) == /\ \A i \in S : Settled(i)
                /\ \A m \in S \cap DoneMakers : Reviewed(m)
                /\ \A m \in LatestMakers(S) : ApprovedLast(m)

EpisodesOf(w) == {i \in Ids : eps[i].ws = w}
Closure(w)    == Converged(EpisodesOf(w))

(* finishProofState, on the whole run or on a view of it.                    *)
UnmetPoints == Points \ UNION {streams[w].done : w \in Workstreams}

FinishProof(S) ==
  /\ S # {} /\ S \cap DoneMakers # {} /\ Converged(S)
  /\ \A w \in Workstreams : Exists(w) => ~streams[w].active /\ ~Open(w)
  /\ UnmetPoints = {}
  /\ \A m \in S \cap DoneMakers : Exists(eps[m].ws)

-----------------------------------------------------------------------------
(* Workstreams.                                                              *)
Active == {w \in Workstreams : streams[w].active}

NewWorkstream(w) ==
  /\ Fenced /\ streams[w].status = "absent"
  /\ streams' = [streams EXCEPT ![w].status = "open"]
  /\ UNCHANGED <<status, scope, eps, breaker, counts, flags>>

(* setWorkstreamStatus: in_progress and parked; the others change nothing    *)
(* that is read.                                                             *)
SetActive(w, on) ==
  /\ Fenced /\ Open(w) /\ ScopeAdmits(w) /\ streams[w].active # on
  /\ on => Cardinality(Active) < MaxParallel
  /\ streams' = [streams EXCEPT ![w].active = on]
  /\ UNCHANGED <<status, scope, eps, breaker, counts, flags>>

(* recordWorkstreamTerminal: closing needs the proof, and closes the scope.  *)
MayClose(w, final) == /\ Closure(w)
                      /\ final = "ready" => Points # {} /\ Points \subseteq streams[w].done

CloseWorkstream(w, final) ==
  /\ Fenced /\ Open(w) /\ ScopeIs(w) /\ MayClose(w, final)
  /\ streams' = [streams EXCEPT ![w].status = final, ![w].active = FALSE]
  /\ scope' = [scope EXCEPT !.closed = TRUE]
  /\ UNCHANGED <<status, eps, breaker, counts, flags>>

(* A closed scope refuses only the calls that ask for it.                    *)
MergeWorkstream(w) ==
  /\ Fenced /\ Exists(w) /\ streams[w].status = "ready"
  /\ streams' = [streams EXCEPT ![w].status = "merged"]
  /\ UNCHANGED <<status, scope, eps, breaker, counts, flags>>

-----------------------------------------------------------------------------
(* Episodes.                                                                 *)

(* createEpisode of a maker.  Without a workstream no scope is asked for.    *)
MayMake(w) == w # None => Open(w) /\ ScopeAdmits(w)

NewMaker(w, p, proof) ==
  /\ Fenced /\ MayMake(w) /\ RoomForEpisode
  /\ eps' = Append(eps, NewEpisode("maker", w, p, 0, proof))
  /\ counts' = [counts EXCEPT !.total = @ + 1]
  /\ UNCHANGED <<status, scope, streams, breaker, flags>>

(* recordEpisode.  The work of a maker binds the scope; what is done resets  *)
(* the reviews of what was not there yet.                                    *)
MayStart(i) == /\ eps[i].status \notin EpTerminal /\ eps[i].ws # None
               /\ Open(eps[i].ws) /\ ScopeAdmits(eps[i].ws)

MayRecord(i) == /\ eps[i].status \notin EpTerminal
                /\ eps[i].ws # None => Open(eps[i].ws) /\ ScopeIs(eps[i].ws)

Flagged(b) == IF b THEN 1 ELSE 0

StartMaker(i) ==
  /\ Fenced /\ i \in Makers /\ MayStart(i)
  /\ eps[i].status # "in_progress" \/ scope.ws = None
  /\ eps' = [eps EXCEPT ![i].status = "in_progress"]
  /\ scope' = [scope EXCEPT !.ws = eps[i].ws]
  /\ UNCHANGED <<status, streams, breaker, counts, flags>>

Done(e) == [e EXCEPT !.status = "done", !.human = FALSE, !.agent = FALSE]

FinishMaker(i) ==
  /\ Fenced /\ i \in Makers /\ MayRecord(i) /\ eps[i].ws # None /\ eps[i].proof
  /\ eps' = [eps EXCEPT ![i] = Done(@)]
  /\ counts' = [counts EXCEPT !.human = @ - Flagged(eps[i].human),
                              !.agent = @ - Flagged(eps[i].agent)]
  /\ UNCHANGED <<status, scope, streams, breaker, flags>>

(* Any other status that `episode record' takes.                             *)
RecordStatus(i, st) ==
  /\ Fenced /\ MayRecord(i) /\ eps[i].status # st
  /\ st = "in_progress" => i \in Checkers
  /\ eps' = [eps EXCEPT ![i].status = st]
  /\ UNCHANGED <<status, scope, streams, breaker, counts, flags>>

(* abandonEpisode, by a person.  A checker may be given up for an            *)
(* operational failure, which reconfiguration asks for.                      *)
(* Mutant: the counters of reviews are not lowered.                          *)
UncountedTotalOnly(e) == [counts EXCEPT !.total = @ - 1]
Uncounted(e)          == [total |-> counts.total - 1, human |-> counts.human - Flagged(e.human),
                          agent |-> counts.agent - Flagged(e.agent)]

MayAbandon(i) == /\ eps[i].status \notin EpTerminal
                 /\ eps[i].ws # None => ScopeAdmits(eps[i].ws)

AbandonEpisode(i, failed) ==
  /\ Fenced /\ MayAbandon(i)
  /\ failed => i \in Checkers
  /\ eps' = [eps EXCEPT ![i].status = "abandoned", ![i].human = TRUE, ![i].failed = failed]
  /\ counts' = IF i \in Makers THEN Uncounted(eps[i]) ELSE counts
  /\ UNCHANGED <<status, scope, streams, breaker, flags>>

(* ack: only a person releases the gate, for settled work of any workstream. *)
(* Mutant: a person, too, must be bound to the workstream.                   *)
MayAckOwnOnly(i, actor) == eps[i].ws # None => ScopeIs(eps[i].ws)
MayAck(i, actor) ==
  eps[i].ws # None => \/ ScopeIs(eps[i].ws)
                      \/ ~scope.closed /\ actor = "human" /\ eps[i].status = "done"

Ack(i, actor) ==
  /\ Fenced /\ i \in Makers /\ MayAck(i, actor)
  /\ eps[i].status # "abandoned" /\ ~eps[i].human
  /\ actor = "agent" => ~eps[i].agent
  /\ IF actor = "human"
     THEN eps' = [eps EXCEPT ![i].human = TRUE] /\ counts' = [counts EXCEPT !.human = @ + 1]
     ELSE eps' = [eps EXCEPT ![i].agent = TRUE] /\ counts' = [counts EXCEPT !.agent = @ + 1]
  /\ UNCHANGED <<status, scope, streams, breaker, flags>>

-----------------------------------------------------------------------------
(* Reviews.                                                                  *)

(* dispatchReview before the lock: the latest done maker of the point that   *)
(* no checker has judged.                                                    *)
Eligible(w, p) == {m \in DoneMakers : eps[m].ws = w /\ eps[m].point = p /\ ~Reviewed(m)}

MayDispatch(w, p) == Open(w) /\ Eligible(w, p) # {} /\ ScopeAdmits(w)

StartDispatch(w, p) ==
  /\ dispatching = None /\ MayDispatch(w, p)
  /\ dispatching' = [target |-> Latest(Eligible(w, p)), flags |-> flags, gen |-> scope.gen]
  /\ UNCHANGED <<run, bytes, reports, extras>>

(* createEpisode of the checker, on the state of now.                        *)
(* Mutants: what the snapshot showed is not asked again.                     *)
DispatchStandsBlindly(d) == d.flags = flags /\ d.gen = scope.gen
DispatchStandsUnflagged(d) ==
  LET w == eps[d.target].ws IN d.gen = scope.gen /\ Open(w) /\ ScopeAdmits(w)
DispatchStands(d) ==
  LET w == eps[d.target].ws
  IN  d.gen = scope.gen /\ d.flags = flags /\ Open(w) /\ ScopeAdmits(w)

CommitDispatch ==
  /\ dispatching # None /\ Fenced /\ DispatchStands(dispatching)
  /\ RoomForEpisode
  /\ LET m == dispatching.target
     IN  eps' = Append(eps, [NewEpisode("checker", eps[m].ws, eps[m].point, m, FALSE)
                             EXCEPT !.flags = dispatching.flags])
  /\ dispatching' = None
  /\ UNCHANGED <<status, scope, streams, breaker, counts, flags, bytes, reports, extras>>

(* It is refused, or its process dies.                                       *)
DropDispatch == /\ dispatching # None /\ dispatching' = None
                /\ UNCHANGED <<run, bytes, reports, extras>>

(* claimedContext: what a claim of the review says now.                      *)
ClaimNow(c, attempt) ==
  [checker |-> c, attempt |-> attempt, gen |-> scope.gen, bytes |-> bytes[eps[c].ws]]

ClaimReview(c) ==
  /\ Fenced /\ c \in Checkers /\ eps[c].status = "pending" /\ ScopeAdmits(eps[c].ws)
  /\ Bounded(Cardinality(reports), MaxClaims)
  /\ LET claim == ClaimNow(c, Cardinality(reports) + 1)
     IN  /\ eps' = [eps EXCEPT ![c].status = "in_progress", ![c].claim = claim]
         /\ reports' = reports \cup {claim}
  /\ UNCHANGED <<status, scope, streams, breaker, counts, flags, bytes, dispatching, extras>>

(* blockIndependentReview.                                                   *)
BlockReview(c) ==
  /\ Fenced /\ c \in Checkers /\ eps[c].status = "in_progress" /\ eps[c].claim # None
  /\ ScopeAdmits(eps[c].ws) /\ eps[c].claim = ClaimNow(c, eps[c].claim.attempt)
  /\ eps' = [eps EXCEPT ![c].status = "blocked"]
  /\ status' = "paused"
  /\ UNCHANGED <<scope, streams, breaker, counts, flags>>

(* commitReviewOutcome.  Its event names the attempt whose report decides.   *)
(* The third rejection in a row trips the breaker.                           *)
Trips(count) == count >= Threshold /\ ~breaker.tripped

Commit(c, verdict, report) ==
  LET m      == eps[c].target
      passed == verdict = "APPROVE"
      count  == IF passed THEN 0 ELSE breaker.count + 1
      credit == passed /\ ~eps[m].human /\ ~eps[m].agent
  IN  /\ eps' = [eps EXCEPT ![c].status = IF passed THEN "approved" ELSE "rejected",
                            ![c].report = report, ![m].agent = @ \/ credit]
      /\ breaker' = [count |-> count, tripped |-> breaker.tripped \/ Trips(count)]
      /\ status' = IF Trips(count) THEN "paused" ELSE status
      /\ streams' = IF passed THEN [streams EXCEPT ![eps[c].ws].done = @ \cup {eps[c].point}]
                    ELSE streams
      /\ counts' = [counts EXCEPT !.agent = @ + Flagged(credit)]
      /\ UNCHANGED <<scope, flags>>

MayJudge(c) == /\ Fenced /\ c \in Checkers /\ ScopeAdmits(eps[c].ws)
               /\ eps[c].status \in {"pending", "in_progress"}

Unclaimed(c) == eps[c].claim = None

RecordReview(c, verdict) == MayJudge(c) /\ Unclaimed(c) /\ Commit(c, verdict, None)

(* validateImportedEvidence: the report is of this attempt, the claim of     *)
(* this lease, and the artifacts are those that were claimed.                *)
(* Mutant: a report of any attempt will do.                                  *)
EvidenceOfAnyAttempt(c, r) ==
  eps[c].claim = ClaimNow(c, eps[c].claim.attempt) /\ r.bytes = bytes[eps[c].ws]
Evidence(c, r) == /\ eps[c].claim.attempt = r.attempt
                  /\ eps[c].claim = ClaimNow(c, r.attempt) /\ r.bytes = bytes[eps[c].ws]

ImportReview(r, verdict) ==
  /\ MayJudge(r.checker) /\ eps[r.checker].status = "in_progress"
  /\ eps[r.checker].claim # None /\ Evidence(r.checker, r)
  /\ Commit(r.checker, verdict, r)

(* configureReviewFlags: once per checker that failed, the latest one, and   *)
(* never beside an active checker.                                           *)
NoneActive == \A c \in Checkers : eps[c].status \in EpTerminal

ConfigureReview(c) ==
  /\ Fenced /\ c \in Checkers /\ eps[c].failed /\ c = Latest(Checkers) /\ NoneActive
  /\ eps[eps[c].target].status = "done"
  /\ eps' = [eps EXCEPT ![c].failed = FALSE]
  /\ flags' = flags + 1
  /\ UNCHANGED <<status, scope, streams, breaker, counts>>

-----------------------------------------------------------------------------
(* Sessions, as far as the work sees them.                                   *)
PauseRun     == status = "running" /\ status' = "paused"
                /\ UNCHANGED <<scope, streams, eps, breaker, counts, flags>>

ResetBreaker == /\ breaker # [count |-> 0, tripped |-> FALSE]
                /\ status \in {"running", "paused"}
                /\ breaker' = [count |-> 0, tripped |-> FALSE]
                /\ status' = IF breaker.tripped THEN "running" ELSE status
                /\ UNCHANGED <<scope, streams, eps, counts, flags>>

(* acquireLease: after a boundary, or by a recovery of a paused run, which   *)
(* keeps an open affinity or starts without one.                             *)
NextSession(keep) ==
  /\ Bounded(scope.gen, MaxGen)
  /\ \/ status = "running" /\ scope.closed /\ ~keep
     \/ status = "paused" /\ (keep => scope.ws # None /\ ~scope.closed)
  /\ scope' = [gen |-> scope.gen + 1, ws |-> IF keep THEN scope.ws ELSE None, closed |-> FALSE]
  /\ status' = "running"
  /\ UNCHANGED <<streams, eps, breaker, counts, flags>>

FinishRun(final) ==
  /\ status = "running"
  /\ final = "completed" => FinishProof(Ids)
  /\ status' = final
  /\ UNCHANGED <<scope, streams, eps, breaker, counts, flags>>

(* Whoever works in a worktree changes its files at any time.                *)
Edit(w) == /\ Exists(w)
           /\ bytes' = [bytes EXCEPT ![w] = @ + 1]
           /\ UNCHANGED run

-----------------------------------------------------------------------------
(* What an undisturbed run does, and what people, other tools and mistakes   *)
(* do besides, MaxExtras times at most.                                      *)
Ordinary ==
  \/ \E w \in Workstreams : NewWorkstream(w) \/ MergeWorkstream(w)
  \/ \E w \in Workstreams, final \in {"ready", "abandoned"} : CloseWorkstream(w, final)
  \/ \E w \in Workstreams, p \in Points : NewMaker(w, p, TRUE)
  \/ \E i \in Ids : StartMaker(i) \/ FinishMaker(i) \/ BlockReview(i) \/ ConfigureReview(i)
  \/ \E i \in Ids, verdict \in Verdicts : RecordReview(i, verdict)
  \/ \E r \in reports, verdict \in Verdicts : ImportReview(r, verdict)
  \/ \E keep \in BOOLEAN : NextSession(keep)
  \/ FinishRun("completed")

Extra ==
  \/ \E w \in Workstreams, on \in BOOLEAN : SetActive(w, on)
  \/ \E w \in Workstreams \cup {None}, p \in Points :
       NewMaker(w, p, FALSE) \/ (w = None /\ NewMaker(w, p, TRUE))
  \/ \E i \in Ids, st \in {"pending", "in_progress", "blocked"} : RecordStatus(i, st)
  \/ \E i \in Ids, failed \in BOOLEAN : AbandonEpisode(i, failed)
  \/ \E i \in Ids, actor \in {"human", "agent"} : Ack(i, actor)
  \/ PauseRun \/ ResetBreaker \/ FinishRun("stopped")

Next ==
  \/ Ordinary /\ UNCHANGED <<bytes, dispatching, reports, extras>>
  \/ /\ RoomForExtra /\ extras' = extras + 1
     /\ UNCHANGED <<dispatching, reports>>
     /\ \/ Extra /\ UNCHANGED bytes
        \/ \E w \in Workstreams : Edit(w)
  \/ \E w \in Workstreams, p \in Points : StartDispatch(w, p)
  \/ CommitDispatch \/ DropDispatch
  \/ \E c \in Ids : ClaimReview(c)

Spec == Init /\ [][Next]_vars

-----------------------------------------------------------------------------
(* nextAction, its routing.  The global gates on the budget and the boundary *)
(* that was handed off already are in SessionChain.                          *)

(* computeDebt: half of the settled work is not reviewed by a person.        *)
HumanReviewed == {m \in DoneMakers : eps[m].human}
Debt == DoneMakers # {} /\ 2 * Cardinality(HumanReviewed) <= Cardinality(DoneMakers)

(* scopedRoutingView: the owner's workstream, or the open ones.  A checker   *)
(* is of its maker's workstream, so a view keeps both.                       *)
InView == IF scope.ws # None THEN {scope.ws} ELSE {w \in Workstreams : Open(w)}
View   == IF InView = {} THEN Ids ELSE {i \in Ids : eps[i].ws \in InView \cup {None}}

A(type)      == [type |-> type, episode |-> 0]
Of(type, i)  == [type |-> type, episode |-> i]

DispatchMaker(i) == IF ~eps[i].proof THEN Of("orphan", i)
                    ELSE IF Debt /\ ~eps[i].fix THEN A("debt") ELSE Of("dispatch_maker", i)
AwaitResult(i)   == IF i \in Makers /\ ~eps[i].proof THEN Of("orphan", i) ELSE Of("await_result", i)
DispatchCheck(i) == IF Exists(eps[i].ws) THEN Of("dispatch_checker", i) ELSE Of("unbound", i)

(* Mutant: a review of the point is one of the maker.                        *)
UnreviewedByPoint(V) ==
  {i \in V \cap DoneMakers : ~\E c \in Judged : eps[c].ws = eps[i].ws /\ eps[c].point = eps[i].point}
UnreviewedIn(V) == {i \in V \cap DoneMakers : ~Reviewed(i)}

FinishOrAdvance(V) ==
  LET pending    == {i \in V \cap Makers : eps[i].status = "pending"}
      rejected   == {i \in V \cap Checkers : eps[i].status = "rejected" /\ ~Resolved(i)}
      working    == {i \in V : eps[i].status = "in_progress"}
      waiting    == {i \in V \cap Checkers : eps[i].status = "pending"}
      unreviewed == UnreviewedIn(V)
  IN CASE pending # {}    -> DispatchMaker(First(pending))
       [] pending = {} /\ rejected # {} -> Of("fix_episode", First(rejected))
       [] pending \cup rejected = {} /\ working # {} -> AwaitResult(First(working))
       [] pending \cup rejected \cup working = {} /\ waiting # {} ->
            Of("pending_checker", First(waiting))
       [] pending \cup rejected \cup working \cup waiting = {} /\ unreviewed # {} ->
            DispatchCheck(First(unreviewed))
       [] OTHER -> IF FinishProof(V) THEN A("finish") ELSE A("remains")

Route ==
  LET cur == Len(eps)
      e   == eps[cur]
  IN CASE View = {} -> IF Debt THEN A("debt") ELSE A("discover")
       [] View # {} /\ cur \notin View -> FinishOrAdvance(View)
       [] cur \in View /\ e.status = "blocked" -> Of("blocked", cur)
       [] cur \in View /\ e.status = "in_progress" -> AwaitResult(cur)
       [] cur \in View \cap Makers /\ e.status = "pending" -> DispatchMaker(cur)
       [] cur \in View \cap Makers /\ e.status = "done" -> DispatchCheck(cur)
       [] cur \in View \cap Checkers /\ e.status = "pending" -> Of("pending_checker", cur)
       [] cur \in View \cap Checkers /\ e.status = "rejected" /\ ~Resolved(cur) ->
            Of("fix_episode", cur)
       [] OTHER -> FinishOrAdvance(View)

Advice ==
  IF breaker.tripped \/ breaker.count >= Threshold THEN A("breaker")
  ELSE IF scope.ws # None /\ scope.closed
       THEN IF FinishProof(Ids) THEN A("finish") ELSE A("handoff")
       ELSE Route

-----------------------------------------------------------------------------
(* What next-action advises, the kernel accepts: the call it names would not *)
(* be refused, and where it waits for a person, the remedy the person is     *)
(* offered (abandon, ack) is open.  A maker without a workstream is the      *)
(* exception: next-action dispatches it and recordEpisode refuses it.        *)
AdviceAccepted ==
  status = "running" =>
    LET a == Advice
        i == a.episode
    IN  /\ a.type = "dispatch_maker"   => MayStart(i) \/ eps[i].ws = None
        /\ a.type = "dispatch_checker" => MayDispatch(eps[i].ws, eps[i].point)
        /\ a.type = "fix_episode"      => MayMake(eps[i].ws)
        /\ a.type = "finish"           => FinishProof(Ids)
        /\ a.type = "await_result"     => IF i \in Makers THEN MayStart(i) ELSE MayAbandon(i)
        /\ a.type \in {"orphan", "pending_checker", "blocked"} => MayAbandon(i)
        /\ a.type = "debt" => \E m \in DoneMakers : ~eps[m].human /\ MayAck(m, "human")
        /\ a.type # "unbound"

(* When routing has nothing left to advise in its view, nothing in it but a  *)
(* blocked episode stands in the way of the proof.                           *)
RoutingSeesAllWork ==
  status = "running" /\ Advice.type = "remains" =>
    Converged({i \in View : eps[i].status # "blocked"})

(* A workstream that was closed stays proven, whatever is dispatched,        *)
(* reviewed or abandoned later: no work is left in it, and what is ready has *)
(* each review point's last work approved by its last review.                *)
ClosedIsProven ==
  \A w \in Workstreams : streams[w].status \in Terminal =>
    /\ Closure(w)
    /\ streams[w].status \in {"ready", "merged"} =>
         \A p \in Points : \E m \in LatestMakers(EpisodesOf(w)) :
           eps[m].point = p /\ ApprovedLast(m)

(* The counters are those of the flags, and no more makers are reviewed than *)
(* there are.                                                                *)
CountersAgree ==
  LET live == {m \in Makers : eps[m].status # "abandoned"}
  IN  counts = [total |-> Cardinality(live),
                human |-> Cardinality({m \in live : eps[m].human}),
                agent |-> Cardinality({m \in live : eps[m].agent})]

(* A claimed review is decided only by the report of its last claim, by the  *)
(* session that made this claim, and on the artifacts that were claimed, and *)
(* not by an earlier reviewer's who was given up.                            *)
ClaimDecidesItself ==
  [][\A c \in Checkers :
       eps[c].claim # None /\ eps'[c].status # eps[c].status
         /\ eps'[c].status \in {"approved", "rejected"} =>
       LET r == eps'[c].report
       IN  /\ r \in reports /\ r.checker = c
           /\ r.gen = scope.gen /\ r.bytes = bytes[eps[c].ws]
           /\ \A q \in reports : q.checker = c => q.attempt <= r.attempt]_vars

(* No review is under way by flags that a person has replaced.               *)
ActiveReviewsUseCurrentFlags ==
  \A c \in Checkers : eps[c].status \notin EpTerminal => eps[c].flags = flags
=============================================================================
