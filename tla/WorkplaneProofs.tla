--------------------------- MODULE WorkplaneProofs ---------------------------
(* Results for any work, people and number of claims.  The flags a review    *)
(* was made for are the run's flags as long as it is active; a claimed       *)
(* review is decided by its own claim only; the counters of comprehension    *)
(* are those of the episodes; what was closed stays proven; and next-action  *)
(* overlooks no work and advises only what the kernel accepts.               *)
EXTENDS Workplane, FiniteSetTheorems, WellFoundedInduction, TLAPS

(* The greatest of some episodes.                                            *)
LEMMA LatestMost ==
  ASSUME NEW n \in Nat, NEW S \in SUBSET (1..n), S # {}
  PROVE  \E i \in S : \A j \in S : j <= i
<1> DEFINE T == {n - i : i \in S}
           R == OpToRel(<, Nat)
<1>1. PICK x \in T : \A y \in T : ~(<<y, x>> \in R)
  <2>1. T \subseteq Nat /\ T # {}
    OBVIOUS
  <2>2. IsWellFoundedOn(R, Nat)
    BY NatLessThanWellFounded
  <2> HIDE DEF T, R
  <2> QED
    BY <2>1, <2>2, WFMin
<1>2. \A y \in T : ~(y < x)
  <2> SUFFICES ASSUME NEW y \in T, y < x PROVE FALSE
    OBVIOUS
  <2>1. x \in Nat /\ y \in Nat
    OBVIOUS
  <2>2. <<y, x>> \in Nat \X Nat /\ <<y, x>>[1] < <<y, x>>[2]
    BY <2>1
  <2> HIDE DEF T
  <2>3. <<y, x>> \in R
    BY <2>2 DEF OpToRel
  <2> QED
    BY <1>1, <2>3
<1>3. PICK i \in S : x = n - i
  OBVIOUS
<1>4. \A j \in S : j <= i
  <2> SUFFICES ASSUME NEW j \in S PROVE j <= i
    OBVIOUS
  <2>1. n - j \in T
    OBVIOUS
  <2> HIDE DEF T
  <2>2. ~(n - j < x)
    BY <1>2, <2>1
  <2> QED
    BY <1>3, <2>2
<1> QED
  BY <1>4

LEMMA LatestIn ==
  ASSUME NEW n \in Nat, NEW S \in SUBSET (1..n), S # {}
  PROVE  Latest(S) \in S
  BY LatestMost DEF Latest

-----------------------------------------------------------------------------
Claim   == [checker : Nat, attempt : Nat, gen : Nat, bytes : Nat]
Scope   == [gen : Nat, ws : Workstreams \cup {None}, closed : BOOLEAN]
Status  == {"pending", "in_progress", "blocked"} \cup EpTerminal
Episode == [role : {"maker", "checker"}, fix : BOOLEAN, ws : Workstreams \cup {None},
            point : Points, target : Nat, proof : BOOLEAN, status : Status,
            human : BOOLEAN, agent : BOOLEAN, claim : Claim \cup {None},
            flags : Nat, failed : BOOLEAN, report : Claim \cup {None}]

(* A maker of a workstream, which a checker may be made for.                 *)
Checkable(m) == m \in Makers /\ eps[m].ws \in Workstreams

ChecksBound == \A c \in Checkers : Checkable(eps[c].target) /\ eps[c].ws \in Workstreams

DispatchBound == dispatching # None => /\ dispatching \in [target : Nat, flags : Nat, gen : Nat]
                                       /\ Checkable(dispatching.target)

(* The claims are numbered, no two alike, and the checker knows the last of  *)
(* its own.                                                                  *)
ClaimsKnown ==
  /\ \A r \in reports : /\ r.attempt <= Cardinality(reports)
                        /\ r.checker \in Checkers /\ eps[r.checker].claim \in reports
                        /\ r.attempt <= eps[r.checker].claim.attempt
  /\ \A q, r \in reports : q.attempt = r.attempt => q = r

WorkInv == /\ eps \in Seq(Episode) /\ scope \in Scope /\ flags \in Nat
           /\ bytes \in [Workstreams -> Nat]
           /\ reports \in SUBSET Claim /\ IsFiniteSet(reports)
           /\ ChecksBound /\ DispatchBound /\ ClaimsKnown

ReviewInv == WorkInv /\ ActiveReviewsUseCurrentFlags

(* What one step must respect of a claimed review.                           *)
Decision ==
  \A c \in Checkers :
    eps[c].claim # None /\ eps'[c].status # eps[c].status
      /\ eps'[c].status \in {"approved", "rejected"} =>
    LET r == eps'[c].report
    IN  /\ r \in reports /\ r.checker = c
        /\ r.gen = scope.gen /\ r.bytes = bytes[eps[c].ws]
        /\ \A q \in reports : q.checker = c => q.attempt <= r.attempt

-----------------------------------------------------------------------------
(* An episode as most steps leave it: what it is of does not change, and it  *)
(* does not come back to life.                                               *)
Keeps(e, f) == /\ f \in Episode /\ f.role = e.role /\ f.ws = e.ws /\ f.target = e.target
               /\ f.claim = e.claim /\ f.flags = e.flags
               /\ f.status \notin EpTerminal => e.status \notin EpTerminal

KeepsEpisodes == /\ eps' \in Seq(Episode) /\ Len(eps') = Len(eps)
                 /\ \A i \in Ids : Keeps(eps[i], eps'[i])

(* No claimed review is decided.                                             *)
Undecided == \A i \in Ids : eps'[i].status \in {"approved", "rejected"}
                              => eps'[i].status = eps[i].status \/ eps[i].claim = None

LEMMA Same == eps \in Seq(Episode) /\ UNCHANGED eps => KeepsEpisodes /\ Undecided
  BY DEF KeepsEpisodes, Undecided, Keeps, Ids

LEMMA OneChanged ==
  ASSUME eps \in Seq(Episode), NEW i \in Ids, NEW f, Keeps(eps[i], f),
         eps' = [eps EXCEPT ![i] = f]
  PROVE  KeepsEpisodes /\ eps'[i] = f /\ \A j \in Ids \ {i} : eps'[j] = eps[j]
<1>1. f \in Episode
  BY DEF Keeps
<1>2. \A j \in Ids : Keeps(eps[j], eps[j])
  BY DEF Keeps, Ids
<1> QED
  BY <1>1, <1>2 DEF KeepsEpisodes, Ids

LEMMA KeepsChecks ==
  ASSUME ReviewInv, KeepsEpisodes
  PROVE  /\ Ids' = Ids /\ Checkers' = Checkers /\ ChecksBound'
         /\ \A m : Checkable(m)' <=> Checkable(m)
<1>1. Ids' = Ids
  BY DEF KeepsEpisodes, Ids
<1>2. Checkers' = Checkers /\ Makers' = Makers
  BY <1>1 DEF Checkers, Makers, KeepsEpisodes, Keeps
<1>3. \A m : Checkable(m)' <=> Checkable(m)
  BY <1>1, <1>2 DEF Checkable, Makers, KeepsEpisodes, Keeps
<1>4. ChecksBound'
  BY <1>1, <1>2, <1>3 DEF ReviewInv, WorkInv, ChecksBound, Checkers, KeepsEpisodes, Keeps
<1> QED
  BY <1>1, <1>2, <1>3, <1>4

LEMMA KeepsInv ==
  ASSUME ReviewInv, KeepsEpisodes, UNCHANGED <<flags, reports>>,
         scope' \in Scope, bytes' \in [Workstreams -> Nat],
         dispatching' \in {dispatching, None}
  PROVE  ReviewInv'
<1>1. ChecksBound' /\ Ids' = Ids /\ Checkers' = Checkers
  BY KeepsChecks
<1>2. DispatchBound'
  BY KeepsChecks DEF ReviewInv, WorkInv, DispatchBound
<1>3. ClaimsKnown'
  BY <1>1 DEF ReviewInv, WorkInv, ClaimsKnown, KeepsEpisodes, Keeps, Checkers
<1>4. ActiveReviewsUseCurrentFlags'
  BY <1>1 DEF ReviewInv, ActiveReviewsUseCurrentFlags, KeepsEpisodes, Keeps, Checkers
<1> QED
  BY <1>1, <1>2, <1>3, <1>4 DEF ReviewInv, WorkInv, KeepsEpisodes

LEMMA UndecidedDecides == ASSUME Undecided PROVE Decision
  BY DEF Undecided, Decision, Checkers

LEMMA InitReview == Init => ReviewInv
<1> SUFFICES ASSUME Init PROVE ReviewInv
  OBVIOUS
<1>1. Ids = {} /\ Checkers = {} /\ Makers = {}
  BY DEF Init, Ids, Checkers, Makers
<1>2. reports \in SUBSET Claim /\ IsFiniteSet(reports)
  BY FS_EmptySet DEF Init
<1> QED
  BY <1>1, <1>2 DEF Init, ReviewInv, WorkInv, Scope, ChecksBound, DispatchBound, ClaimsKnown,
     ActiveReviewsUseCurrentFlags

-----------------------------------------------------------------------------
(* The steps that leave the episodes alone.                                  *)
Elsewhere == UNCHANGED <<eps, flags, reports, dispatching>>

LEMMA ElsewhereSafe ==
  ASSUME ReviewInv, UNCHANGED <<eps, flags, reports>>, dispatching' \in {dispatching, None},
         scope' \in Scope, bytes' \in [Workstreams -> Nat]
  PROVE  ReviewInv' /\ Decision
  BY Same, KeepsInv, UndecidedDecides DEF ReviewInv, WorkInv

LEMMA ScopeSafe ==
  ASSUME ReviewInv, Elsewhere, UNCHANGED bytes,
         \/ UNCHANGED scope
         \/ scope' = [scope EXCEPT !.closed = TRUE]
         \/ \E keep \in BOOLEAN : scope' = [gen |-> scope.gen + 1, closed |-> FALSE,
                                            ws |-> IF keep THEN scope.ws ELSE None]
  PROVE  ReviewInv' /\ Decision
<1>1. scope \in Scope
  BY DEF ReviewInv, WorkInv
<1>2. scope' \in Scope
  <2>1. CASE UNCHANGED scope
    BY <1>1, <2>1
  <2>2. CASE scope' = [scope EXCEPT !.closed = TRUE]
    BY <1>1, <2>2 DEF Scope
  <2>3. ASSUME NEW keep \in BOOLEAN,
               scope' = [gen |-> scope.gen + 1, closed |-> FALSE, ws |-> IF keep THEN scope.ws ELSE None]
        PROVE  scope' \in Scope
    <3>1. scope.gen + 1 \in Nat /\ (IF keep THEN scope.ws ELSE None) \in Workstreams \cup {None}
      BY <1>1 DEF Scope
    <3> QED
      BY <2>3, <3>1 DEF Scope
  <2> QED
    BY <2>1, <2>2, <2>3
<1> QED
  BY <1>2, ElsewhereSafe DEF Elsewhere, ReviewInv, WorkInv

LEMMA StreamsSafe ==
  ASSUME ReviewInv, UNCHANGED <<bytes, dispatching, reports>>,
         NEW w \in Workstreams, NEW on \in BOOLEAN, NEW final,
         \/ NewWorkstream(w) \/ MergeWorkstream(w) \/ SetActive(w, on) \/ CloseWorkstream(w, final)
  PROVE  ReviewInv' /\ Decision
  BY ScopeSafe DEF NewWorkstream, MergeWorkstream, SetActive, CloseWorkstream, Elsewhere

LEMMA SessionsSafe ==
  ASSUME ReviewInv, UNCHANGED <<bytes, dispatching, reports>>, NEW final,
         \/ PauseRun \/ ResetBreaker \/ FinishRun(final) \/ \E keep \in BOOLEAN : NextSession(keep)
  PROVE  ReviewInv' /\ Decision
  BY ScopeSafe DEF PauseRun, ResetBreaker, FinishRun, NextSession, Elsewhere

LEMMA EditSafe ==
  ASSUME ReviewInv, NEW w \in Workstreams, Edit(w), UNCHANGED <<dispatching, reports>>
  PROVE  ReviewInv' /\ Decision
<1>1. bytes \in [Workstreams -> Nat] /\ bytes' = [bytes EXCEPT ![w] = @ + 1]
  BY DEF Edit, ReviewInv, WorkInv
<1>2. bytes' \in [Workstreams -> Nat]
  BY <1>1
<1> QED
  BY <1>2, ElsewhereSafe DEF Edit, run, ReviewInv, WorkInv

-----------------------------------------------------------------------------
(* The steps that write one episode, and decide no claim.                    *)
LEMMA EpisodeSafe ==
  ASSUME ReviewInv, NEW i \in Ids, NEW f, Keeps(eps[i], f), eps' = [eps EXCEPT ![i] = f],
         f.status \in {"approved", "rejected"} => f.status = eps[i].status,
         UNCHANGED <<flags, reports, dispatching, bytes>>, scope' \in Scope
  PROVE  ReviewInv' /\ Decision
<1>1. KeepsEpisodes /\ eps'[i] = f /\ \A j \in Ids \ {i} : eps'[j] = eps[j]
  BY OneChanged DEF ReviewInv, WorkInv
<1>2. Undecided
  BY <1>1 DEF Undecided
<1> QED
  BY <1>1, <1>2, KeepsInv, UndecidedDecides DEF ReviewInv, WorkInv

LEMMA EpisodeOf == ASSUME ReviewInv, NEW i \in Ids PROVE eps[i] \in Episode
  BY DEF ReviewInv, WorkInv, Ids

LEMMA StatusKept ==
  ASSUME NEW e \in Episode, NEW st \in Status,
         st \notin EpTerminal => e.status \notin EpTerminal
  PROVE  Keeps(e, [e EXCEPT !.status = st]) /\ [e EXCEPT !.status = st].status = st
  BY DEF Keeps, Episode

LEMMA StartMakerSafe ==
  ASSUME ReviewInv, NEW i \in Ids, StartMaker(i), UNCHANGED <<bytes, dispatching, reports>>
  PROVE  ReviewInv' /\ Decision
<1> DEFINE f == [eps[i] EXCEPT !.status = "in_progress"]
<1>1. eps[i] \in Episode /\ scope \in Scope /\ eps[i].status \notin EpTerminal
      /\ eps[i].ws \in Workstreams
  BY EpisodeOf DEF StartMaker, MayStart, Open, Exists, ReviewInv, WorkInv
<1>2. Keeps(eps[i], f) /\ f.status = "in_progress"
  BY <1>1, StatusKept DEF Status
<1>3. scope' = [scope EXCEPT !.ws = eps[i].ws] /\ UNCHANGED flags
      /\ eps' = [eps EXCEPT ![i].status = "in_progress"]
  BY DEF StartMaker
<1>4. eps' = [eps EXCEPT ![i] = f]
  BY <1>3
<1>5. scope' \in Scope
  BY <1>1, <1>3 DEF Scope
<1> HIDE DEF f
<1> QED
  BY <1>2, <1>3, <1>4, <1>5, EpisodeSafe

LEMMA FinishMakerSafe ==
  ASSUME ReviewInv, NEW i \in Ids, FinishMaker(i), UNCHANGED <<bytes, dispatching, reports>>
  PROVE  ReviewInv' /\ Decision
<1>1. eps[i] \in Episode /\ eps' = [eps EXCEPT ![i] = Done(eps[i])] /\ UNCHANGED <<flags, scope>>
  BY EpisodeOf DEF FinishMaker
<1>2. Keeps(eps[i], Done(eps[i])) /\ Done(eps[i]).status = "done"
  BY <1>1 DEF Done, Keeps, Episode, Status, EpTerminal
<1> QED
  BY <1>1, <1>2, EpisodeSafe DEF ReviewInv, WorkInv

LEMMA RecordStatusSafe ==
  ASSUME ReviewInv, NEW i \in Ids, NEW st \in {"pending", "in_progress", "blocked"},
         RecordStatus(i, st), UNCHANGED <<bytes, dispatching, reports>>
  PROVE  ReviewInv' /\ Decision
<1> DEFINE f == [eps[i] EXCEPT !.status = st]
<1>1. eps[i] \in Episode /\ eps[i].status \notin EpTerminal
      /\ eps' = [eps EXCEPT ![i].status = st] /\ UNCHANGED <<flags, scope>>
  BY EpisodeOf DEF RecordStatus, MayRecord
<1>2. Keeps(eps[i], f) /\ f.status = st
  BY <1>1, StatusKept DEF Status
<1>3. eps' = [eps EXCEPT ![i] = f]
  BY <1>1
<1> HIDE DEF f
<1> QED
  BY <1>1, <1>2, <1>3, EpisodeSafe DEF ReviewInv, WorkInv

LEMMA BlockReviewSafe ==
  ASSUME ReviewInv, NEW i \in Ids, BlockReview(i), UNCHANGED <<bytes, dispatching, reports>>
  PROVE  ReviewInv' /\ Decision
<1> DEFINE f == [eps[i] EXCEPT !.status = "blocked"]
<1>1. eps[i] \in Episode /\ eps[i].status = "in_progress"
      /\ eps' = [eps EXCEPT ![i].status = "blocked"] /\ UNCHANGED <<flags, scope>>
  BY EpisodeOf DEF BlockReview
<1>2. Keeps(eps[i], f) /\ f.status = "blocked"
  BY <1>1, StatusKept DEF Status, EpTerminal
<1>3. eps' = [eps EXCEPT ![i] = f]
  BY <1>1
<1> HIDE DEF f
<1> QED
  BY <1>1, <1>2, <1>3, EpisodeSafe DEF ReviewInv, WorkInv

LEMMA AbandonEpisodeSafe ==
  ASSUME ReviewInv, NEW i \in Ids, NEW failed \in BOOLEAN,
         AbandonEpisode(i, failed), UNCHANGED <<bytes, dispatching, reports>>
  PROVE  ReviewInv' /\ Decision
<1> DEFINE f == [eps[i] EXCEPT !.status = "abandoned", !.human = TRUE, !.failed = failed]
<1>1. eps[i] \in Episode /\ UNCHANGED <<flags, scope>>
      /\ eps' = [eps EXCEPT ![i].status = "abandoned", ![i].human = TRUE, ![i].failed = failed]
  BY EpisodeOf DEF AbandonEpisode
<1>2. Keeps(eps[i], f) /\ f.status = "abandoned"
  BY <1>1 DEF Keeps, Episode, Status, EpTerminal
<1>3. eps' = [eps EXCEPT ![i] = f]
  BY <1>1 DEF ReviewInv, WorkInv
<1> HIDE DEF f
<1> QED
  BY <1>1, <1>2, <1>3, EpisodeSafe DEF ReviewInv, WorkInv

LEMMA AckSafe ==
  ASSUME ReviewInv, NEW i \in Ids, NEW actor \in {"human", "agent"},
         Ack(i, actor), UNCHANGED <<bytes, dispatching, reports>>
  PROVE  ReviewInv' /\ Decision
<1> DEFINE f == IF actor = "human" THEN [eps[i] EXCEPT !.human = TRUE]
                ELSE [eps[i] EXCEPT !.agent = TRUE]
<1>1. eps[i] \in Episode /\ UNCHANGED <<flags, scope>> /\ eps' = [eps EXCEPT ![i] = f]
  BY EpisodeOf DEF Ack
<1>2. Keeps(eps[i], f) /\ f.status = eps[i].status
  BY <1>1 DEF Keeps, Episode
<1> HIDE DEF f
<1> QED
  BY <1>1, <1>2, EpisodeSafe DEF ReviewInv, WorkInv

-----------------------------------------------------------------------------
(* A new episode is appended.                                                *)
LEMMA Appended ==
  ASSUME ReviewInv, NEW e \in Episode, eps' = Append(eps, e)
  PROVE  /\ eps' \in Seq(Episode) /\ Len(eps') = Len(eps) + 1
         /\ \A i \in Ids : i \in Ids' /\ eps'[i] = eps[i]
         /\ Len(eps') \notin Ids /\ eps'[Len(eps')] = e
         /\ Ids' = Ids \cup {Len(eps')}
         /\ \A m : Checkable(m) => Checkable(m)'
         /\ Checkers' = IF e.role = "checker" THEN Checkers \cup {Len(eps')} ELSE Checkers
<1>1. eps \in Seq(Episode)
  BY DEF ReviewInv, WorkInv
<1>2. /\ eps' \in Seq(Episode) /\ Len(eps') = Len(eps) + 1
      /\ \A i \in Ids : i \in Ids' /\ eps'[i] = eps[i]
      /\ Len(eps') \notin Ids /\ eps'[Len(eps')] = e
      /\ Ids' = Ids \cup {Len(eps')}
  BY <1>1 DEF Ids
<1>3. \A m : Checkable(m) => Checkable(m)'
  BY <1>2 DEF Checkable, Makers
<1>4. Checkers' = IF e.role = "checker" THEN Checkers \cup {Len(eps')} ELSE Checkers
  BY <1>2 DEF Checkers
<1> QED
  BY <1>2, <1>3, <1>4

LEMMA AppendSafe ==
  ASSUME ReviewInv, NEW e \in Episode, eps' = Append(eps, e),
         e.role = "checker" => e.flags = flags /\ Checkable(e.target) /\ e.ws \in Workstreams,
         UNCHANGED <<flags, reports, scope, bytes>>, dispatching' \in {dispatching, None}
  PROVE  ReviewInv' /\ Decision
<1>1. /\ eps' \in Seq(Episode) /\ \A i \in Ids : i \in Ids' /\ eps'[i] = eps[i]
      /\ eps'[Len(eps')] = e /\ \A m : Checkable(m) => Checkable(m)'
      /\ Checkers' = IF e.role = "checker" THEN Checkers \cup {Len(eps')} ELSE Checkers
      /\ Checkers \subseteq Ids
  BY Appended DEF Checkers
<1>2. ChecksBound'
  BY <1>1 DEF ReviewInv, WorkInv, ChecksBound
<1>3. DispatchBound'
  BY <1>1 DEF ReviewInv, WorkInv, DispatchBound
<1>4. ClaimsKnown'
  BY <1>1 DEF ReviewInv, WorkInv, ClaimsKnown
<1>5. ActiveReviewsUseCurrentFlags'
  BY <1>1 DEF ReviewInv, ActiveReviewsUseCurrentFlags
<1>6. Undecided
  BY <1>1 DEF Undecided
<1> QED
  BY <1>1, <1>2, <1>3, <1>4, <1>5, <1>6, UndecidedDecides DEF ReviewInv, WorkInv

LEMMA NewEpisodeTyped ==
  ASSUME ReviewInv, NEW role \in {"maker", "checker"}, NEW w \in Workstreams \cup {None},
         NEW p \in Points, NEW target \in Nat, NEW proof \in BOOLEAN
  PROVE  /\ NewEpisode(role, w, p, target, proof) \in Episode
         /\ NewEpisode(role, w, p, target, proof).role = role
         /\ NewEpisode(role, w, p, target, proof).ws = w
         /\ NewEpisode(role, w, p, target, proof).target = target
         /\ NewEpisode(role, w, p, target, proof).flags = flags
<1> DEFINE fix == \E c \in Judged : eps[c].status = "rejected" /\ eps[c].ws = w /\ eps[c].point = p
<1>1. fix \in BOOLEAN
  OBVIOUS
<1>2. flags \in Nat /\ "pending" \in Status
  BY DEF ReviewInv, WorkInv, Status
<1>3. NewEpisode(role, w, p, target, proof) =
        [role |-> role, fix |-> fix, ws |-> w, point |-> p, target |-> target, proof |-> proof,
         status |-> "pending", human |-> FALSE, agent |-> FALSE, claim |-> None,
         flags |-> flags, failed |-> FALSE, report |-> None]
  BY DEF NewEpisode
<1> HIDE DEF fix
<1> QED
  BY <1>1, <1>2, <1>3 DEF Episode

LEMMA NewMakerSafe ==
  ASSUME ReviewInv, NEW w \in Workstreams \cup {None}, NEW p \in Points, NEW proof \in BOOLEAN,
         NewMaker(w, p, proof), UNCHANGED <<bytes, dispatching, reports>>
  PROVE  ReviewInv' /\ Decision
<1>1. /\ eps' = Append(eps, NewEpisode("maker", w, p, 0, proof)) /\ UNCHANGED <<scope, flags>>
  BY DEF NewMaker
<1>2. /\ NewEpisode("maker", w, p, 0, proof) \in Episode
      /\ NewEpisode("maker", w, p, 0, proof).role = "maker"
  <2>1. "maker" \in {"maker", "checker"} /\ 0 \in Nat
    OBVIOUS
  <2> QED
    BY <2>1, NewEpisodeTyped
<1> QED
  BY <1>1, <1>2, AppendSafe

LEMMA CommitDispatchSafe ==
  ASSUME ReviewInv, CommitDispatch
  PROVE  ReviewInv' /\ Decision
<1> DEFINE m == dispatching.target
           n == NewEpisode("checker", eps[m].ws, eps[m].point, m, FALSE)
           e == [n EXCEPT !.flags = dispatching.flags]
<1>1. /\ dispatching # None /\ dispatching.flags = flags /\ dispatching' = None
      /\ eps' = Append(eps, e) /\ UNCHANGED <<scope, flags, bytes, reports>>
  BY DEF CommitDispatch, DispatchStands
<1>2. m \in Nat /\ m \in Ids /\ Checkable(m) /\ eps[m].ws \in Workstreams /\ flags \in Nat
  BY <1>1 DEF ReviewInv, WorkInv, DispatchBound, Checkable, Makers
<1>3. eps[m].point \in Points
  BY <1>2, EpisodeOf DEF Episode
<1> HIDE DEF m
<1>4. n \in Episode /\ n.role = "checker" /\ n.ws = eps[m].ws /\ n.target = m
  <2>1. /\ "checker" \in {"maker", "checker"} /\ FALSE \in BOOLEAN
        /\ eps[m].ws \in Workstreams \cup {None}
    BY <1>2
  <2>2. ASSUME NEW b \in BOOLEAN
        PROVE  LET c == NewEpisode("checker", eps[m].ws, eps[m].point, m, b)
               IN  c \in Episode /\ c.role = "checker" /\ c.ws = eps[m].ws /\ c.target = m
    BY <1>2, <1>3, <2>1, NewEpisodeTyped
  <2> QED
    BY <2>1, <2>2, Zenon
<1> HIDE DEF n
<1>5. e \in Episode /\ e.role = "checker" /\ e.ws = eps[m].ws /\ e.target = m /\ e.flags = flags
  BY <1>1, <1>2, <1>4 DEF Episode
<1> HIDE DEF e
<1>6. Checkable(e.target) /\ e.ws \in Workstreams
  BY <1>2, <1>5
<1> QED
  BY <1>1, <1>5, <1>6, AppendSafe

-----------------------------------------------------------------------------
(* A dispatch that begins or is dropped.                                     *)
LEMMA StartDispatchSafe ==
  ASSUME ReviewInv, NEW w \in Workstreams, NEW p \in Points, StartDispatch(w, p)
  PROVE  ReviewInv' /\ Decision
<1> DEFINE m == Latest(Eligible(w, p))
<1>1. /\ UNCHANGED <<eps, scope, flags, bytes, reports>>
      /\ dispatching' = [target |-> m, flags |-> flags, gen |-> scope.gen]
      /\ Eligible(w, p) # {}
  BY DEF StartDispatch, MayDispatch, run
<1>2. Eligible(w, p) \in SUBSET (1..Len(eps)) /\ Len(eps) \in Nat
  BY DEF Eligible, DoneMakers, Makers, Ids, ReviewInv, WorkInv
<1>3. m \in Eligible(w, p)
  BY <1>1, <1>2, LatestIn
<1>4. Checkable(m) /\ m \in Nat
  BY <1>3 DEF Checkable, Eligible, DoneMakers, Makers, Ids
<1> HIDE DEF m
<1>5. KeepsEpisodes /\ Undecided
  BY <1>1, Same DEF ReviewInv, WorkInv
<1>6. \A k : Checkable(k)' <=> Checkable(k)
  BY <1>1 DEF Checkable, Makers, Ids
<1>7. DispatchBound'
  <2>1. flags \in Nat /\ scope.gen \in Nat
    BY DEF ReviewInv, WorkInv, Scope
  <2>2. dispatching' \in [target : Nat, flags : Nat, gen : Nat] /\ dispatching'.target = m
    BY <1>1, <1>4, <2>1
  <2>3. Checkable(dispatching.target)'
    BY <1>4, <1>6, <2>2
  <2> QED
    BY <2>2, <2>3 DEF DispatchBound
<1>8. ChecksBound' /\ ClaimsKnown' /\ ActiveReviewsUseCurrentFlags'
  BY <1>1 DEF ReviewInv, WorkInv, ChecksBound, Checkable, ClaimsKnown, ActiveReviewsUseCurrentFlags,
     Checkers, Makers, Ids
<1> QED
  BY <1>1, <1>5, <1>7, <1>8, UndecidedDecides DEF ReviewInv, WorkInv

LEMMA DropDispatchSafe == ASSUME ReviewInv, DropDispatch PROVE ReviewInv' /\ Decision
  BY ElsewhereSafe DEF DropDispatch, run, ReviewInv, WorkInv

-----------------------------------------------------------------------------
(* A claim is the last one of its checker, and the highest.                  *)
LEMMA ClaimReviewSafe ==
  ASSUME ReviewInv, NEW c \in Ids, ClaimReview(c)
  PROVE  ReviewInv' /\ Decision
<1> DEFINE n     == Cardinality(reports)
           claim == ClaimNow(c, n + 1)
           f     == [eps[c] EXCEPT !.status = "in_progress", !.claim = claim]
<1>1. /\ eps' = [eps EXCEPT ![c].status = "in_progress", ![c].claim = claim]
      /\ reports' = reports \cup {claim} /\ UNCHANGED <<scope, flags, bytes, dispatching>>
      /\ c \in Checkers /\ eps[c].status = "pending"
  BY DEF ClaimReview
<1>2. /\ eps[c] \in Episode /\ eps \in Seq(Episode) /\ eps[c].ws \in Workstreams
      /\ IsFiniteSet(reports) /\ n \in Nat /\ scope.gen \in Nat /\ bytes \in [Workstreams -> Nat]
  BY <1>1, EpisodeOf, FS_CardinalityType DEF ReviewInv, WorkInv, ChecksBound, Scope
<1>3. claim \in Claim /\ claim.attempt = n + 1 /\ claim.checker = c
  BY <1>2 DEF ClaimNow, Claim, Ids
<1>4. claim # None
  BY <1>3, ClaimAssumption DEF Claim
<1>5. IsFiniteSet(reports') /\ Cardinality(reports') = n + 1
  <2>1. claim \notin reports
    BY <1>2, <1>3 DEF ReviewInv, WorkInv, ClaimsKnown
  <2> QED
    BY <1>1, <1>2, <2>1, FS_AddElement
<1>6. eps' = [eps EXCEPT ![c] = f]
  BY <1>1, <1>2
<1> HIDE DEF n, claim
<1>7. /\ f \in Episode /\ f.role = eps[c].role /\ f.ws = eps[c].ws /\ f.target = eps[c].target
      /\ f.claim = claim /\ f.flags = eps[c].flags /\ f.status = "in_progress"
  BY <1>2, <1>3 DEF Episode, Status
<1> HIDE DEF f
<1>8. /\ eps' \in Seq(Episode) /\ Ids' = Ids /\ eps'[c] = f
      /\ \A i \in Ids \ {c} : eps'[i] = eps[i]
  BY <1>2, <1>6, <1>7 DEF Ids
<1>9. Checkers' = Checkers /\ Makers' = Makers
  BY <1>7, <1>8 DEF Checkers, Makers
<1>10. \A m : Checkable(m)' <=> Checkable(m)
  BY <1>7, <1>8, <1>9 DEF Checkable, Makers
<1>11. ChecksBound' /\ DispatchBound'
  BY <1>1, <1>7, <1>8, <1>9, <1>10, ZenonT(60) DEF ReviewInv, WorkInv, ChecksBound, DispatchBound, Checkers
<1>12. ClaimsKnown'
  <2> SUFFICES ASSUME NEW r \in reports'
               PROVE  /\ r.attempt <= n + 1
                      /\ r.checker \in Checkers /\ eps'[r.checker].claim \in reports'
                      /\ r.attempt <= eps'[r.checker].claim.attempt
    <3>1. \A q, r \in reports : q.attempt = r.attempt => q = r
      BY DEF ReviewInv, WorkInv, ClaimsKnown
    <3>2. \A q \in reports : q.attempt <= n /\ q.attempt \in Nat
      BY <1>2 DEF ReviewInv, WorkInv, ClaimsKnown, n, Claim
    <3>3. \A q, r \in reports' : q.attempt = r.attempt => q = r
      BY <1>1, <1>2, <1>3, <3>1, <3>2
    <3> QED
      BY <1>5, <1>9, <3>3 DEF ClaimsKnown
  <2>1. CASE r = claim
    BY <1>1, <1>2, <1>3, <1>4, <1>7, <1>8, <2>1
  <2>2. CASE r \in reports
    <3>1. /\ r.attempt <= n /\ r.checker \in Checkers /\ eps[r.checker].claim \in reports
          /\ r.attempt <= eps[r.checker].claim.attempt /\ r.attempt \in Nat
      BY <2>2 DEF ReviewInv, WorkInv, ClaimsKnown, n, Claim
    <3>2. CASE r.checker = c
      BY <1>1, <1>2, <1>3, <1>4, <1>7, <1>8, <3>1, <3>2
    <3>3. CASE r.checker # c
      <4>1. eps'[r.checker] = eps[r.checker]
        BY <1>8, <3>1, <3>3 DEF Checkers
      <4>2. eps[r.checker].claim \in reports' /\ r.attempt <= n + 1
        BY <1>1, <1>2, <3>1
      <4> QED
        BY <3>1, <4>1, <4>2
    <3> QED
      BY <3>2, <3>3
  <2> QED
    BY <1>1, <2>1, <2>2
<1>13. ActiveReviewsUseCurrentFlags'
  BY <1>1, <1>7, <1>8, <1>9, ZenonT(60) DEF ReviewInv, ActiveReviewsUseCurrentFlags, Checkers, EpTerminal
<1>14. Undecided
  BY <1>7, <1>8 DEF Undecided
<1> QED
  BY <1>1, <1>3, <1>5, <1>8, <1>11, <1>12, <1>13, <1>14, UndecidedDecides DEF ReviewInv, WorkInv

(* What an outcome writes to the checker, and to its maker.                  *)
LEMMA Credited ==
  ASSUME NEW e \in Episode, NEW ag \in BOOLEAN
  PROVE  LET g == [e EXCEPT !.agent = ag]
         IN  /\ g \in Episode /\ g.role = e.role /\ g.ws = e.ws /\ g.point = e.point
             /\ g.target = e.target /\ g.status = e.status /\ g.human = e.human /\ g.agent = ag
             /\ g.claim = e.claim /\ g.flags = e.flags
  BY DEF Episode

(* The outcome of a review, which is written to the checker and its maker.   *)
LEMMA CommitWrites ==
  ASSUME ReviewInv, NEW c \in Checkers, NEW verdict, NEW report \in Claim \cup {None},
         Commit(c, verdict, report), eps[c].status \notin EpTerminal,
         UNCHANGED <<bytes, dispatching, reports>>
  PROVE  /\ ReviewInv' /\ eps'[c].report = report
         /\ \A i \in Ids \ {c} : eps'[i].status = eps[i].status
<1> DEFINE m  == eps[c].target
           st == IF verdict = "APPROVE" THEN "approved" ELSE "rejected"
           ag == eps[m].agent \/ (verdict = "APPROVE" /\ ~eps[m].human /\ ~eps[m].agent)
           f  == [eps[c] EXCEPT !.status = st, !.report = report]
           g  == [eps[m] EXCEPT !.agent = ag]
<1>1. /\ eps \in Seq(Episode) /\ eps[c] \in Episode /\ eps[m] \in Episode
      /\ c \in Ids /\ m \in Ids /\ c # m
  BY EpisodeOf DEF ReviewInv, WorkInv, ChecksBound, Checkable, Checkers, Makers
<1>2. /\ UNCHANGED <<scope, flags>>
      /\ eps' = [eps EXCEPT ![c].status = st, ![c].report = report, ![m].agent = ag]
  BY <1>1 DEF Commit, Ids
<1>3. ag \in BOOLEAN /\ st \in Status /\ st \in {"approved", "rejected"}
  BY DEF Status, EpTerminal
<1> HIDE DEF ag, st
<1>4. Keeps(eps[c], f) /\ f.report = report
  <2>0. f = [eps[c] EXCEPT !.status = st, !.report = report]
    OBVIOUS
  <2> HIDE DEF f
  <2>1. /\ f \in Episode /\ f.role = eps[c].role /\ f.ws = eps[c].ws /\ f.target = eps[c].target
        /\ f.status = st /\ f.report = report /\ f.claim = eps[c].claim /\ f.flags = eps[c].flags
    BY <1>1, <1>3, <2>0 DEF Episode
  <2> QED
    BY <1>3, <2>1 DEF Keeps, EpTerminal
<1>5. Keeps(eps[m], g) /\ g.status = eps[m].status
  BY <1>1, <1>3, Credited DEF Keeps
<1>6. f \in Episode /\ g \in Episode
  BY <1>4, <1>5 DEF Keeps
<1>7. /\ eps' \in Seq(Episode) /\ Len(eps') = Len(eps) /\ eps'[c] = f /\ eps'[m] = g
      /\ \A i \in Ids \ {c, m} : eps'[i] = eps[i]
  <2>1. eps' = [[eps EXCEPT ![c] = f] EXCEPT ![m] = g]
    BY <1>1, <1>2 DEF Ids
  <2> HIDE DEF f, g, m
  <2> QED
    BY <1>1, <1>6, <2>1 DEF Ids
<1>8. \A i \in Ids \ {c, m} : Keeps(eps[i], eps'[i])
  BY <1>1, <1>7 DEF Keeps, Ids
<1>9. KeepsEpisodes
  BY <1>1, <1>4, <1>5, <1>7, <1>8 DEF KeepsEpisodes
<1>10. ReviewInv'
  BY <1>2, <1>9, KeepsInv DEF ReviewInv, WorkInv
<1> QED
  BY <1>4, <1>5, <1>7, <1>10

LEMMA RecordReviewSafe ==
  ASSUME ReviewInv, NEW c \in Ids, NEW verdict, RecordReview(c, verdict),
         UNCHANGED <<bytes, dispatching, reports>>
  PROVE  ReviewInv' /\ Decision
<1>1. /\ c \in Checkers /\ eps[c].claim = None /\ Commit(c, verdict, None)
      /\ eps[c].status \notin EpTerminal
  BY DEF RecordReview, MayJudge, Unclaimed, EpTerminal
<1>2. ReviewInv' /\ \A i \in Ids \ {c} : eps'[i].status = eps[i].status
  BY <1>1, CommitWrites
<1> QED
  BY <1>1, <1>2 DEF Decision, Checkers

LEMMA ImportReviewSafe ==
  ASSUME ReviewInv, NEW r \in reports, NEW verdict, ImportReview(r, verdict),
         UNCHANGED <<bytes, dispatching, reports>>
  PROVE  ReviewInv' /\ Decision
<1> DEFINE c == r.checker
<1>1. /\ c \in Checkers /\ Evidence(c, r) /\ Commit(c, verdict, r) /\ eps[c].status \notin EpTerminal
      /\ r \in Claim
  BY DEF ImportReview, MayJudge, EpTerminal, ReviewInv, WorkInv
<1>2. /\ ReviewInv' /\ eps'[c].report = r
      /\ \A i \in Ids \ {c} : eps'[i].status = eps[i].status
  BY <1>1, CommitWrites
<1>3. /\ eps[c].claim \in reports /\ eps[c].claim.attempt = r.attempt
      /\ \A q \in reports : q.checker = c => q.attempt <= r.attempt
  BY <1>1 DEF ReviewInv, WorkInv, ClaimsKnown, Evidence
<1>4. eps[c].claim = r
  BY <1>3 DEF ReviewInv, WorkInv, ClaimsKnown
<1>5. r.gen = scope.gen /\ r.bytes = bytes[eps[c].ws]
  BY <1>1, <1>4 DEF Evidence, ClaimNow
<1> QED
  BY <1>2, <1>3, <1>5 DEF Decision, Checkers

(* New flags are asked for when no review is active.                         *)
LEMMA ConfigureReviewSafe ==
  ASSUME ReviewInv, NEW c \in Ids, ConfigureReview(c), UNCHANGED <<bytes, dispatching, reports>>
  PROVE  ReviewInv' /\ Decision
<1> DEFINE f == [eps[c] EXCEPT !.failed = FALSE]
<1>1. /\ eps \in Seq(Episode) /\ eps[c] \in Episode /\ flags \in Nat
      /\ eps' = [eps EXCEPT ![c].failed = FALSE] /\ flags' = flags + 1 /\ UNCHANGED scope
      /\ \A d \in Checkers : eps[d].status \in EpTerminal
  BY EpisodeOf DEF ConfigureReview, NoneActive, ReviewInv, WorkInv
<1>2. Keeps(eps[c], f) /\ f.status = eps[c].status
  BY <1>1 DEF Keeps, Episode
<1>3. eps' = [eps EXCEPT ![c] = f]
  BY <1>1
<1> HIDE DEF f
<1>4. KeepsEpisodes /\ eps'[c] = f /\ \A j \in Ids \ {c} : eps'[j] = eps[j]
  BY <1>1, <1>2, <1>3, OneChanged
<1>5. \A i \in Ids : eps'[i].status = eps[i].status
  BY <1>2, <1>4
<1>6. /\ Ids' = Ids /\ Checkers' = Checkers /\ ChecksBound'
      /\ \A m : Checkable(m)' <=> Checkable(m)
  BY <1>4, KeepsChecks
<1>7. DispatchBound'
  BY <1>6 DEF ReviewInv, WorkInv, DispatchBound
<1>8. ClaimsKnown'
  BY <1>4, <1>6 DEF ReviewInv, WorkInv, ClaimsKnown, KeepsEpisodes, Keeps, Checkers
<1>9. ActiveReviewsUseCurrentFlags'
  BY <1>1, <1>5, <1>6 DEF ActiveReviewsUseCurrentFlags, Checkers
<1>10. Undecided
  BY <1>5 DEF Undecided
<1> QED
  BY <1>1, <1>4, <1>6, <1>7, <1>8, <1>9, <1>10, UndecidedDecides
     DEF ReviewInv, WorkInv, KeepsEpisodes

-----------------------------------------------------------------------------
LEMMA OrdinarySafe ==
  ASSUME ReviewInv, Ordinary, UNCHANGED <<bytes, dispatching, reports>>
  PROVE  ReviewInv' /\ Decision
<1>1. ASSUME NEW w \in Workstreams, NEW final,
             NewWorkstream(w) \/ MergeWorkstream(w) \/ CloseWorkstream(w, final)
      PROVE  ReviewInv' /\ Decision
  BY <1>1, StreamsSafe
<1>2. ASSUME NEW w \in Workstreams, NEW p \in Points, NewMaker(w, p, TRUE)
      PROVE  ReviewInv' /\ Decision
  BY <1>2, NewMakerSafe
<1>3. ASSUME NEW i \in Ids, StartMaker(i) \/ FinishMaker(i) \/ BlockReview(i) \/ ConfigureReview(i)
      PROVE  ReviewInv' /\ Decision
  BY <1>3, StartMakerSafe, FinishMakerSafe, BlockReviewSafe, ConfigureReviewSafe
<1>4. ASSUME NEW i \in Ids, NEW verdict \in Verdicts, RecordReview(i, verdict)
      PROVE  ReviewInv' /\ Decision
  BY <1>4, RecordReviewSafe
<1>5. ASSUME NEW r \in reports, NEW verdict \in Verdicts, ImportReview(r, verdict)
      PROVE  ReviewInv' /\ Decision
  BY <1>5, ImportReviewSafe
<1>6. ASSUME NEW final, FinishRun(final) \/ \E keep \in BOOLEAN : NextSession(keep)
      PROVE  ReviewInv' /\ Decision
  BY <1>6, SessionsSafe
<1> QED
  BY <1>1, <1>2, <1>3, <1>4, <1>5, <1>6 DEF Ordinary

LEMMA ExtraSafe ==
  ASSUME ReviewInv, Extra, UNCHANGED <<bytes, dispatching, reports>>
  PROVE  ReviewInv' /\ Decision
<1>1. ASSUME NEW w \in Workstreams, NEW on \in BOOLEAN, SetActive(w, on)
      PROVE  ReviewInv' /\ Decision
  BY <1>1, StreamsSafe
<1>2. ASSUME NEW w \in Workstreams \cup {None}, NEW p \in Points, NEW proof \in BOOLEAN,
             NewMaker(w, p, proof)
      PROVE  ReviewInv' /\ Decision
  BY <1>2, NewMakerSafe
<1>3. ASSUME NEW i \in Ids, NEW st \in {"pending", "in_progress", "blocked"}, RecordStatus(i, st)
      PROVE  ReviewInv' /\ Decision
  BY <1>3, RecordStatusSafe
<1>4. ASSUME NEW i \in Ids, NEW failed \in BOOLEAN, AbandonEpisode(i, failed)
      PROVE  ReviewInv' /\ Decision
  BY <1>4, AbandonEpisodeSafe
<1>5. ASSUME NEW i \in Ids, NEW actor \in {"human", "agent"}, Ack(i, actor)
      PROVE  ReviewInv' /\ Decision
  BY <1>5, AckSafe
<1>6. ASSUME PauseRun \/ ResetBreaker \/ FinishRun("stopped")
      PROVE  ReviewInv' /\ Decision
  BY <1>6, SessionsSafe
<1> QED
  BY <1>1, <1>2, <1>3, <1>4, <1>5, <1>6 DEF Extra

LEMMA NextReview == ReviewInv /\ [Next]_vars => ReviewInv' /\ [Decision]_vars
<1> SUFFICES ASSUME ReviewInv, [Next]_vars PROVE ReviewInv' /\ [Decision]_vars
  OBVIOUS
<1>1. CASE UNCHANGED vars
  BY <1>1, ElsewhereSafe DEF vars, run, ReviewInv, WorkInv
<1>2. CASE Ordinary /\ UNCHANGED <<bytes, dispatching, reports, extras>>
  BY <1>2, OrdinarySafe
<1>3. CASE Extra /\ UNCHANGED <<bytes, dispatching, reports>>
  BY <1>3, ExtraSafe
<1>4. ASSUME NEW w \in Workstreams, Edit(w), UNCHANGED <<dispatching, reports>>
      PROVE  ReviewInv' /\ Decision
  BY <1>4, EditSafe
<1>5. ASSUME NEW w \in Workstreams, NEW p \in Points, StartDispatch(w, p)
      PROVE  ReviewInv' /\ Decision
  BY <1>5, StartDispatchSafe
<1>6. CASE CommitDispatch \/ DropDispatch
  BY <1>6, CommitDispatchSafe, DropDispatchSafe
<1>7. ASSUME NEW c \in Ids, ClaimReview(c)
      PROVE  ReviewInv' /\ Decision
  BY <1>7, ClaimReviewSafe
<1> QED
  BY <1>1, <1>2, <1>3, <1>4, <1>5, <1>6, <1>7 DEF Next

(* No review goes on by flags that were replaced, however dispatches,        *)
(* reconfigurations and lost reviewers interleave.                           *)
THEOREM ReviewsUseCurrentFlags == Spec => []ActiveReviewsUseCurrentFlags
<1>1. ReviewInv => ActiveReviewsUseCurrentFlags
  BY DEF ReviewInv
<1> QED
  BY InitReview, NextReview, <1>1, PTL DEF Spec

(* However resets, lost reviewers and further claims come between, a claimed *)
(* review is decided by the report of the last claim made of it, by the      *)
(* session of that claim, and on the artifacts that were claimed.            *)
THEOREM ReviewsDecideThemselves == Spec => ClaimDecidesItself
<1>1. ReviewInv /\ [Next]_vars => [Decision]_vars
  BY NextReview
<1> QED
  BY InitReview, NextReview, <1>1, PTL DEF Spec, ClaimDecidesItself, Decision

-----------------------------------------------------------------------------
(* The counters of a sequence of episodes, one counted set each.             *)
Counted(e)    == e.role = "maker" /\ e.status # "abandoned"
CountedSet(s) == {i \in 1..Len(s) : Counted(s[i])}
HumanSet(s)   == {i \in 1..Len(s) : Counted(s[i]) /\ s[i].human}
AgentSet(s)   == {i \in 1..Len(s) : Counted(s[i]) /\ s[i].agent}

CountsOf(s) == [total |-> Cardinality(CountedSet(s)),
                human |-> Cardinality(HumanSet(s)),
                agent |-> Cardinality(AgentSet(s))]

Difference(f, e) == Flagged(f) - Flagged(e)

(* What the counters become when an episode e is rewritten to f.             *)
Recounted(c, e, f) ==
  [total |-> c.total + Difference(Counted(f), Counted(e)),
   human |-> c.human + Difference(Counted(f) /\ f.human, Counted(e) /\ e.human),
   agent |-> c.agent + Difference(Counted(f) /\ f.agent, Counted(e) /\ e.agent)]

LEMMA CountOne ==
  ASSUME NEW n \in Nat, NEW S \in SUBSET (1..n), NEW T, NEW i \in 1..n, NEW b \in BOOLEAN,
         T = IF b THEN S \cup {i} ELSE S \ {i}
  PROVE  Cardinality(T) = Cardinality(S) + Difference(b, i \in S)
<1>1. IsFiniteSet(S) /\ Cardinality(S) \in Nat
  <2>1. IsFiniteSet(1..n)
    BY FS_Interval
  <2> QED
    BY <2>1, FS_Subset, FS_CardinalityType
<1>2. /\ Cardinality(S \cup {i}) = IF i \in S THEN Cardinality(S) ELSE Cardinality(S) + 1
      /\ Cardinality(S \ {i}) = IF i \in S THEN Cardinality(S) - 1 ELSE Cardinality(S)
  BY <1>1, FS_AddElement, FS_RemoveElement
<1> QED
  BY <1>1, <1>2 DEF Difference, Flagged

LEMMA CountsTyped ==
  ASSUME NEW s \in Seq(Episode)
  PROVE  CountsOf(s) \in [total : Nat, human : Nat, agent : Nat]
<1>1. IsFiniteSet(1..Len(s))
  BY FS_Interval
<1>2. \A T \in SUBSET (1..Len(s)) : Cardinality(T) \in Nat
  BY <1>1, FS_Subset, FS_CardinalityType
<1>3. /\ CountedSet(s) \in SUBSET (1..Len(s)) /\ HumanSet(s) \in SUBSET (1..Len(s))
      /\ AgentSet(s) \in SUBSET (1..Len(s))
  BY DEF CountedSet, HumanSet, AgentSet
<1> QED
  BY <1>2, <1>3 DEF CountsOf

LEMMA CountsOne ==
  ASSUME NEW s \in Seq(Episode), NEW i \in 1..Len(s), NEW f \in Episode
  PROVE  CountsOf([s EXCEPT ![i] = f]) = Recounted(CountsOf(s), s[i], f)
<1> DEFINE t == [s EXCEPT ![i] = f]
<1>1. /\ t \in Seq(Episode) /\ Len(t) = Len(s) /\ t[i] = f /\ Len(s) \in Nat
      /\ \A j \in 1..Len(s) : j # i => t[j] = s[j]
  OBVIOUS
<1> HIDE DEF t
<1>2. Counted(f) \in BOOLEAN /\ f.human \in BOOLEAN /\ f.agent \in BOOLEAN
  BY DEF Counted, Episode
<1>3. CountedSet(t) = IF Counted(f) THEN CountedSet(s) \cup {i} ELSE CountedSet(s) \ {i}
  BY <1>1 DEF CountedSet
<1>4. HumanSet(t) = IF Counted(f) /\ f.human THEN HumanSet(s) \cup {i} ELSE HumanSet(s) \ {i}
  BY <1>1 DEF HumanSet
<1>5. AgentSet(t) = IF Counted(f) /\ f.agent THEN AgentSet(s) \cup {i} ELSE AgentSet(s) \ {i}
  BY <1>1 DEF AgentSet
<1>6. /\ CountedSet(s) \in SUBSET (1..Len(s)) /\ (i \in CountedSet(s) <=> Counted(s[i]))
      /\ HumanSet(s) \in SUBSET (1..Len(s)) /\ (i \in HumanSet(s) <=> Counted(s[i]) /\ s[i].human)
      /\ AgentSet(s) \in SUBSET (1..Len(s)) /\ (i \in AgentSet(s) <=> Counted(s[i]) /\ s[i].agent)
  BY DEF CountedSet, HumanSet, AgentSet
<1>7. /\ Cardinality(CountedSet(t)) = Cardinality(CountedSet(s)) + Difference(Counted(f), Counted(s[i]))
      /\ Cardinality(HumanSet(t)) = Cardinality(HumanSet(s))
           + Difference(Counted(f) /\ f.human, Counted(s[i]) /\ s[i].human)
      /\ Cardinality(AgentSet(t)) = Cardinality(AgentSet(s))
           + Difference(Counted(f) /\ f.agent, Counted(s[i]) /\ s[i].agent)
  <2>1. Cardinality(CountedSet(t)) = Cardinality(CountedSet(s)) + Difference(Counted(f), i \in CountedSet(s))
    BY <1>1, <1>2, <1>3, <1>6, CountOne
  <2>2. Cardinality(HumanSet(t)) = Cardinality(HumanSet(s))
          + Difference(Counted(f) /\ f.human, i \in HumanSet(s))
    BY <1>1, <1>2, <1>4, <1>6, CountOne, SMTT(30)
  <2>3. Cardinality(AgentSet(t)) = Cardinality(AgentSet(s))
          + Difference(Counted(f) /\ f.agent, i \in AgentSet(s))
    BY <1>1, <1>2, <1>5, <1>6, CountOne, SMTT(30)
  <2> QED
    BY <1>6, <2>1, <2>2, <2>3 DEF Difference, Flagged
<1> QED
  BY <1>7 DEF CountsOf, Recounted, t

LEMMA CountsAppended ==
  ASSUME NEW s \in Seq(Episode), NEW e \in Episode, ~e.human, ~e.agent
  PROVE  CountsOf(Append(s, e)) = [CountsOf(s) EXCEPT !.total = @ + Flagged(Counted(e))]
<1> DEFINE t == Append(s, e)
           n == Len(s) + 1
<1>1. /\ t \in Seq(Episode) /\ Len(t) = n /\ t[n] = e /\ n \in Nat /\ n \in 1..n /\ Len(s) \in Nat
      /\ \A j \in 1..Len(s) : t[j] = s[j]
      /\ 1..n = 1..Len(s) \cup {n} /\ n \notin 1..Len(s)
  OBVIOUS
<1> HIDE DEF t, n
<1>2. Counted(e) \in BOOLEAN
  BY DEF Counted
<1>3. CountedSet(t) = IF Counted(e) THEN CountedSet(s) \cup {n} ELSE CountedSet(s) \ {n}
  BY <1>1 DEF CountedSet
<1>4. HumanSet(t) = HumanSet(s) /\ AgentSet(t) = AgentSet(s)
  BY <1>1 DEF HumanSet, AgentSet
<1>5. CountedSet(s) \in SUBSET (1..n) /\ n \notin CountedSet(s)
  BY <1>1 DEF CountedSet
<1>6. Cardinality(CountedSet(t)) = Cardinality(CountedSet(s)) + Difference(Counted(e), n \in CountedSet(s))
  BY <1>1, <1>2, <1>3, <1>5, CountOne, SMTT(30)
<1>7. Difference(Counted(e), n \in CountedSet(s)) = Flagged(Counted(e))
  BY <1>5 DEF Difference, Flagged
<1> QED
  BY <1>4, <1>6, <1>7 DEF CountsOf, t

-----------------------------------------------------------------------------
(* What is reviewed is done, so that it stays and its counters do.           *)
TargetsDone == /\ \A c \in Checkers : eps[eps[c].target].status = "done"
               /\ dispatching # None => eps[dispatching.target].status = "done"

CountInv == ReviewInv /\ TargetsDone /\ counts = CountsOf(eps)

LEMMA CountsAgreed == counts = CountsOf(eps) <=> CountersAgree
<1> DEFINE live == {m \in Makers : eps[m].status # "abandoned"}
<1>1. /\ live = CountedSet(eps)
      /\ {m \in live : eps[m].human} = HumanSet(eps)
      /\ {m \in live : eps[m].agent} = AgentSet(eps)
  BY DEF Makers, Ids, CountedSet, HumanSet, AgentSet, Counted
<1> HIDE DEF live
<1>2. CountersAgree <=> counts = [total |-> Cardinality(live),
                                  human |-> Cardinality({m \in live : eps[m].human}),
                                  agent |-> Cardinality({m \in live : eps[m].agent})]
  BY DEF CountersAgree, live
<1> QED
  BY <1>1, <1>2 DEF CountsOf

LEMMA TargetsKept ==
  ASSUME CountInv, dispatching' \in {dispatching, None},
         \A i \in Ids : /\ eps'[i].target = eps[i].target
                        /\ i \in Makers /\ eps[i].status = "done" => eps'[i].status = "done",
         \A c \in Checkers' \ Checkers : eps'[c].target \in Makers /\ eps[eps'[c].target].status = "done"
  PROVE  TargetsDone'
<1>1. ASSUME NEW c \in Checkers'
      PROVE  eps'[c].target \in Makers /\ eps[eps'[c].target].status = "done"
  <2>1. ASSUME c \in Checkers PROVE eps[c].target \in Makers /\ eps[eps[c].target].status = "done"
    BY <2>1 DEF CountInv, ReviewInv, WorkInv, ChecksBound, Checkable, TargetsDone
  <2> QED
    BY <2>1 DEF Checkers
<1>2. \A m \in Makers : eps[m].status = "done" => eps'[m].status = "done"
  BY DEF Makers
<1>3. dispatching' # None => eps'[dispatching'.target].status = "done"
  BY <1>2 DEF CountInv, ReviewInv, WorkInv, DispatchBound, Checkable, TargetsDone
<1> QED
  BY <1>1, <1>2, <1>3 DEF TargetsDone

LEMMA CountsKept ==
  ASSUME CountInv, ReviewInv', UNCHANGED <<eps, counts>>, dispatching' \in {dispatching, None}
  PROVE  CountInv'
<1>1. Checkers' = Checkers
  BY DEF Checkers, Ids
<1>2. TargetsDone'
  BY <1>1, TargetsKept
<1> QED
  BY <1>2 DEF CountInv

(* One episode is rewritten, and the counters follow.                        *)
LEMMA EpisodeCounts ==
  ASSUME CountInv, ReviewInv', NEW i \in Ids, NEW f \in Episode, f.role = eps[i].role,
         f.target = eps[i].target, i \in Makers /\ eps[i].status = "done" => f.status = "done",
         eps' = [eps EXCEPT ![i] = f], counts' = Recounted(counts, eps[i], f),
         UNCHANGED dispatching
  PROVE  CountInv'
<1>1. eps \in Seq(Episode) /\ i \in 1..Len(eps) /\ counts = CountsOf(eps)
  BY DEF CountInv, ReviewInv, WorkInv, Ids
<1>2. counts' = CountsOf(eps')
  BY <1>1, CountsOne
<1>3. /\ Ids' = Ids /\ eps'[i] = f /\ \A j \in Ids : j # i => eps'[j] = eps[j]
  BY <1>1 DEF Ids
<1>4. Checkers' = Checkers
  BY <1>3 DEF Checkers
<1>5. TargetsDone'
  BY <1>3, <1>4, TargetsKept
<1> QED
  BY <1>2, <1>5 DEF CountInv

(* Most rewritings are not counted.                                          *)
LEMMA NotRecounted ==
  ASSUME CountInv, NEW e, NEW f, Counted(e) <=> Counted(f),
         Counted(e) => f.human = e.human /\ f.agent = e.agent
  PROVE  Recounted(counts, e, f) = counts
<1>1. counts \in [total : Nat, human : Nat, agent : Nat]
  BY CountsTyped DEF CountInv, ReviewInv, WorkInv
<1>2. /\ Difference(Counted(f), Counted(e)) = 0
      /\ Difference(Counted(f) /\ f.human, Counted(e) /\ e.human) = 0
      /\ Difference(Counted(f) /\ f.agent, Counted(e) /\ e.agent) = 0
  BY DEF Difference, Flagged
<1> QED
  BY <1>1, <1>2 DEF Recounted

LEMMA UncountedWrite ==
  ASSUME CountInv, ReviewInv', NEW i \in Ids, NEW f \in Episode, f.role = eps[i].role,
         f.target = eps[i].target, i \in Makers /\ eps[i].status = "done" => f.status = "done",
         Counted(eps[i]) <=> Counted(f), f.human = eps[i].human, f.agent = eps[i].agent,
         eps' = [eps EXCEPT ![i] = f], UNCHANGED <<counts, dispatching>>
  PROVE  CountInv'
  BY NotRecounted, EpisodeCounts

LEMMA InitCounts == Init => CountInv
<1> SUFFICES ASSUME Init PROVE CountInv
  OBVIOUS
<1>1. CountedSet(eps) = {} /\ HumanSet(eps) = {} /\ AgentSet(eps) = {} /\ Checkers = {}
  BY DEF Init, CountedSet, HumanSet, AgentSet, Checkers, Ids
<1>2. Cardinality({}) = 0
  BY FS_EmptySet
<1>3. counts = CountsOf(eps)
  BY <1>1, <1>2 DEF CountsOf, Init
<1> QED
  BY <1>1, <1>3, InitReview DEF CountInv, TargetsDone, Init

-----------------------------------------------------------------------------
(* The steps.  ReviewInv' is known of each.                                  *)
LEMMA StatusCounts ==
  ASSUME CountInv, ReviewInv', UNCHANGED dispatching, NEW i \in Ids,
         \/ StartMaker(i) \/ BlockReview(i)
         \/ \E st \in {"pending", "in_progress", "blocked"} : RecordStatus(i, st)
  PROVE  CountInv'
<1>1. eps[i] \in Episode /\ eps \in Seq(Episode)
  BY EpisodeOf DEF CountInv, ReviewInv, WorkInv
<1>2. PICK st \in {"pending", "in_progress", "blocked"} :
        /\ eps' = [eps EXCEPT ![i].status = st] /\ UNCHANGED counts
        /\ eps[i].status \notin EpTerminal
  BY DEF StartMaker, BlockReview, RecordStatus, MayStart, MayRecord, EpTerminal
<1> DEFINE f == [eps[i] EXCEPT !.status = st]
<1>3. eps' = [eps EXCEPT ![i] = f]
  BY <1>1, <1>2
<1>4. /\ f \in Episode /\ f.role = eps[i].role /\ f.target = eps[i].target /\ f.status = st
      /\ f.human = eps[i].human /\ f.agent = eps[i].agent
  BY <1>1 DEF Episode, Status
<1> HIDE DEF f
<1>5. Counted(eps[i]) <=> Counted(f)
  BY <1>2, <1>4 DEF Counted, EpTerminal
<1> QED
  BY <1>2, <1>3, <1>4, <1>5, UncountedWrite DEF EpTerminal

LEMMA ConfigureCounts ==
  ASSUME CountInv, ReviewInv', UNCHANGED dispatching, NEW c \in Ids, ConfigureReview(c)
  PROVE  CountInv'
<1> DEFINE f == [eps[c] EXCEPT !.failed = FALSE]
<1>1. eps[c] \in Episode /\ eps' = [eps EXCEPT ![c] = f] /\ UNCHANGED counts
  BY EpisodeOf DEF CountInv, ConfigureReview
<1>2. /\ f \in Episode /\ f.role = eps[c].role /\ f.target = eps[c].target /\ f.status = eps[c].status
      /\ f.human = eps[c].human /\ f.agent = eps[c].agent
  BY <1>1 DEF Episode
<1> HIDE DEF f
<1> QED
  BY <1>1, <1>2, UncountedWrite DEF Counted

LEMMA ClaimCounts ==
  ASSUME CountInv, ReviewInv', NEW c \in Ids, ClaimReview(c)
  PROVE  CountInv'
<1> DEFINE claim == ClaimNow(c, Cardinality(reports) + 1)
           f     == [eps[c] EXCEPT !.status = "in_progress", !.claim = claim]
<1>1. /\ eps[c] \in Episode /\ eps \in Seq(Episode) /\ c \in Checkers /\ c \notin Makers
      /\ eps' = [eps EXCEPT ![c].status = "in_progress", ![c].claim = claim]
      /\ UNCHANGED <<counts, dispatching>>
  BY EpisodeOf DEF CountInv, ReviewInv, WorkInv, ClaimReview, Checkers, Makers
<1> HIDE DEF claim
<1>2. eps' = [eps EXCEPT ![c] = f]
  BY <1>1
<1>3. eps'[c] = f /\ eps'[c] \in Episode
  <2>1. eps' \in Seq(Episode) /\ Len(eps') = Len(eps)
    BY <1>1, <1>2 DEF ReviewInv, WorkInv
  <2> QED
    BY <1>1, <1>2, <2>1 DEF Ids
<1>4. f \in Episode /\ f.role = eps[c].role /\ f.target = eps[c].target
      /\ f.human = eps[c].human /\ f.agent = eps[c].agent
  BY <1>1, <1>3 DEF Episode
<1> HIDE DEF f
<1>5. eps[c].role # "maker"
  BY <1>1 DEF Makers
<1> QED
  BY <1>1, <1>2, <1>4, <1>5, UncountedWrite DEF Counted

(* A maker that is done keeps no credit of what was there before.            *)
LEMMA FinishMakerCounts ==
  ASSUME CountInv, ReviewInv', UNCHANGED dispatching, NEW i \in Ids, FinishMaker(i)
  PROVE  CountInv'
<1> DEFINE f == Done(eps[i])
<1>1. /\ eps[i] \in Episode /\ eps' = [eps EXCEPT ![i] = f]
      /\ eps[i].role = "maker" /\ eps[i].status # "abandoned"
      /\ counts' = [counts EXCEPT !.human = @ - Flagged(eps[i].human),
                                  !.agent = @ - Flagged(eps[i].agent)]
  BY EpisodeOf DEF CountInv, FinishMaker, MayRecord, EpTerminal, Makers
<1>2. /\ f \in Episode /\ f.role = eps[i].role /\ f.target = eps[i].target /\ f.status = "done"
      /\ f.human = FALSE /\ f.agent = FALSE
  BY <1>1 DEF Done, Episode, Status, EpTerminal
<1> HIDE DEF f
<1>3. counts \in [total : Nat, human : Nat, agent : Nat]
  BY CountsTyped DEF CountInv, ReviewInv, WorkInv
<1>4. Counted(eps[i]) /\ Counted(f)
  BY <1>1, <1>2 DEF Counted
<1>5. eps[i].human \in BOOLEAN /\ eps[i].agent \in BOOLEAN
  BY <1>1 DEF Episode
<1>6. counts' = [total |-> counts.total, human |-> counts.human - Flagged(eps[i].human),
                 agent |-> counts.agent - Flagged(eps[i].agent)]
  BY <1>1, <1>3
<1>7. Recounted(counts, eps[i], f) =
        [total |-> counts.total, human |-> counts.human - Flagged(eps[i].human),
         agent |-> counts.agent - Flagged(eps[i].agent)]
  BY <1>2, <1>3, <1>4, <1>5 DEF Recounted, Difference, Flagged
<1> QED
  BY <1>1, <1>2, <1>6, <1>7, EpisodeCounts

LEMMA AbandonCounts ==
  ASSUME CountInv, ReviewInv', UNCHANGED dispatching, NEW i \in Ids, NEW failed \in BOOLEAN,
         AbandonEpisode(i, failed)
  PROVE  CountInv'
<1> DEFINE f == [eps[i] EXCEPT !.status = "abandoned", !.human = TRUE, !.failed = failed]
<1>1. /\ eps[i] \in Episode /\ eps \in Seq(Episode) /\ eps[i].status \notin EpTerminal
      /\ eps' = [eps EXCEPT ![i].status = "abandoned", ![i].human = TRUE, ![i].failed = failed]
      /\ counts' = IF i \in Makers THEN Uncounted(eps[i]) ELSE counts
  BY EpisodeOf DEF CountInv, ReviewInv, WorkInv, AbandonEpisode, MayAbandon
<1>2. eps' = [eps EXCEPT ![i] = f]
  BY <1>1
<1>3. f \in Episode /\ f.role = eps[i].role /\ f.target = eps[i].target /\ f.status = "abandoned"
  BY <1>1 DEF Episode, Status, EpTerminal
<1> HIDE DEF f
<1>4. counts \in [total : Nat, human : Nat, agent : Nat]
  BY CountsTyped DEF CountInv, ReviewInv, WorkInv
<1>5. ~Counted(f) /\ (Counted(eps[i]) <=> i \in Makers)
  BY <1>1, <1>3 DEF Counted, Makers, EpTerminal
<1>6. counts' = Recounted(counts, eps[i], f)
  <2>1. CASE i \in Makers
    BY <1>1, <1>4, <1>5, <2>1 DEF Recounted, Difference, Flagged, Uncounted
  <2>2. CASE i \notin Makers
    BY <1>1, <1>5, <2>2, NotRecounted
  <2> QED
    BY <2>1, <2>2
<1> QED
  BY <1>1, <1>2, <1>3, <1>6, EpisodeCounts DEF EpTerminal

LEMMA AckCounts ==
  ASSUME CountInv, ReviewInv', UNCHANGED dispatching, NEW i \in Ids,
         NEW actor \in {"human", "agent"}, Ack(i, actor)
  PROVE  CountInv'
<1>1. /\ eps[i] \in Episode /\ eps[i].role = "maker" /\ eps[i].status # "abandoned" /\ ~eps[i].human
      /\ counts \in [total : Nat, human : Nat, agent : Nat]
  BY EpisodeOf, CountsTyped DEF CountInv, ReviewInv, WorkInv, Ack, Makers
<1>2. CASE actor = "human"
  <2> DEFINE f == [eps[i] EXCEPT !.human = TRUE]
  <2>1. eps' = [eps EXCEPT ![i] = f] /\ counts' = [counts EXCEPT !.human = @ + 1]
    BY <1>2 DEF Ack
  <2>2. /\ f \in Episode /\ f.role = eps[i].role /\ f.target = eps[i].target
        /\ f.status = eps[i].status /\ f.human /\ f.agent = eps[i].agent
    BY <1>1 DEF Episode
  <2> HIDE DEF f
  <2>3. Counted(eps[i]) /\ Counted(f)
    BY <1>1, <2>2 DEF Counted
  <2>4. counts' = Recounted(counts, eps[i], f)
    BY <1>1, <2>1, <2>2, <2>3 DEF Recounted, Difference, Flagged
  <2> QED
    BY <2>1, <2>2, <2>4, EpisodeCounts
<1>3. CASE actor = "agent"
  <2> DEFINE f == [eps[i] EXCEPT !.agent = TRUE]
  <2>1. eps' = [eps EXCEPT ![i] = f] /\ counts' = [counts EXCEPT !.agent = @ + 1] /\ ~eps[i].agent
    BY <1>3 DEF Ack
  <2>2. /\ f \in Episode /\ f.role = eps[i].role /\ f.target = eps[i].target
        /\ f.status = eps[i].status /\ f.human = eps[i].human /\ f.agent
    BY <1>1 DEF Episode
  <2> HIDE DEF f
  <2>3. Counted(eps[i]) /\ Counted(f)
    BY <1>1, <2>2 DEF Counted
  <2>4. counts' = Recounted(counts, eps[i], f)
    BY <1>1, <2>1, <2>2, <2>3 DEF Recounted, Difference, Flagged
  <2> QED
    BY <2>1, <2>2, <2>4, EpisodeCounts
<1> QED
  BY <1>2, <1>3

(* A new maker counts, a new checker does not.                               *)
LEMMA AppendCounts ==
  ASSUME CountInv, ReviewInv', NEW e \in Episode, ~e.human, ~e.agent, e.status # "abandoned",
         eps' = Append(eps, e), dispatching' \in {dispatching, None},
         counts' = IF e.role = "maker" THEN [counts EXCEPT !.total = @ + 1] ELSE counts,
         e.role = "checker" => e.target \in Makers /\ eps[e.target].status = "done"
  PROVE  CountInv'
<1>1. eps \in Seq(Episode) /\ counts = CountsOf(eps) /\ counts \in [total : Nat, human : Nat, agent : Nat]
  BY CountsTyped DEF CountInv, ReviewInv, WorkInv
<1>2. counts' = CountsOf(eps')
  <2>1. CountsOf(eps') = [counts EXCEPT !.total = @ + Flagged(Counted(e))]
    BY <1>1, CountsAppended
  <2>2. Flagged(Counted(e)) = IF e.role = "maker" THEN 1 ELSE 0
    BY DEF Flagged, Counted
  <2> QED
    BY <1>1, <2>1, <2>2
<1>3. /\ \A i \in Ids : eps'[i] = eps[i]
      /\ eps'[Len(eps')] = e
      /\ Checkers' = IF e.role = "checker" THEN Checkers \cup {Len(eps')} ELSE Checkers
  BY Appended DEF CountInv
<1>4. TargetsDone'
  BY <1>3, TargetsKept
<1> QED
  BY <1>2, <1>4 DEF CountInv

LEMMA NewEpisodeFresh ==
  ASSUME NEW role, NEW w, NEW p, NEW target, NEW proof
  PROVE  LET e == NewEpisode(role, w, p, target, proof)
         IN  ~e.human /\ ~e.agent /\ e.status = "pending"
  BY DEF NewEpisode

LEMMA NewMakerCounts ==
  ASSUME CountInv, ReviewInv', UNCHANGED dispatching, NEW w \in Workstreams \cup {None},
         NEW p \in Points, NEW proof \in BOOLEAN, NewMaker(w, p, proof)
  PROVE  CountInv'
<1> DEFINE e == NewEpisode("maker", w, p, 0, proof)
<1>1. eps' = Append(eps, e) /\ counts' = [counts EXCEPT !.total = @ + 1]
  BY DEF NewMaker
<1>2. e \in Episode /\ e.role = "maker"
  <2>1. "maker" \in {"maker", "checker"} /\ 0 \in Nat
    OBVIOUS
  <2> QED
    BY <2>1, NewEpisodeTyped DEF CountInv
<1>3. ~e.human /\ ~e.agent /\ e.status = "pending"
  BY NewEpisodeFresh
<1> HIDE DEF e
<1> QED
  BY <1>1, <1>2, <1>3, AppendCounts

LEMMA CommitDispatchCounts ==
  ASSUME CountInv, ReviewInv', CommitDispatch
  PROVE  CountInv'
<1> DEFINE m == dispatching.target
           n == NewEpisode("checker", eps[m].ws, eps[m].point, m, FALSE)
           e == [n EXCEPT !.flags = dispatching.flags]
<1>1. /\ dispatching # None /\ dispatching.flags = flags /\ dispatching' = None
      /\ eps' = Append(eps, e) /\ UNCHANGED counts
  BY DEF CommitDispatch, DispatchStands
<1>2. m \in Nat /\ m \in Makers /\ m \in Ids /\ eps[m].ws \in Workstreams /\ flags \in Nat
      /\ eps[m].status = "done"
  BY <1>1 DEF CountInv, TargetsDone, ReviewInv, WorkInv, DispatchBound, Checkable, Makers
<1>3. eps[m].point \in Points
  BY <1>2, EpisodeOf DEF Episode, CountInv
<1> HIDE DEF m
<1>4. n \in Episode /\ n.role = "checker" /\ n.target = m
  <2>1. /\ "checker" \in {"maker", "checker"} /\ eps[m].ws \in Workstreams \cup {None}
    BY <1>2
  <2>2. ASSUME NEW b \in BOOLEAN
        PROVE  LET c == NewEpisode("checker", eps[m].ws, eps[m].point, m, b)
               IN  c \in Episode /\ c.role = "checker" /\ c.target = m
    BY <1>2, <1>3, <2>1, NewEpisodeTyped DEF CountInv
  <2>3. FALSE \in BOOLEAN
    OBVIOUS
  <2> QED
    BY <2>2, <2>3, Zenon
<1>5. ~n.human /\ ~n.agent /\ n.status = "pending"
  BY NewEpisodeFresh
<1> HIDE DEF n
<1>6. /\ e \in Episode /\ e.role = "checker" /\ e.target = m
      /\ ~e.human /\ ~e.agent /\ e.status = "pending"
  BY <1>1, <1>2, <1>4, <1>5 DEF Episode
<1> HIDE DEF e
<1> QED
  BY <1>1, <1>2, <1>6, AppendCounts

(* A dispatch in flight is of a maker that is done.                          *)
LEMMA StartDispatchCounts ==
  ASSUME CountInv, ReviewInv', NEW w \in Workstreams, NEW p \in Points, StartDispatch(w, p)
  PROVE  CountInv'
<1> DEFINE m == Latest(Eligible(w, p))
<1>1. UNCHANGED <<eps, counts>> /\ dispatching'.target = m /\ Eligible(w, p) # {}
  BY DEF StartDispatch, MayDispatch, run
<1>2. Eligible(w, p) \in SUBSET (1..Len(eps)) /\ Len(eps) \in Nat
  BY DEF Eligible, DoneMakers, Makers, Ids, CountInv, ReviewInv, WorkInv
<1>3. m \in Eligible(w, p)
  BY <1>1, <1>2, LatestIn
<1>4. eps[m].status = "done"
  BY <1>3 DEF Eligible, DoneMakers
<1> HIDE DEF m
<1>5. TargetsDone'
  BY <1>1, <1>4 DEF CountInv, TargetsDone, Checkers, Ids
<1> QED
  BY <1>1, <1>5 DEF CountInv

(* The outcome of a review credits its maker, which is done and so counted.  *)
LEMMA CommitCounts ==
  ASSUME CountInv, ReviewInv', UNCHANGED dispatching, NEW c \in Checkers, NEW verdict,
         NEW report \in Claim \cup {None}, Commit(c, verdict, report)
  PROVE  CountInv'
<1> DEFINE m      == eps[c].target
           credit == verdict = "APPROVE" /\ ~eps[m].human /\ ~eps[m].agent
           st     == IF verdict = "APPROVE" THEN "approved" ELSE "rejected"
           ag     == eps[m].agent \/ credit
           f      == [eps[c] EXCEPT !.status = st, !.report = report]
           g      == [eps[m] EXCEPT !.agent = ag]
           mid    == [eps EXCEPT ![c] = f]
<1>1. /\ eps \in Seq(Episode) /\ eps[c] \in Episode /\ eps[m] \in Episode
      /\ c \in Ids /\ m \in Ids /\ c # m /\ m \in Makers /\ eps[m].status = "done"
      /\ eps[c].role = "checker" /\ eps[m].role = "maker" /\ counts = CountsOf(eps)
      /\ counts \in [total : Nat, human : Nat, agent : Nat]
  BY EpisodeOf, CountsTyped
     DEF CountInv, TargetsDone, ReviewInv, WorkInv, ChecksBound, Checkable, Checkers, Makers
<1>2. /\ eps' = [eps EXCEPT ![c].status = st, ![c].report = report, ![m].agent = ag]
      /\ counts' = [counts EXCEPT !.agent = @ + Flagged(credit)]
  BY <1>1 DEF Commit, Ids
<1>3. /\ ag \in BOOLEAN /\ st \in Status /\ credit \in BOOLEAN
      /\ (credit => ~eps[m].agent) /\ (ag <=> eps[m].agent \/ credit)
  BY DEF Status, EpTerminal
<1> HIDE DEF ag, st, credit
<1>4. /\ f \in Episode /\ f.role = "checker" /\ f.target = eps[c].target
      /\ g \in Episode /\ g.role = "maker" /\ g.target = eps[m].target /\ g.status = "done"
      /\ g.human = eps[m].human /\ g.agent = ag
  <2>1. f = [eps[c] EXCEPT !.status = st, !.report = report]
    OBVIOUS
  <2>2. /\ g \in Episode /\ g.role = "maker" /\ g.target = eps[m].target /\ g.status = "done"
        /\ g.human = eps[m].human /\ g.agent = ag
    BY <1>1, <1>3, Credited
  <2> HIDE DEF f, g
  <2>3. f \in Episode /\ f.role = "checker" /\ f.target = eps[c].target
    BY <1>1, <1>3, <2>1 DEF Episode
  <2> QED
    BY <2>2, <2>3
<1>5. eps' = [[eps EXCEPT ![c] = f] EXCEPT ![m] = g]
  BY <1>1, <1>2 DEF Ids
<1> HIDE DEF f, g, m
<1>6. /\ mid \in Seq(Episode) /\ Len(mid) = Len(eps) /\ mid[m] = eps[m] /\ m \in 1..Len(mid)
      /\ c \in 1..Len(eps) /\ eps' = [mid EXCEPT ![m] = g]
  BY <1>1, <1>4, <1>5 DEF Ids
<1>7. CountsOf(mid) = counts
  <2>1. CountsOf(mid) = Recounted(counts, eps[c], f)
    BY <1>1, <1>4, <1>6, CountsOne
  <2>2. ~Counted(eps[c]) /\ ~Counted(f)
    BY <1>1, <1>4 DEF Counted
  <2> QED
    BY <2>1, <2>2, NotRecounted
<1> HIDE DEF mid
<1>8. CountsOf(eps') = Recounted(counts, eps[m], g)
  BY <1>4, <1>6, <1>7, CountsOne
<1>9. Recounted(counts, eps[m], g) = [counts EXCEPT !.agent = @ + Flagged(credit)]
  <2>1. Counted(eps[m]) /\ Counted(g)
    BY <1>1, <1>4 DEF Counted
  <2>2. eps[m].agent \in BOOLEAN /\ eps[m].human \in BOOLEAN
    BY <1>1 DEF Episode
  <2> QED
    BY <1>1, <1>3, <1>4, <2>1, <2>2 DEF Recounted, Difference, Flagged
<1>10. /\ Len(eps') = Len(eps) /\ eps'[c] = f /\ eps'[m] = g
       /\ \A i \in Ids : i \notin {c, m} => eps'[i] = eps[i]
  BY <1>1, <1>4, <1>5 DEF Ids
<1>11. Ids' = Ids
  BY <1>10 DEF Ids
<1>12. Checkers' = Checkers
  BY <1>1, <1>4, <1>10, <1>11 DEF Checkers
<1>13. TargetsDone'
  <2>1. c \notin Makers
    BY <1>1 DEF Makers
  <2>2. \A i \in Ids : /\ eps'[i].target = eps[i].target
                       /\ i \in Makers /\ eps[i].status = "done" => eps'[i].status = "done"
    BY <1>4, <1>10, <2>1
  <2> QED
    BY <1>12, <2>2, TargetsKept
<1> QED
  BY <1>2, <1>8, <1>9, <1>13 DEF CountInv

-----------------------------------------------------------------------------
LEMMA OrdinaryCounts ==
  ASSUME CountInv, ReviewInv', Ordinary, UNCHANGED dispatching
  PROVE  CountInv'
<1>1. ASSUME NEW w \in Workstreams, NEW final,
             NewWorkstream(w) \/ MergeWorkstream(w) \/ CloseWorkstream(w, final)
      PROVE  CountInv'
  BY <1>1, CountsKept DEF NewWorkstream, MergeWorkstream, CloseWorkstream
<1>2. ASSUME NEW w \in Workstreams, NEW p \in Points, NewMaker(w, p, TRUE)
      PROVE  CountInv'
  BY <1>2, NewMakerCounts
<1>3. ASSUME NEW i \in Ids, StartMaker(i) \/ FinishMaker(i) \/ BlockReview(i) \/ ConfigureReview(i)
      PROVE  CountInv'
  BY <1>3, StatusCounts, FinishMakerCounts, ConfigureCounts
<1>4. ASSUME NEW i \in Ids, NEW verdict \in Verdicts, RecordReview(i, verdict)
      PROVE  CountInv'
  BY <1>4, CommitCounts DEF RecordReview, MayJudge
<1>5. ASSUME NEW r \in reports, NEW verdict \in Verdicts, ImportReview(r, verdict)
      PROVE  CountInv'
  BY <1>5, CommitCounts DEF ImportReview, MayJudge, CountInv, ReviewInv, WorkInv
<1>6. ASSUME NEW final, FinishRun(final) \/ \E keep \in BOOLEAN : NextSession(keep)
      PROVE  CountInv'
  BY <1>6, CountsKept DEF FinishRun, NextSession
<1> QED
  BY <1>1, <1>2, <1>3, <1>4, <1>5, <1>6 DEF Ordinary

LEMMA ExtraCounts ==
  ASSUME CountInv, ReviewInv', Extra, UNCHANGED dispatching
  PROVE  CountInv'
<1>1. ASSUME NEW w \in Workstreams, NEW on \in BOOLEAN, SetActive(w, on)
      PROVE  CountInv'
  BY <1>1, CountsKept DEF SetActive
<1>2. ASSUME NEW w \in Workstreams \cup {None}, NEW p \in Points, NEW proof \in BOOLEAN,
             NewMaker(w, p, proof)
      PROVE  CountInv'
  BY <1>2, NewMakerCounts
<1>3. ASSUME NEW i \in Ids, NEW st \in {"pending", "in_progress", "blocked"}, RecordStatus(i, st)
      PROVE  CountInv'
  BY <1>3, StatusCounts
<1>4. ASSUME NEW i \in Ids, NEW failed \in BOOLEAN, AbandonEpisode(i, failed)
      PROVE  CountInv'
  BY <1>4, AbandonCounts
<1>5. ASSUME NEW i \in Ids, NEW actor \in {"human", "agent"}, Ack(i, actor)
      PROVE  CountInv'
  BY <1>5, AckCounts
<1>6. ASSUME PauseRun \/ ResetBreaker \/ FinishRun("stopped")
      PROVE  CountInv'
  BY <1>6, CountsKept DEF PauseRun, ResetBreaker, FinishRun
<1> QED
  BY <1>1, <1>2, <1>3, <1>4, <1>5, <1>6 DEF Extra

LEMMA NextCounts == CountInv /\ [Next]_vars => CountInv'
<1> SUFFICES ASSUME CountInv, [Next]_vars PROVE CountInv'
  OBVIOUS
<1>1. ReviewInv'
  BY NextReview DEF CountInv
<1>2. CASE UNCHANGED vars
  BY <1>1, <1>2, CountsKept DEF vars, run
<1>3. CASE Ordinary /\ UNCHANGED <<bytes, dispatching, reports, extras>>
  BY <1>1, <1>3, OrdinaryCounts
<1>4. CASE Extra /\ UNCHANGED <<dispatching, reports>>
  BY <1>1, <1>4, ExtraCounts
<1>5. ASSUME NEW w \in Workstreams, Edit(w), UNCHANGED dispatching
      PROVE  CountInv'
  BY <1>1, <1>5, CountsKept DEF Edit, run
<1>6. ASSUME NEW w \in Workstreams, NEW p \in Points, StartDispatch(w, p)
      PROVE  CountInv'
  BY <1>1, <1>6, StartDispatchCounts
<1>7. CASE CommitDispatch
  BY <1>1, <1>7, CommitDispatchCounts
<1>8. CASE DropDispatch
  BY <1>1, <1>8, CountsKept DEF DropDispatch, run
<1>9. ASSUME NEW c \in Ids, ClaimReview(c)
      PROVE  CountInv'
  BY <1>1, <1>9, ClaimCounts
<1> QED
  BY <1>2, <1>3, <1>4, <1>5, <1>6, <1>7, <1>8, <1>9 DEF Next

(* The counters of comprehension are those of the flags, for any work and in *)
(* any order of acknowledgements, credits, redone makers and abandonments.   *)
THEOREM CountersAreRight == Spec => []CountersAgree
<1>1. CountInv => CountersAgree
  BY CountsAgreed DEF CountInv
<1> QED
  BY InitCounts, NextCounts, <1>1, PTL DEF Spec

-----------------------------------------------------------------------------
(* What closes, stays closed: the workstreams and the work in them, beyond   *)
(* what the reviews and the counters need.                                   *)
StreamSet == [status : {"absent", "open"} \cup Terminal, active : BOOLEAN, done : SUBSET Points]

(* Only a checker is judged, and a maker works in a workstream.              *)
Plain(e) == e.role = "maker" => /\ e.status \notin {"approved", "rejected"}
                                /\ e.status \in {"in_progress", "done"} => e.ws # None

(* A checker is of the workstream and the point of its maker, and after it.  *)
Follows == \A c \in Checkers :
             LET m == eps[c].target
             IN  m < c /\ eps[c].ws = eps[m].ws /\ eps[c].point = eps[m].point

WorkExists == \A i \in Ids : Plain(eps[i]) /\ (eps[i].ws # None => Exists(eps[i].ws))

(* A review point is done only by a done maker.                              *)
PointsDone == \A w \in Workstreams : \A p \in streams[w].done :
                \E m \in DoneMakers : eps[m].ws = w /\ eps[m].point = p

(* A scope that is not closed is of an open workstream.                      *)
ScopeOpen == /\ scope.closed => scope.ws # None
             /\ scope.ws # None /\ ~scope.closed => Open(scope.ws)

RouteInv == /\ CountInv /\ streams \in [Workstreams -> StreamSet]
            /\ Follows /\ WorkExists /\ PointsDone /\ ScopeOpen /\ ClosedIsProven

-----------------------------------------------------------------------------
(* What any step does to the work: an episode keeps what it is of, what is   *)
(* terminal stays as it is, and new work is of an open workstream.           *)
Persists(e, f) == /\ f.role = e.role /\ f.ws = e.ws /\ f.point = e.point /\ f.target = e.target
                  /\ Plain(f) /\ (e.status \in EpTerminal => f.status = e.status)

Born(i) == /\ Plain(eps'[i]) /\ (eps'[i].ws # None => Open(eps'[i].ws))
           /\ eps'[i].role = "checker" =>
                LET m == eps'[i].target
                IN  /\ m \in DoneMakers /\ m < i
                    /\ eps'[i].ws = eps[m].ws /\ eps'[i].point = eps[m].point

Grows == /\ Ids \subseteq Ids' /\ (\A i \in Ids : Persists(eps[i], eps'[i]))
         /\ \A i \in Ids' \ Ids : Born(i)

(* To a workstream: it closes only with its proof and with the scope, and    *)
(* nothing else happens then.                                                *)
Closes(w, final) == /\ Open(w) /\ final \in {"ready", "abandoned"} /\ MayClose(w, final)
                    /\ UNCHANGED eps /\ ScopeIs(w) /\ scope'.closed

MovesTo(w) ==
  LET s == streams[w]
      t == streams'[w]
  IN  /\ \/ t.status = s.status
         \/ s.status = "absent" /\ t.status = "open"
         \/ Closes(w, t.status)
         \/ s.status = "ready" /\ t.status = "merged"
      /\ \A p \in t.done \ s.done : \E m \in DoneMakers : eps[m].ws = w /\ eps[m].point = p

Moves == streams' \in [Workstreams -> StreamSet] /\ \A w \in Workstreams : MovesTo(w)

(* To the scope.                                                             *)
Binds == \/ UNCHANGED scope
         \/ ~scope'.closed /\ (scope'.ws # None => Open(scope'.ws))
         \/ scope'.closed /\ scope'.ws # None

-----------------------------------------------------------------------------
(* The proof of a workstream is about its own episodes.                      *)
SameWork(w) == /\ EpisodesOf(w)' = EpisodesOf(w)
               /\ \A i \in EpisodesOf(w) :
                    /\ eps'[i].role = eps[i].role /\ eps'[i].ws = eps[i].ws
                    /\ eps'[i].point = eps[i].point /\ eps'[i].target = eps[i].target
                    /\ eps'[i].status = eps[i].status

LEMMA ProofStands ==
  ASSUME NEW w, SameWork(w), Follows, Follows', ChecksBound, ChecksBound'
  PROVE  /\ Closure(w) => Closure(w)'
         /\ LatestMakers(EpisodesOf(w))' = LatestMakers(EpisodesOf(w))
         /\ \A m \in EpisodesOf(w) \cap DoneMakers :
              /\ m \in DoneMakers' /\ eps'[m].point = eps[m].point
              /\ ApprovedLast(m) => ApprovedLast(m)'
<1> DEFINE S == EpisodesOf(w)
<1>1. /\ EpisodesOf(w)' = S /\ S \subseteq Ids /\ S \subseteq Ids'
      /\ \A i \in Ids : i \in S <=> eps[i].ws = w
      /\ \A i \in Ids' : i \in S <=> eps'[i].ws = w
      /\ \A i \in S : /\ eps'[i].role = eps[i].role /\ eps'[i].ws = eps[i].ws
                      /\ eps'[i].point = eps[i].point /\ eps'[i].target = eps[i].target
                      /\ eps'[i].status = eps[i].status
  BY DEF SameWork, EpisodesOf
<1> HIDE DEF S
<1>2. /\ (S \cap DoneMakers)' = S \cap DoneMakers
      /\ \A i \in S : i \in DoneMakers' <=> i \in DoneMakers
  BY <1>1 DEF DoneMakers, Makers, S
<1>3. ASSUME NEW m \in S, m \in Makers PROVE Reviews(m)' = Reviews(m) /\ Reviews(m) \subseteq S
  <2>1. m \in Makers' /\ eps[m].ws = w /\ eps'[m].ws = w
    BY <1>1, <1>3 DEF Makers
  <2>2. ASSUME NEW c \in Reviews(m) PROVE c \in S /\ c \in Checkers /\ eps[c].target = m
    BY <1>1, <2>1 DEF Reviews, Judged, Checkers, Follows
  <2>3. ASSUME NEW c \in Reviews(m)' PROVE c \in S /\ c \in Checkers' /\ eps'[c].target = m
    BY <1>1, <2>1 DEF Reviews, Judged, Checkers, Follows
  <2>4. ASSUME NEW c \in S
        PROVE  c \in Reviews(m)' <=> c \in Reviews(m)
    BY <1>1 DEF Reviews, Judged, Checkers
  <2> QED
    BY <2>2, <2>3, <2>4
<1>4. ASSUME NEW m \in S, m \in Makers
      PROVE  (Reviewed(m)' <=> Reviewed(m)) /\ (ApprovedLast(m) => ApprovedLast(m)')
  <2>1. Reviewed(m)' <=> Reviewed(m)
    BY <1>3, <1>4 DEF Reviewed
  <2>2. ASSUME ApprovedLast(m) PROVE ApprovedLast(m)'
    <3>1. Reviews(m)' = Reviews(m) /\ Reviews(m) \subseteq S
      BY <1>3, <1>4
    <3>2. Latest(Reviews(m))' = Latest(Reviews(m))
      BY <3>1 DEF Latest
    <3>3. Latest(Reviews(m)) \in Reviews(m)
      <4>1. Reviews(m) # {} /\ Reviews(m) \subseteq Ids
        BY <2>2, <3>1, <1>1 DEF ApprovedLast, Reviewed
      <4>2. Len(eps) \in Nat /\ Ids = 1..Len(eps)
        BY DEF Ids
      <4> QED
        BY <4>1, <4>2, LatestIn
    <3> QED
      BY <1>1, <2>1, <2>2, <3>1, <3>2, <3>3 DEF ApprovedLast
  <2> QED
    BY <2>1, <2>2
<1>5. ASSUME NEW i \in S, Settled(i) PROVE Settled(i)'
  <2>1. CASE eps[i].status \in {"done", "approved", "abandoned"}
    BY <1>1, <2>1 DEF Settled
  <2>2. CASE eps[i].role = "checker" /\ eps[i].status = "rejected" /\ Resolved(i)
    <3>0. PICK t : t = eps[i].target
      OBVIOUS
    <3>1. i \in Checkers /\ t \in Makers /\ t \in S
      BY <1>1, <2>2, <3>0 DEF Checkers, ChecksBound, Checkable, Follows, Makers
    <3>2. Reviews(t)' = Reviews(t) /\ Reviews(t) \subseteq S /\ eps'[i].target = t
      BY <1>1, <1>3, <3>0, <3>1
    <3>3. CASE \E d \in Reviews(t) : eps[d].status = "approved" /\ d > i
      <4>1. \E d \in Reviews(t)' : eps'[d].status = "approved" /\ d > i
        BY <1>1, <3>2, <3>3
      <4>2. Resolved(i)'
        BY <3>2, <4>1 DEF Resolved
      <4> QED
        BY <1>1, <2>2, <4>2 DEF Settled
    <3>4. CASE \E m \in DoneMakers : /\ eps[m].ws = eps[i].ws /\ eps[m].point = eps[i].point /\ m > t
      <4>1. PICK m \in DoneMakers : eps[m].ws = eps[i].ws /\ eps[m].point = eps[i].point /\ m > t
        BY <3>4
      <4>2. m \in S
        BY <1>1, <4>1 DEF DoneMakers, Makers
      <4>3. m \in DoneMakers' /\ eps'[m].ws = eps'[i].ws /\ eps'[m].point = eps'[i].point
        BY <1>1, <1>2, <4>1, <4>2
      <4>4. Resolved(i)'
        BY <3>2, <4>1, <4>3 DEF Resolved
      <4> QED
        BY <1>1, <2>2, <4>4 DEF Settled
    <3> QED
      BY <2>2, <3>0, <3>3, <3>4 DEF Resolved
  <2> QED
    BY <1>5, <2>1, <2>2 DEF Settled
<1>6. LatestMakers(EpisodesOf(w))' = LatestMakers(EpisodesOf(w))
  <2>1. /\ (S \cap DoneMakers)' = S \cap DoneMakers
        /\ \A i \in S \cap DoneMakers : eps'[i].ws = eps[i].ws /\ eps'[i].point = eps[i].point
    BY <1>1, <1>2
  <2>2. LatestMakers(S)' = LatestMakers(S)
    BY <2>1 DEF LatestMakers
  <2> QED
    BY <2>2 DEF S
<1>7. \A m \in S \cap DoneMakers : /\ m \in DoneMakers' /\ eps'[m].point = eps[m].point
                                   /\ (ApprovedLast(m) => ApprovedLast(m)')
                                   /\ (Reviewed(m) => Reviewed(m)')
  BY <1>1, <1>2, <1>4 DEF DoneMakers
<1>8. LatestMakers(S) \subseteq S \cap DoneMakers
  BY DEF LatestMakers
<1>9. ASSUME Closure(w) PROVE Closure(w)'
  <2>1. Converged(S)
    BY <1>9 DEF Closure, S
  <2>2. S' = S
    BY <1>1 DEF S
  <2>3. LatestMakers(S)' = LatestMakers(S)
    BY <1>6 DEF S
  <2>4. /\ \A i \in S : Settled(i)'
        /\ \A m \in (S \cap DoneMakers)' : Reviewed(m)'
        /\ \A m \in LatestMakers(S)' : ApprovedLast(m)'
    BY <1>2, <1>5, <1>7, <1>8, <2>1, <2>3 DEF Converged
  <2>5. Converged(S)'
    BY <2>2, <2>4 DEF Converged
  <2> QED
    BY <2>5 DEF Closure, S
<1> QED
  BY <1>6, <1>7, <1>9 DEF S

-----------------------------------------------------------------------------
(* What the relation of steps keeps.                                         *)
LEMMA GrowsKeeps ==
  ASSUME RouteInv, Grows
  PROVE  /\ \A m \in DoneMakers : m \in DoneMakers' /\ eps'[m].ws = eps[m].ws
                                  /\ eps'[m].point = eps[m].point
         /\ \A i \in Ids' : eps'[i].ws # None => \/ i \in Ids /\ Exists(eps'[i].ws)
                                                 \/ i \notin Ids /\ Open(eps'[i].ws)
<1>1. \A i \in Ids : i \in Ids' /\ Persists(eps[i], eps'[i])
  BY DEF Grows
<1>2. \A m \in DoneMakers : m \in Ids /\ eps[m].role = "maker" /\ eps[m].status = "done"
  BY DEF DoneMakers, Makers
<1>3. \A m \in DoneMakers : m \in DoneMakers' /\ eps'[m].ws = eps[m].ws /\ eps'[m].point = eps[m].point
  BY <1>1, <1>2 DEF DoneMakers, Makers, Persists, EpTerminal
<1>4. \A i \in Ids' \ Ids : eps'[i].ws # None => Open(eps'[i].ws)
  BY DEF Grows, Born
<1>5. \A i \in Ids : eps'[i].ws # None => Exists(eps'[i].ws)
  BY <1>1 DEF Persists, RouteInv, WorkExists
<1> QED
  BY <1>3, <1>4, <1>5

LEMMA FollowsKept == ASSUME RouteInv, Grows PROVE Follows'
<1> SUFFICES ASSUME NEW c \in Checkers'
             PROVE  LET m == eps'[c].target
                    IN  m < c /\ eps'[c].ws = eps'[m].ws /\ eps'[c].point = eps'[m].point
  BY DEF Follows
<1>1. CASE c \in Ids
  <2>1. Persists(eps[c], eps'[c]) /\ c \in Checkers
    BY <1>1 DEF Grows, Persists, Checkers
  <2>2. eps[c].target \in Ids /\ eps'[c].target = eps[c].target
    BY <2>1 DEF RouteInv, CountInv, ReviewInv, WorkInv, ChecksBound, Checkable, Makers, Persists
  <2>3. Persists(eps[eps[c].target], eps'[eps[c].target])
    BY <2>2 DEF Grows
  <2> QED
    BY <2>1, <2>2, <2>3 DEF Persists, RouteInv, Follows
<1>2. CASE c \notin Ids
  <2>1. Born(c) /\ eps'[c].role = "checker"
    BY <1>2 DEF Grows, Checkers
  <2> QED
    BY <2>1, GrowsKeeps DEF Born
<1> QED
  BY <1>1, <1>2

LEMMA MovesExists ==
  ASSUME RouteInv, Moves, NEW w
  PROVE  /\ Exists(w) => Exists(w)'
         /\ Open(w) => Open(w)' \/ (scope'.closed /\ ScopeIs(w) /\ UNCHANGED eps)
<1>1. CASE w \in Workstreams
  <2>1. MovesTo(w) /\ streams[w] \in StreamSet /\ streams'[w] \in StreamSet
    BY <1>1 DEF Moves, RouteInv
  <2> QED
    BY <1>1, <2>1 DEF MovesTo, Closes, Exists, Open, StreamSet, Terminal
<1>2. CASE w \notin Workstreams
  BY <1>2 DEF Exists, Open
<1> QED
  BY <1>1, <1>2

LEMMA WorkExistsKept == ASSUME RouteInv, Grows, Moves PROVE WorkExists'
<1> SUFFICES ASSUME NEW i \in Ids' PROVE Plain(eps[i])' /\ (eps'[i].ws # None => Exists(eps[i].ws)')
  BY DEF WorkExists
<1>1. Plain(eps[i])'
  BY DEF Grows, Persists, Born, Plain
<1>2. ASSUME eps'[i].ws # None PROVE Exists(eps[i].ws)'
  <2>1. PICK w : w = eps'[i].ws
    OBVIOUS
  <2>2. Exists(w)
    BY <1>2, <2>1, GrowsKeeps DEF Open
  <2>3. Exists(w)'
    BY <2>2, MovesExists
  <2> QED
    BY <2>1, <2>3 DEF Exists
<1> QED
  BY <1>1, <1>2

LEMMA PointsKept == ASSUME RouteInv, Grows, Moves PROVE PointsDone'
<1> SUFFICES ASSUME NEW w \in Workstreams, NEW p \in streams'[w].done
             PROVE  \E m \in DoneMakers' : eps'[m].ws = w /\ eps'[m].point = p
  BY DEF PointsDone
<1>1. MovesTo(w)
  BY DEF Moves
<1>2. PICK m \in DoneMakers : eps[m].ws = w /\ eps[m].point = p
  BY <1>1 DEF MovesTo, RouteInv, PointsDone
<1> QED
  BY <1>2, GrowsKeeps

LEMMA ScopeKept == ASSUME RouteInv, Moves, Binds PROVE ScopeOpen'
<1>1. scope'.closed => scope'.ws # None
  BY DEF Binds, RouteInv, ScopeOpen
<1>2. ASSUME scope'.ws # None, ~scope'.closed PROVE Open(scope'.ws)
  BY <1>2 DEF Binds, RouteInv, ScopeOpen
<1>3. ASSUME scope'.ws # None, ~scope'.closed PROVE Open(scope.ws)'
  <2>1. PICK w : w = scope'.ws
    OBVIOUS
  <2>2. Open(w)'
    BY <1>2, <1>3, <2>1, MovesExists
  <2> QED
    BY <2>1, <2>2 DEF Open, Exists
<1> QED
  BY <1>1, <1>3 DEF ScopeOpen

-----------------------------------------------------------------------------
(* What is closed stays proven.                                              *)
ProvenReady(w) == \A p \in Points : \E m \in LatestMakers(EpisodesOf(w)) :
                    eps[m].point = p /\ ApprovedLast(m)

LEMMA ClosedKeepsWork ==
  ASSUME RouteInv, Grows, NEW w \in Workstreams, streams[w].status \in Terminal
  PROVE  SameWork(w)
<1>1. Closure(w) /\ ~Open(w) /\ w # None
  BY NoneAssumption DEF RouteInv, ClosedIsProven, Open
<1>2. ASSUME NEW i \in EpisodesOf(w) PROVE i \in Ids /\ eps[i].ws = w /\ eps[i].status \in EpTerminal
  BY <1>1 DEF EpisodesOf, Closure, Converged, Settled, EpTerminal
<1>3. ASSUME NEW i \in EpisodesOf(w) PROVE i \in Ids' /\ Persists(eps[i], eps'[i])
  BY <1>2 DEF Grows
<1>4. ASSUME NEW i \in EpisodesOf(w)' PROVE i \in EpisodesOf(w)
  <2>1. i \in Ids' /\ eps'[i].ws = w
    BY DEF EpisodesOf
  <2>2. i \in Ids
    BY <1>1, <2>1 DEF Grows, Born
  <2> QED
    BY <2>1, <2>2 DEF Grows, Persists, EpisodesOf
<1>5. \A i \in EpisodesOf(w) : i \in EpisodesOf(w)'
  BY <1>2, <1>3 DEF EpisodesOf, Persists
<1> QED
  BY <1>2, <1>3, <1>4, <1>5 DEF SameWork, Persists

LEMMA ProvenStays ==
  ASSUME RouteInv, NEW w, SameWork(w), Follows', ChecksBound'
  PROVE  (Closure(w) => Closure(w)') /\ (ProvenReady(w) => ProvenReady(w)')
<1>1. Follows /\ ChecksBound
  BY DEF RouteInv, CountInv, ReviewInv, WorkInv
<1>2. /\ Closure(w) => Closure(w)'
      /\ LatestMakers(EpisodesOf(w))' = LatestMakers(EpisodesOf(w))
      /\ \A m \in EpisodesOf(w) \cap DoneMakers :
           /\ m \in DoneMakers' /\ eps'[m].point = eps[m].point
           /\ ApprovedLast(m) => ApprovedLast(m)'
  BY <1>1, ProofStands
<1>3. LatestMakers(EpisodesOf(w)) \subseteq EpisodesOf(w) \cap DoneMakers
  BY DEF LatestMakers
<1> QED
  BY <1>2, <1>3 DEF ProvenReady

(* The proof that a workstream needs to become ready.                        *)
LEMMA ReadyIsProven ==
  ASSUME RouteInv, NEW w \in Workstreams, MayClose(w, "ready")
  PROVE  ProvenReady(w)
<1> SUFFICES ASSUME NEW p \in Points
             PROVE  \E m \in LatestMakers(EpisodesOf(w)) : eps[m].point = p /\ ApprovedLast(m)
  BY DEF ProvenReady
<1> DEFINE S == {m \in DoneMakers : eps[m].ws = w /\ eps[m].point = p}
<1>1. Closure(w) /\ p \in streams[w].done
  BY DEF MayClose
<1>2. S # {} /\ S \subseteq Ids
  BY <1>1 DEF RouteInv, PointsDone, DoneMakers, Makers
<1>3. Len(eps) \in Nat /\ Ids = 1..Len(eps)
  BY DEF Ids, RouteInv, CountInv, ReviewInv, WorkInv
<1> HIDE DEF S
<1>4. Latest(S) \in S
  BY <1>2, <1>3, LatestIn
<1>5. \A j \in S : j <= Latest(S)
  <2>1. \E i \in S : \A j \in S : j <= i
    BY <1>2, <1>3, LatestMost
  <2> QED
    BY <2>1 DEF Latest
<1>6. PICK m \in S : \A j \in S : j <= m
  BY <1>4, <1>5
<1>7. m \in LatestMakers(EpisodesOf(w)) /\ eps[m].point = p
  <2>1. m \in EpisodesOf(w) \cap DoneMakers /\ eps[m].ws = w /\ eps[m].point = p
    BY <1>6 DEF S, EpisodesOf, DoneMakers, Makers
  <2>2. ASSUME NEW n \in EpisodesOf(w) \cap DoneMakers,
               eps[n].ws = eps[m].ws /\ eps[n].point = eps[m].point
        PROVE  n <= m
    BY <1>6, <2>1, <2>2 DEF S
  <2> QED
    BY <2>1, <2>2 DEF LatestMakers
<1>8. ApprovedLast(m)
  BY <1>1, <1>7 DEF Closure, Converged
<1> QED
  BY <1>7, <1>8

LEMMA ClosedKept ==
  ASSUME RouteInv, Grows, Moves, Follows', ChecksBound'
  PROVE  ClosedIsProven'
<1> SUFFICES ASSUME NEW w \in Workstreams, streams'[w].status \in Terminal
             PROVE  Closure(w)' /\ (streams'[w].status \in {"ready", "merged"} => ProvenReady(w)')
  BY DEF ClosedIsProven, ProvenReady
<1>1. MovesTo(w)
  BY DEF Moves
<1>2. CASE streams[w].status \in Terminal
  <2>1. SameWork(w)
    BY <1>2, ClosedKeepsWork
  <2>2. streams'[w].status \in {"ready", "merged"} => streams[w].status \in {"ready", "merged"}
    BY <1>1, <1>2 DEF MovesTo, Closes, Open, Terminal
  <2>3. Closure(w) /\ (streams[w].status \in {"ready", "merged"} => ProvenReady(w))
    BY <1>2 DEF RouteInv, ClosedIsProven, ProvenReady
  <2> QED
    BY <2>1, <2>2, <2>3, ProvenStays
<1>3. CASE streams[w].status \notin Terminal
  <2>1. Closes(w, streams'[w].status)
    BY <1>1, <1>3 DEF MovesTo, Terminal
  <2>2. MayClose(w, streams'[w].status) /\ Closure(w) /\ UNCHANGED eps
        /\ streams'[w].status \in {"ready", "abandoned"}
    BY <2>1 DEF Closes, MayClose
  <2>3. SameWork(w)
    BY <2>2 DEF SameWork, EpisodesOf, Ids
  <2>4. streams'[w].status = "ready" => ProvenReady(w)
    <3>1. ASSUME streams'[w].status = "ready" PROVE MayClose(w, "ready")
      BY <2>2, <3>1
    <3> QED
      BY <3>1, ReadyIsProven
  <2> QED
    BY <2>2, <2>3, <2>4, ProvenStays
<1> QED
  BY <1>2, <1>3

LEMMA RouteKept ==
  ASSUME RouteInv, CountInv', Grows, Moves, Binds
  PROVE  RouteInv'
<1>1. Follows' /\ ChecksBound'
  BY FollowsKept DEF CountInv, ReviewInv, WorkInv
<1>2. WorkExists' /\ PointsDone' /\ ScopeOpen' /\ ClosedIsProven'
  BY <1>1, WorkExistsKept, PointsKept, ScopeKept, ClosedKept
<1> QED
  BY <1>1, <1>2 DEF RouteInv, Moves

-----------------------------------------------------------------------------
(* Every step is one of that relation.                                       *)
RouteStep == Grows /\ Moves /\ Binds

LEMMA SameEpisodes == ASSUME RouteInv, UNCHANGED eps PROVE Grows
  BY DEF Grows, Persists, Ids, RouteInv, WorkExists

LEMMA SameStreams == ASSUME RouteInv, UNCHANGED streams PROVE Moves
  BY DEF Moves, MovesTo, RouteInv

LEMMA OneEpisode ==
  ASSUME RouteInv, NEW i \in Ids, NEW f, Persists(eps[i], f), eps' = [eps EXCEPT ![i] = f]
  PROVE  Grows
<1>1. eps \in Seq(Episode) /\ \A j \in Ids : Plain(eps[j])
  BY DEF RouteInv, CountInv, ReviewInv, WorkInv, WorkExists
<1>2. Ids' = Ids /\ eps'[i] = f /\ \A j \in Ids : j # i => eps'[j] = eps[j]
  BY <1>1 DEF Ids
<1> QED
  BY <1>1, <1>2 DEF Grows, Persists

LEMMA OneStream ==
  ASSUME RouteInv, NEW w \in Workstreams, NEW t \in StreamSet, streams' = [streams EXCEPT ![w] = t],
         t.done = streams[w].done,
         \/ t.status = streams[w].status
         \/ streams[w].status = "absent" /\ t.status = "open"
         \/ Closes(w, t.status)
         \/ streams[w].status = "ready" /\ t.status = "merged"
  PROVE  Moves
<1>1. streams \in [Workstreams -> StreamSet]
  BY DEF RouteInv
<1>2. /\ streams' \in [Workstreams -> StreamSet] /\ streams'[w] = t
      /\ \A v \in Workstreams : v # w => streams'[v] = streams[v]
  BY <1>1
<1>3. ASSUME NEW v \in Workstreams PROVE MovesTo(v)
  BY <1>2 DEF MovesTo
<1> QED
  BY <1>2, <1>3 DEF Moves

LEMMA StreamOf == ASSUME RouteInv, NEW w \in Workstreams PROVE streams[w] \in StreamSet
  BY DEF RouteInv

LEMMA NewWorkstreamStep == ASSUME RouteInv, NEW w \in Workstreams, NewWorkstream(w) PROVE RouteStep
<1> DEFINE t == [streams[w] EXCEPT !.status = "open"]
<1>1. /\ streams[w].status = "absent" /\ streams' = [streams EXCEPT ![w] = t]
      /\ UNCHANGED <<scope, eps>>
  BY DEF NewWorkstream
<1>2. t \in StreamSet /\ t.done = streams[w].done /\ t.status = "open"
  BY StreamOf DEF StreamSet
<1> HIDE DEF t
<1> QED
  BY <1>1, <1>2, OneStream, SameEpisodes DEF RouteStep, Binds

LEMMA MergeStep == ASSUME RouteInv, NEW w \in Workstreams, MergeWorkstream(w) PROVE RouteStep
<1> DEFINE t == [streams[w] EXCEPT !.status = "merged"]
<1>1. /\ streams[w].status = "ready" /\ streams' = [streams EXCEPT ![w] = t]
      /\ UNCHANGED <<scope, eps>>
  BY DEF MergeWorkstream
<1>2. t \in StreamSet /\ t.done = streams[w].done /\ t.status = "merged"
  BY StreamOf DEF StreamSet, Terminal
<1> HIDE DEF t
<1> QED
  BY <1>1, <1>2, OneStream, SameEpisodes DEF RouteStep, Binds

LEMMA SetActiveStep ==
  ASSUME RouteInv, NEW w \in Workstreams, NEW on \in BOOLEAN, SetActive(w, on) PROVE RouteStep
<1> DEFINE t == [streams[w] EXCEPT !.active = on]
<1>1. streams' = [streams EXCEPT ![w] = t] /\ UNCHANGED <<scope, eps>>
  BY DEF SetActive
<1>2. t \in StreamSet /\ t.done = streams[w].done /\ t.status = streams[w].status
  BY StreamOf DEF StreamSet
<1> HIDE DEF t
<1> QED
  BY <1>1, <1>2, OneStream, SameEpisodes DEF RouteStep, Binds

LEMMA CloseStep ==
  ASSUME RouteInv, NEW w \in Workstreams, NEW final \in {"ready", "abandoned"},
         CloseWorkstream(w, final)
  PROVE  RouteStep
<1> DEFINE t == [streams[w] EXCEPT !.status = final, !.active = FALSE]
<1>1. /\ Open(w) /\ ScopeIs(w) /\ MayClose(w, final)
      /\ streams' = [streams EXCEPT ![w].status = final, ![w].active = FALSE]
      /\ scope' = [scope EXCEPT !.closed = TRUE] /\ UNCHANGED eps
  BY DEF CloseWorkstream
<1>2. streams' = [streams EXCEPT ![w] = t]
  BY <1>1 DEF RouteInv
<1>3. t \in StreamSet /\ t.done = streams[w].done /\ t.status = final
  BY StreamOf DEF StreamSet, Terminal
<1> HIDE DEF t
<1>4. scope'.closed /\ scope'.ws = w /\ w # None
  BY <1>1, NoneAssumption DEF ScopeIs, RouteInv, CountInv, ReviewInv, WorkInv, Scope
<1>5. Closes(w, t.status)
  BY <1>1, <1>3, <1>4 DEF Closes
<1> QED
  BY <1>1, <1>2, <1>3, <1>4, <1>5, OneStream, SameEpisodes DEF RouteStep, Binds

-----------------------------------------------------------------------------
LEMMA RouteEpisode == ASSUME RouteInv, NEW i \in Ids PROVE eps[i] \in Episode /\ Plain(eps[i])
  BY EpisodeOf DEF RouteInv, CountInv, WorkExists

LEMMA StartMakerStep == ASSUME RouteInv, NEW i \in Ids, StartMaker(i) PROVE RouteStep
<1> DEFINE f == [eps[i] EXCEPT !.status = "in_progress"]
<1>1. /\ eps[i].ws # None /\ Open(eps[i].ws) /\ ScopeAdmits(eps[i].ws)
      /\ eps[i].status \notin EpTerminal /\ eps' = [eps EXCEPT ![i] = f]
      /\ scope' = [scope EXCEPT !.ws = eps[i].ws] /\ UNCHANGED streams
  BY DEF StartMaker, MayStart
<1>2. Persists(eps[i], f)
  BY <1>1, RouteEpisode DEF Persists, Plain, Episode
<1>3. ~scope'.closed /\ scope'.ws = eps[i].ws
  BY <1>1 DEF ScopeAdmits, RouteInv, CountInv, ReviewInv, WorkInv, Scope
<1> HIDE DEF f
<1> QED
  BY <1>1, <1>2, <1>3, OneEpisode, SameStreams DEF RouteStep, Binds

LEMMA FinishMakerStep == ASSUME RouteInv, NEW i \in Ids, FinishMaker(i) PROVE RouteStep
<1>1. /\ eps[i].ws # None /\ eps[i].status \notin EpTerminal
      /\ eps' = [eps EXCEPT ![i] = Done(eps[i])] /\ UNCHANGED <<scope, streams>>
  BY DEF FinishMaker, MayRecord
<1>2. Persists(eps[i], Done(eps[i]))
  BY <1>1, RouteEpisode DEF Persists, Plain, Episode, Done
<1> QED
  BY <1>1, <1>2, OneEpisode, SameStreams DEF RouteStep, Binds

LEMMA RecordStatusStep ==
  ASSUME RouteInv, NEW i \in Ids, NEW st \in {"pending", "in_progress", "blocked"}, RecordStatus(i, st)
  PROVE  RouteStep
<1> DEFINE f == [eps[i] EXCEPT !.status = st]
<1>1. /\ eps[i].status \notin EpTerminal /\ (st = "in_progress" => i \in Checkers)
      /\ eps' = [eps EXCEPT ![i] = f] /\ UNCHANGED <<scope, streams>>
  BY DEF RecordStatus, MayRecord
<1>2. Persists(eps[i], f)
  BY <1>1, RouteEpisode DEF Persists, Plain, Episode, Checkers
<1> HIDE DEF f
<1> QED
  BY <1>1, <1>2, OneEpisode, SameStreams DEF RouteStep, Binds

LEMMA BlockReviewStep == ASSUME RouteInv, NEW i \in Ids, BlockReview(i) PROVE RouteStep
<1> DEFINE f == [eps[i] EXCEPT !.status = "blocked"]
<1>1. /\ eps[i].status = "in_progress" /\ eps' = [eps EXCEPT ![i] = f] /\ UNCHANGED <<scope, streams>>
  BY DEF BlockReview
<1>2. Persists(eps[i], f)
  BY <1>1, RouteEpisode DEF Persists, Plain, Episode, EpTerminal
<1> HIDE DEF f
<1> QED
  BY <1>1, <1>2, OneEpisode, SameStreams DEF RouteStep, Binds

LEMMA AbandonStep ==
  ASSUME RouteInv, NEW i \in Ids, NEW failed \in BOOLEAN, AbandonEpisode(i, failed) PROVE RouteStep
<1> DEFINE f == [eps[i] EXCEPT !.status = "abandoned", !.human = TRUE, !.failed = failed]
<1>1. /\ eps[i].status \notin EpTerminal /\ UNCHANGED <<scope, streams>>
      /\ eps' = [eps EXCEPT ![i].status = "abandoned", ![i].human = TRUE, ![i].failed = failed]
  BY DEF AbandonEpisode, MayAbandon
<1>2. eps' = [eps EXCEPT ![i] = f]
  BY <1>1 DEF RouteInv, CountInv, ReviewInv, WorkInv
<1>3. Persists(eps[i], f)
  BY <1>1, RouteEpisode DEF Persists, Plain, Episode
<1> HIDE DEF f
<1> QED
  BY <1>1, <1>2, <1>3, OneEpisode, SameStreams DEF RouteStep, Binds

LEMMA AckStep ==
  ASSUME RouteInv, NEW i \in Ids, NEW actor \in {"human", "agent"}, Ack(i, actor) PROVE RouteStep
<1> DEFINE f == IF actor = "human" THEN [eps[i] EXCEPT !.human = TRUE]
                ELSE [eps[i] EXCEPT !.agent = TRUE]
<1>1. eps' = [eps EXCEPT ![i] = f] /\ UNCHANGED <<scope, streams>>
  BY DEF Ack
<1>2. Persists(eps[i], f)
  BY RouteEpisode DEF Persists, Plain, Episode
<1> HIDE DEF f
<1> QED
  BY <1>1, <1>2, OneEpisode, SameStreams DEF RouteStep, Binds

LEMMA ConfigureStep == ASSUME RouteInv, NEW c \in Ids, ConfigureReview(c) PROVE RouteStep
<1> DEFINE f == [eps[c] EXCEPT !.failed = FALSE]
<1>1. eps' = [eps EXCEPT ![c] = f] /\ UNCHANGED <<scope, streams>>
  BY DEF ConfigureReview
<1>2. Persists(eps[c], f)
  BY RouteEpisode DEF Persists, Plain, Episode
<1> HIDE DEF f
<1> QED
  BY <1>1, <1>2, OneEpisode, SameStreams DEF RouteStep, Binds

LEMMA ClaimStep == ASSUME RouteInv, NEW c \in Ids, ClaimReview(c) PROVE RouteStep
<1> DEFINE claim == ClaimNow(c, Cardinality(reports) + 1)
           f     == [eps[c] EXCEPT !.status = "in_progress", !.claim = claim]
<1>1. /\ eps[c].status = "pending" /\ c \in Checkers /\ UNCHANGED <<scope, streams>>
      /\ eps' = [eps EXCEPT ![c].status = "in_progress", ![c].claim = claim]
  BY DEF ClaimReview
<1> HIDE DEF claim
<1>2. eps' = [eps EXCEPT ![c] = f]
  BY <1>1 DEF RouteInv, CountInv, ReviewInv, WorkInv
<1>3. Persists(eps[c], f)
  BY <1>1, RouteEpisode DEF Persists, Plain, Episode, EpTerminal, Checkers
<1> HIDE DEF f
<1> QED
  BY <1>1, <1>2, <1>3, OneEpisode, SameStreams DEF RouteStep, Binds

-----------------------------------------------------------------------------
(* An episode that is new.                                                   *)
LEMMA AppendStep ==
  ASSUME RouteInv, NEW e \in Episode, eps' = Append(eps, e), Plain(e),
         e.ws # None => Open(e.ws),
         e.role = "checker" => /\ e.target \in DoneMakers
                               /\ e.ws = eps[e.target].ws /\ e.point = eps[e.target].point
  PROVE  Grows
<1>1. /\ \A i \in Ids : i \in Ids' /\ eps'[i] = eps[i]
      /\ eps'[Len(eps')] = e /\ Ids' = Ids \cup {Len(eps')} /\ Len(eps') = Len(eps) + 1
  BY Appended DEF RouteInv, CountInv
<1>2. \A i \in Ids : Persists(eps[i], eps'[i])
  BY <1>1, RouteEpisode DEF Persists
<1>3. ASSUME NEW i \in Ids' \ Ids PROVE Born(i)
  <2>1. eps'[i] = e /\ i = Len(eps) + 1
    BY <1>1
  <2>2. \A m \in DoneMakers : m < i
    BY <2>1 DEF DoneMakers, Makers, Ids, RouteInv, CountInv, ReviewInv, WorkInv
  <2> QED
    BY <2>1, <2>2 DEF Born
<1> QED
  BY <1>1, <1>2, <1>3 DEF Grows

LEMMA NewEpisodePoint ==
  ASSUME NEW role, NEW w, NEW p, NEW target, NEW proof
  PROVE  NewEpisode(role, w, p, target, proof).point = p
  BY DEF NewEpisode

LEMMA NewMakerStep ==
  ASSUME RouteInv, NEW w \in Workstreams \cup {None}, NEW p \in Points, NEW proof \in BOOLEAN,
         NewMaker(w, p, proof)
  PROVE  RouteStep
<1> DEFINE e == NewEpisode("maker", w, p, 0, proof)
<1>1. eps' = Append(eps, e) /\ (w # None => Open(w)) /\ UNCHANGED <<scope, streams>>
  BY DEF NewMaker, MayMake
<1>2. e \in Episode /\ e.role = "maker" /\ e.ws = w
  <2>1. "maker" \in {"maker", "checker"} /\ 0 \in Nat
    OBVIOUS
  <2> QED
    BY <2>1, NewEpisodeTyped DEF RouteInv, CountInv
<1>3. e.status = "pending"
  BY NewEpisodeFresh
<1> HIDE DEF e
<1>4. Plain(e)
  BY <1>3 DEF Plain
<1> QED
  BY <1>1, <1>2, <1>4, AppendStep, SameStreams DEF RouteStep, Binds

LEMMA CommitDispatchStep ==
  ASSUME RouteInv, CommitDispatch
  PROVE  RouteStep
<1>0. PICK m : m = dispatching.target
  OBVIOUS
<1> DEFINE n == NewEpisode("checker", eps[m].ws, eps[m].point, m, FALSE)
           e == [n EXCEPT !.flags = dispatching.flags]
<1>1. /\ dispatching # None /\ dispatching.flags = flags /\ Open(eps[m].ws)
      /\ eps' = Append(eps, e) /\ UNCHANGED <<scope, streams>>
  BY <1>0 DEF CommitDispatch, DispatchStands
<1>2. /\ m \in Nat /\ m \in Ids /\ m \in DoneMakers /\ eps[m].ws \in Workstreams /\ flags \in Nat
  BY <1>0, <1>1 DEF RouteInv, CountInv, TargetsDone, ReviewInv, WorkInv, DispatchBound, Checkable,
     Makers, DoneMakers
<1>3. eps[m].point \in Points
  BY <1>2, RouteEpisode DEF Episode
<1>4. n \in Episode /\ n.role = "checker" /\ n.ws = eps[m].ws /\ n.target = m
      /\ n.point = eps[m].point
  <2>1. /\ "checker" \in {"maker", "checker"} /\ FALSE \in BOOLEAN /\ ReviewInv
        /\ eps[m].ws \in Workstreams \cup {None}
    BY <1>2 DEF RouteInv, CountInv
  <2>2. ASSUME NEW b \in BOOLEAN
        PROVE  LET c == NewEpisode("checker", eps[m].ws, eps[m].point, m, b)
               IN  /\ c \in Episode /\ c.role = "checker" /\ c.ws = eps[m].ws /\ c.target = m
                   /\ c.point = eps[m].point
    <3>1. NewEpisode("checker", eps[m].ws, eps[m].point, m, b).point = eps[m].point
      BY NewEpisodePoint
    <3> QED
      BY <1>2, <1>3, <2>1, <3>1, NewEpisodeTyped
  <2> QED
    BY <2>1, <2>2, Zenon
<1> HIDE DEF n
<1>5. /\ e \in Episode /\ e.role = "checker" /\ e.ws = eps[m].ws /\ e.target = m
      /\ e.point = eps[m].point
  BY <1>1, <1>2, <1>4 DEF Episode
<1> HIDE DEF e
<1>6. Plain(e) /\ Open(e.ws)
  BY <1>1, <1>5 DEF Plain
<1> QED
  BY <1>1, <1>2, <1>5, <1>6, AppendStep, SameStreams DEF RouteStep, Binds

(* The outcome of a review.                                                  *)
LEMMA CommitStep ==
  ASSUME RouteInv, NEW c \in Checkers, NEW verdict, NEW report \in Claim \cup {None},
         Commit(c, verdict, report), eps[c].status \notin EpTerminal
  PROVE  RouteStep
<1>0. PICK m : m = eps[c].target
  OBVIOUS
<1> DEFINE w  == eps[c].ws
           st == IF verdict = "APPROVE" THEN "approved" ELSE "rejected"
           ag == eps[m].agent \/ (verdict = "APPROVE" /\ ~eps[m].human /\ ~eps[m].agent)
           f  == [eps[c] EXCEPT !.status = st, !.report = report]
           g  == [eps[m] EXCEPT !.agent = ag]
           t  == [streams[w] EXCEPT !.done = @ \cup {eps[c].point}]
<1>1. /\ eps \in Seq(Episode) /\ c \in Ids /\ m \in Ids /\ c # m /\ m \in DoneMakers
      /\ eps[c].role = "checker" /\ eps[m].ws = eps[c].ws /\ eps[m].point = eps[c].point
      /\ eps[c].ws \in Workstreams
  BY <1>0 DEF RouteInv, CountInv, TargetsDone, ReviewInv, WorkInv, ChecksBound, Checkable, Checkers, Makers,
     Follows, DoneMakers
<1>2. /\ eps[c] \in Episode /\ eps[m] \in Episode /\ Plain(eps[m])
      /\ \A i \in Ids : Plain(eps[i])
  BY <1>1, RouteEpisode
<1>3. /\ UNCHANGED scope
      /\ eps' = [eps EXCEPT ![c].status = st, ![c].report = report, ![m].agent = ag]
      /\ \/ streams' = [streams EXCEPT ![w].done = @ \cup {eps[c].point}]
         \/ UNCHANGED streams
  BY <1>0, <1>1 DEF Commit, Ids
<1>4. ag \in BOOLEAN /\ st \in {"approved", "rejected"}
  OBVIOUS
<1> HIDE DEF ag, st
<1>5. /\ Persists(eps[c], f) /\ Persists(eps[m], g) /\ f \in Episode /\ g \in Episode
  <2>1. st \in Status /\ st \in EpTerminal
    BY <1>4 DEF Status, EpTerminal
  <2>2. f = [eps[c] EXCEPT !.status = st, !.report = report]
    OBVIOUS
  <2>3. Persists(eps[m], g) /\ g \in Episode
    BY <1>2, <1>4, Credited DEF Persists, Plain
  <2> HIDE DEF f, g
  <2>4. /\ f \in Episode /\ f.role = eps[c].role /\ f.ws = eps[c].ws /\ f.point = eps[c].point
        /\ f.target = eps[c].target /\ f.status = st
    BY <1>2, <2>1, <2>2 DEF Episode
  <2>5. Persists(eps[c], f)
    BY <1>1, <1>2, <2>1, <2>4 DEF Persists, Plain
  <2> QED
    BY <2>3, <2>4, <2>5
<1>6. /\ Ids' = Ids /\ eps'[c] = f /\ eps'[m] = g
      /\ \A i \in Ids \ {c, m} : eps'[i] = eps[i]
  <2>1. eps' = [[eps EXCEPT ![c] = f] EXCEPT ![m] = g]
    BY <1>1, <1>3 DEF Ids
  <2> HIDE DEF f, g
  <2> QED
    BY <1>1, <1>5, <2>1 DEF Ids
<1>7. Grows
  <2>1. \A i \in Ids \ {c, m} : Persists(eps[i], eps'[i])
    BY <1>2, <1>6 DEF Persists
  <2> HIDE DEF f, g
  <2> QED
    BY <1>5, <1>6, <2>1 DEF Grows
<1>8. Moves
  <2>1. CASE UNCHANGED streams
    BY <2>1, SameStreams
  <2>2. CASE streams' = [streams EXCEPT ![w].done = @ \cup {eps[c].point}]
    <3>1. streams \in [Workstreams -> StreamSet] /\ eps[c].point \in Points /\ streams[w] \in StreamSet
      BY <1>1, <1>2 DEF RouteInv, Episode
    <3>2. /\ t \in StreamSet /\ t.status = streams[w].status
          /\ t.done = streams[w].done \cup {eps[c].point}
      BY <3>1 DEF StreamSet
    <3>3. streams' = [streams EXCEPT ![w] = t]
      BY <2>2
    <3> HIDE DEF t
    <3>4. /\ streams' \in [Workstreams -> StreamSet] /\ streams'[w] = t
          /\ \A v \in Workstreams : v # w => streams'[v] = streams[v]
      BY <1>1, <3>1, <3>2, <3>3
    <3>5. ASSUME NEW v \in Workstreams PROVE MovesTo(v)
      <4>1. CASE v = w
        BY <1>1, <3>2, <3>4, <4>1 DEF MovesTo
      <4>2. CASE v # w
        BY <3>4, <4>2 DEF MovesTo
      <4> QED
        BY <4>1, <4>2
    <3> QED
      BY <3>4, <3>5 DEF Moves
  <2> QED
    BY <1>3, <2>1, <2>2
<1> QED
  BY <1>3, <1>7, <1>8 DEF RouteStep, Binds

-----------------------------------------------------------------------------
LEMMA StillStep == ASSUME RouteInv, UNCHANGED <<scope, streams, eps>> PROVE RouteStep
  BY SameEpisodes, SameStreams DEF RouteStep, Binds

LEMMA NextSessionStep ==
  ASSUME RouteInv, NEW keep \in BOOLEAN, NextSession(keep) PROVE RouteStep
<1>1. UNCHANGED <<streams, eps>> /\ ~scope'.closed /\ (scope'.ws # None => Open(scope'.ws))
  BY DEF NextSession, RouteInv, ScopeOpen
<1> QED
  BY <1>1, SameEpisodes, SameStreams DEF RouteStep, Binds

LEMMA OrdinaryStep ==
  ASSUME RouteInv, Ordinary PROVE RouteStep
<1>1. ASSUME NEW w \in Workstreams, NewWorkstream(w) \/ MergeWorkstream(w) PROVE RouteStep
  BY <1>1, NewWorkstreamStep, MergeStep
<1>2. ASSUME NEW w \in Workstreams, NEW final \in {"ready", "abandoned"}, CloseWorkstream(w, final)
      PROVE  RouteStep
  BY <1>2, CloseStep
<1>3. ASSUME NEW w \in Workstreams, NEW p \in Points, NewMaker(w, p, TRUE) PROVE RouteStep
  BY <1>3, NewMakerStep
<1>4. ASSUME NEW i \in Ids, StartMaker(i) \/ FinishMaker(i) \/ BlockReview(i) \/ ConfigureReview(i)
      PROVE  RouteStep
  BY <1>4, StartMakerStep, FinishMakerStep, BlockReviewStep, ConfigureStep
<1>5. ASSUME NEW i \in Ids, NEW verdict \in Verdicts, RecordReview(i, verdict) PROVE RouteStep
  BY <1>5, CommitStep DEF RecordReview, MayJudge, EpTerminal
<1>6. ASSUME NEW r \in reports, NEW verdict \in Verdicts, ImportReview(r, verdict) PROVE RouteStep
  BY <1>6, CommitStep DEF ImportReview, MayJudge, EpTerminal, RouteInv, CountInv, ReviewInv, WorkInv
<1>7. ASSUME NEW keep \in BOOLEAN, NextSession(keep) PROVE RouteStep
  BY <1>7, NextSessionStep
<1>8. CASE FinishRun("completed")
  BY <1>8, StillStep DEF FinishRun
<1> QED
  BY <1>1, <1>2, <1>3, <1>4, <1>5, <1>6, <1>7, <1>8 DEF Ordinary

LEMMA ExtraStep ==
  ASSUME RouteInv, Extra PROVE RouteStep
<1>1. ASSUME NEW w \in Workstreams, NEW on \in BOOLEAN, SetActive(w, on) PROVE RouteStep
  BY <1>1, SetActiveStep
<1>2. ASSUME NEW w \in Workstreams \cup {None}, NEW p \in Points, NEW proof \in BOOLEAN,
             NewMaker(w, p, proof)
      PROVE  RouteStep
  BY <1>2, NewMakerStep
<1>3. ASSUME NEW i \in Ids, NEW st \in {"pending", "in_progress", "blocked"}, RecordStatus(i, st)
      PROVE  RouteStep
  BY <1>3, RecordStatusStep
<1>4. ASSUME NEW i \in Ids, NEW failed \in BOOLEAN, AbandonEpisode(i, failed) PROVE RouteStep
  BY <1>4, AbandonStep
<1>5. ASSUME NEW i \in Ids, NEW actor \in {"human", "agent"}, Ack(i, actor) PROVE RouteStep
  BY <1>5, AckStep
<1>6. CASE PauseRun \/ ResetBreaker \/ FinishRun("stopped")
  BY <1>6, StillStep DEF PauseRun, ResetBreaker, FinishRun
<1> QED
  BY <1>1, <1>2, <1>3, <1>4, <1>5, <1>6 DEF Extra

LEMMA NextRoute == RouteInv /\ [Next]_vars => RouteInv'
<1> SUFFICES ASSUME RouteInv, [Next]_vars PROVE RouteInv'
  OBVIOUS
<1>1. CountInv'
  BY NextCounts DEF RouteInv
<1>2. RouteStep
  <2>1. CASE UNCHANGED vars
    BY <2>1, StillStep DEF vars, run
  <2>2. CASE Ordinary
    BY <2>2, OrdinaryStep
  <2>3. CASE Extra
    BY <2>3, ExtraStep
  <2>4. ASSUME NEW w \in Workstreams, Edit(w) PROVE RouteStep
    BY <2>4, StillStep DEF Edit, run
  <2>5. ASSUME NEW w \in Workstreams, NEW p \in Points, StartDispatch(w, p) PROVE RouteStep
    BY <2>5, StillStep DEF StartDispatch, run
  <2>6. CASE DropDispatch
    BY <2>6, StillStep DEF DropDispatch, run
  <2>7. CASE CommitDispatch
    BY <2>7, CommitDispatchStep
  <2>8. ASSUME NEW c \in Ids, ClaimReview(c) PROVE RouteStep
    BY <2>8, ClaimStep
  <2> QED
    BY <2>1, <2>2, <2>3, <2>4, <2>5, <2>6, <2>7, <2>8 DEF Next
<1> QED
  BY <1>1, <1>2, RouteKept DEF RouteStep

LEMMA InitRoute == Init => RouteInv
<1> SUFFICES ASSUME Init PROVE RouteInv
  OBVIOUS
<1>1. CountInv
  BY InitCounts
<1>2. Ids = {} /\ Checkers = {}
  BY DEF Init, Ids, Checkers
<1>3. \A w \in Workstreams : streams[w] \in StreamSet /\ streams[w].status = "absent" /\ streams[w].done = {}
  BY DEF Init, StreamSet
<1>4. streams \in [Workstreams -> StreamSet]
  BY <1>3 DEF Init
<1>5. Follows /\ WorkExists /\ PointsDone /\ ClosedIsProven
  BY <1>2, <1>3 DEF Follows, WorkExists, PointsDone, ClosedIsProven, Terminal
<1>6. ScopeOpen
  BY DEF Init, ScopeOpen
<1> QED
  BY <1>1, <1>4, <1>5, <1>6 DEF RouteInv

(* What was closed stays proven: whatever is made, reviewed, abandoned or    *)
(* dispatched later, no work of a closed workstream is open, and each review *)
(* point of a ready one has its last work approved by its last review.       *)
THEOREM ClosedStaysProven == Spec => []ClosedIsProven
<1>1. RouteInv => ClosedIsProven
  BY DEF RouteInv
<1> QED
  BY InitRoute, NextRoute, <1>1, PTL DEF Spec

-----------------------------------------------------------------------------
(* What next-action sees and advises.                                        *)
LEMMA FirstIn ==
  ASSUME NEW S \in SUBSET Ids, S # {}
  PROVE  First(S) \in S
<1> DEFINE R == OpToRel(<, Nat)
<1>1. S \subseteq Nat
  BY DEF Ids
<1>2. IsWellFoundedOn(R, Nat)
  BY NatLessThanWellFounded
<1> HIDE DEF R
<1>3. PICK x \in S : \A y \in S : ~(<<y, x>> \in R)
  BY <1>1, <1>2, WFMin
<1>4. ASSUME NEW y \in S PROVE x <= y
  <2>1. x \in Nat /\ y \in Nat
    BY <1>1
  <2>2. CASE y < x
    <3>1. <<y, x>> \in Nat \X Nat /\ <<y, x>>[1] < <<y, x>>[2]
      BY <2>1, <2>2
    <3>2. <<y, x>> \in R
      BY <3>1 DEF R, OpToRel
    <3> QED
      BY <1>3, <3>2
  <2> QED
    BY <2>1, <2>2
<1> QED
  BY <1>4 DEF First

(* The acceptance of one piece of advice.                                    *)
Accepted(a) ==
  LET i == a.episode
  IN  /\ a.type = "dispatch_maker"   => MayStart(i) \/ eps[i].ws = None
      /\ a.type = "dispatch_checker" => MayDispatch(eps[i].ws, eps[i].point)
      /\ a.type = "fix_episode"      => MayMake(eps[i].ws)
      /\ a.type = "finish"           => FinishProof(Ids)
      /\ a.type = "await_result"     => IF i \in Makers THEN MayStart(i) ELSE MayAbandon(i)
      /\ a.type \in {"orphan", "pending_checker", "blocked"} => MayAbandon(i)
      /\ a.type = "debt" => \E m \in DoneMakers : ~eps[m].human /\ MayAck(m, "human")
      /\ a.type # "unbound"

LEMMA ViewIds == View \subseteq Ids
  BY DEF View

(* What is in view is of a workstream that the scope admits, and that is     *)
(* open unless it is proven.                                                 *)
LEMMA ViewAdmits ==
  ASSUME RouteInv, ~scope.closed, NEW i \in View, eps[i].ws # None
  PROVE  /\ eps[i].ws \in Workstreams /\ Exists(eps[i].ws) /\ ScopeAdmits(eps[i].ws)
         /\ Open(eps[i].ws) \/ Closure(eps[i].ws)
<1> DEFINE w == eps[i].ws
<1>1. i \in Ids /\ Exists(w) /\ w \in Workstreams
  BY ViewIds DEF RouteInv, WorkExists, Exists
<1>2. Open(w) \/ Closure(w)
  BY <1>1 DEF RouteInv, ClosedIsProven, Open
<1>3. ScopeAdmits(w)
  <2>1. CASE InView = {}
    <3>1. scope.ws = None
      BY <2>1 DEF InView
    <3> QED
      BY <3>1 DEF ScopeAdmits
  <2>2. CASE InView # {}
    <3>1. w \in InView
      BY <2>2 DEF View
    <3> QED
      BY <3>1 DEF InView, ScopeAdmits
  <2> QED
    BY <2>1, <2>2
<1> QED
  BY <1>1, <1>2, <1>3

LEMMA UnsettledOpen ==
  ASSUME RouteInv, ~scope.closed, NEW i \in View, eps[i].ws # None, ~Settled(i)
  PROVE  Open(eps[i].ws) /\ ScopeAdmits(eps[i].ws)
<1>1. i \in EpisodesOf(eps[i].ws)
  BY ViewIds DEF EpisodesOf
<1>2. ~Closure(eps[i].ws)
  BY <1>1 DEF Closure, Converged
<1> QED
  BY <1>2, ViewAdmits

LEMMA ViewMayAbandon ==
  ASSUME RouteInv, ~scope.closed, NEW i \in View, eps[i].status \notin EpTerminal
  PROVE  MayAbandon(i)
  BY ViewAdmits DEF MayAbandon

LEMMA ViewMayStart ==
  ASSUME RouteInv, ~scope.closed, NEW i \in View, eps[i].ws # None,
         eps[i].status \notin EpTerminal
  PROVE  MayStart(i)
<1>1. ~Settled(i)
  BY DEF Settled, EpTerminal
<1> QED
  BY <1>1, UnsettledOpen DEF MayStart

LEMMA DebtAccepted == ASSUME RouteInv, ~scope.closed, Debt PROVE Accepted(A("debt"))
<1>1. IsFiniteSet(DoneMakers)
  <2>1. IsFiniteSet(Ids)
    BY FS_Interval DEF Ids, RouteInv, CountInv, ReviewInv, WorkInv
  <2>2. DoneMakers \subseteq Ids
    BY DEF DoneMakers, Makers
  <2> QED
    BY <2>1, <2>2, FS_Subset
<1>2. HumanReviewed # DoneMakers
  <2> SUFFICES ASSUME HumanReviewed = DoneMakers PROVE FALSE
    OBVIOUS
  <2>1. Cardinality(DoneMakers) \in Nat /\ Cardinality(DoneMakers) # 0
    BY <1>1, FS_CardinalityType, FS_EmptySet DEF Debt
  <2> QED
    BY <2>1 DEF Debt
<1>3. PICK m \in DoneMakers : ~eps[m].human
  BY <1>2 DEF HumanReviewed
<1>4. MayAck(m, "human")
  BY <1>3 DEF MayAck, DoneMakers
<1> QED
  BY <1>3, <1>4 DEF Accepted, A

LEMMA DispatchMakerAccepted ==
  ASSUME RouteInv, ~scope.closed, NEW i \in View \cap Makers, eps[i].status = "pending"
  PROVE  Accepted(DispatchMaker(i))
<1>1. MayAbandon(i) /\ (MayStart(i) \/ eps[i].ws = None)
  BY ViewMayAbandon, ViewMayStart DEF EpTerminal
<1> QED
  BY <1>1, DebtAccepted DEF DispatchMaker, Accepted, Of

LEMMA AwaitAccepted ==
  ASSUME RouteInv, ~scope.closed, NEW i \in View, eps[i].status = "in_progress"
  PROVE  Accepted(AwaitResult(i))
<1>1. MayAbandon(i)
  BY ViewMayAbandon DEF EpTerminal
<1>2. ASSUME i \in Makers PROVE MayStart(i)
  <2>1. eps[i].ws # None
    BY <1>2 DEF RouteInv, WorkExists, Plain, Makers
  <2> QED
    BY <2>1, ViewMayStart DEF EpTerminal
<1> QED
  BY <1>1, <1>2 DEF AwaitResult, Accepted, Of

LEMMA DispatchCheckAccepted ==
  ASSUME RouteInv, ~scope.closed, NEW i \in View \cap DoneMakers, ~Reviewed(i)
  PROVE  Accepted(DispatchCheck(i))
<1>1. eps[i].ws # None /\ i \in Ids
  BY DEF RouteInv, WorkExists, Plain, DoneMakers, Makers
<1>2. i \in EpisodesOf(eps[i].ws)
  BY <1>1 DEF EpisodesOf
<1>3. ~Closure(eps[i].ws)
  BY <1>2 DEF Closure, Converged
<1>4. Exists(eps[i].ws) /\ Open(eps[i].ws) /\ ScopeAdmits(eps[i].ws)
  BY <1>1, <1>3, ViewAdmits
<1>5. MayDispatch(eps[i].ws, eps[i].point)
  BY <1>4 DEF MayDispatch, Eligible
<1> QED
  BY <1>4, <1>5 DEF DispatchCheck, Accepted, Of

LEMMA FixAccepted ==
  ASSUME RouteInv, ~scope.closed, NEW i \in View \cap Checkers,
         eps[i].status = "rejected", ~Resolved(i)
  PROVE  Accepted(Of("fix_episode", i))
<1>1. ~Settled(i)
  BY DEF Settled
<1> QED
  BY <1>1, UnsettledOpen DEF MayMake, Accepted, Of

LEMMA WaitAccepted ==
  ASSUME RouteInv, ~scope.closed, NEW i \in View, eps[i].status \notin EpTerminal,
         NEW type \in {"pending_checker", "blocked"}
  PROVE  Accepted(Of(type, i))
  BY ViewMayAbandon DEF Accepted, Of

(* A proof of what is in view, when no scope is open, is one of the run.     *)
LEMMA FinishAccepted ==
  ASSUME RouteInv, ~scope.closed, FinishProof(View) PROVE Accepted(A("finish"))
<1>1. \A w \in Workstreams : ~Open(w)
  BY DEF FinishProof, Open
<1>2. scope.ws = None
  BY <1>1 DEF RouteInv, ScopeOpen, Open, Exists
<1>3. InView = {}
  BY <1>1, <1>2 DEF InView
<1> QED
  BY <1>3 DEF View, Accepted, A

-----------------------------------------------------------------------------
(* The branches of finishOrAdvance.                                          *)
LEMMA Advances ==
  ASSUME NEW V
  PROVE  LET pending    == {i \in V \cap Makers : eps[i].status = "pending"}
             rejected   == {i \in V \cap Checkers : eps[i].status = "rejected" /\ ~Resolved(i)}
             working    == {i \in V : eps[i].status = "in_progress"}
             waiting    == {i \in V \cap Checkers : eps[i].status = "pending"}
             unreviewed == UnreviewedIn(V)
         IN  \/ pending # {} /\ FinishOrAdvance(V) = DispatchMaker(First(pending))
             \/ rejected # {} /\ FinishOrAdvance(V) = Of("fix_episode", First(rejected))
             \/ working # {} /\ FinishOrAdvance(V) = AwaitResult(First(working))
             \/ waiting # {} /\ FinishOrAdvance(V) = Of("pending_checker", First(waiting))
             \/ unreviewed # {} /\ FinishOrAdvance(V) = DispatchCheck(First(unreviewed))
             \/ /\ pending \cup rejected \cup working \cup waiting \cup unreviewed = {}
                /\ FinishOrAdvance(V) = IF FinishProof(V) THEN A("finish") ELSE A("remains")
  BY DEF FinishOrAdvance

LEMMA FinishOrAdvanceAccepted ==
  ASSUME RouteInv, ~scope.closed PROVE Accepted(FinishOrAdvance(View))
<1> DEFINE pending    == {i \in View \cap Makers : eps[i].status = "pending"}
           rejected   == {i \in View \cap Checkers : eps[i].status = "rejected" /\ ~Resolved(i)}
           working    == {i \in View : eps[i].status = "in_progress"}
           waiting    == {i \in View \cap Checkers : eps[i].status = "pending"}
           unreviewed == UnreviewedIn(View)
<1>1. \A S \in SUBSET View : S # {} => First(S) \in S
  BY FirstIn, ViewIds
<1>2. CASE pending # {} /\ FinishOrAdvance(View) = DispatchMaker(First(pending))
  <2>1. First(pending) \in pending
    BY <1>1, <1>2
  <2> QED
    BY <1>2, <2>1, DispatchMakerAccepted
<1>3. CASE rejected # {} /\ FinishOrAdvance(View) = Of("fix_episode", First(rejected))
  <2>1. First(rejected) \in rejected
    BY <1>1, <1>3
  <2> QED
    BY <1>3, <2>1, FixAccepted
<1>4. CASE working # {} /\ FinishOrAdvance(View) = AwaitResult(First(working))
  <2>1. First(working) \in working
    BY <1>1, <1>4
  <2> QED
    BY <1>4, <2>1, AwaitAccepted
<1>5. CASE waiting # {} /\ FinishOrAdvance(View) = Of("pending_checker", First(waiting))
  <2>1. First(waiting) \in waiting
    BY <1>1, <1>5
  <2> QED
    BY <1>5, <2>1, WaitAccepted DEF EpTerminal
<1>6. CASE unreviewed # {} /\ FinishOrAdvance(View) = DispatchCheck(First(unreviewed))
  <2>1. unreviewed \in SUBSET View
    BY DEF UnreviewedIn
  <2>2. First(unreviewed) \in unreviewed
    BY <1>1, <1>6, <2>1
  <2> QED
    BY <1>6, <2>2, DispatchCheckAccepted DEF UnreviewedIn
<1>7. CASE FinishOrAdvance(View) = IF FinishProof(View) THEN A("finish") ELSE A("remains")
  BY <1>7, FinishAccepted DEF Accepted, A
<1> QED
  BY <1>2, <1>3, <1>4, <1>5, <1>6, <1>7, Advances

(* The last episode has no review yet.                                       *)
LEMMA LastUnreviewed == ASSUME RouteInv PROVE ~Reviewed(Len(eps))
<1> SUFFICES ASSUME NEW c \in Reviews(Len(eps)) PROVE FALSE
  BY DEF Reviewed
<1>1. c \in Checkers /\ c \in 1..Len(eps) /\ eps[c].target = Len(eps) /\ eps[c].target < c
  BY DEF Reviews, Judged, Checkers, Ids, RouteInv, Follows
<1>2. Len(eps) \in Nat
  BY DEF RouteInv, CountInv, ReviewInv, WorkInv
<1> QED
  BY <1>1, <1>2

LEMMA RouteBranches ==
  LET cur == Len(eps)
      e   == eps[cur]
  IN  \/ Debt /\ Route = A("debt")
      \/ Route = A("discover")
      \/ Route = FinishOrAdvance(View)
      \/ cur \in View /\ e.status = "blocked" /\ Route = Of("blocked", cur)
      \/ cur \in View /\ e.status = "in_progress" /\ Route = AwaitResult(cur)
      \/ cur \in View \cap Makers /\ e.status = "pending" /\ Route = DispatchMaker(cur)
      \/ cur \in View \cap Makers /\ e.status = "done" /\ Route = DispatchCheck(cur)
      \/ cur \in View \cap Checkers /\ e.status = "pending" /\ Route = Of("pending_checker", cur)
      \/ /\ cur \in View \cap Checkers /\ e.status = "rejected" /\ ~Resolved(cur)
         /\ Route = Of("fix_episode", cur)
  BY DEF Route

LEMMA RouteAccepted == ASSUME RouteInv, ~scope.closed PROVE Accepted(Route)
<1> DEFINE cur == Len(eps)
           e   == eps[cur]
<1>1. CASE Debt /\ Route = A("debt")
  BY <1>1, DebtAccepted
<1>2. CASE Route = A("discover")
  BY <1>2 DEF A, Accepted
<1>3. CASE Route = FinishOrAdvance(View)
  BY <1>3, FinishOrAdvanceAccepted
<1>4. CASE cur \in View /\ e.status = "blocked" /\ Route = Of("blocked", cur)
  BY <1>4, WaitAccepted DEF EpTerminal
<1>5. CASE cur \in View /\ e.status = "in_progress" /\ Route = AwaitResult(cur)
  BY <1>5, AwaitAccepted
<1>6. CASE cur \in View \cap Makers /\ e.status = "pending" /\ Route = DispatchMaker(cur)
  BY <1>6, DispatchMakerAccepted
<1>7. CASE cur \in View \cap Makers /\ e.status = "done" /\ Route = DispatchCheck(cur)
  BY <1>7, DispatchCheckAccepted, LastUnreviewed DEF DoneMakers
<1>8. CASE cur \in View \cap Checkers /\ e.status = "pending" /\ Route = Of("pending_checker", cur)
  BY <1>8, WaitAccepted DEF EpTerminal
<1>9. CASE /\ cur \in View \cap Checkers /\ e.status = "rejected" /\ ~Resolved(cur)
           /\ Route = Of("fix_episode", cur)
  BY <1>9, FixAccepted
<1> QED
  BY <1>1, <1>2, <1>3, <1>4, <1>5, <1>6, <1>7, <1>8, <1>9, RouteBranches

(* What next-action advises, the kernel accepts, for any workstreams, points *)
(* and number of episodes.                                                   *)
THEOREM AdviceIsAccepted == Spec => []AdviceAccepted
<1>1. RouteInv => AdviceAccepted
  <2> SUFFICES ASSUME RouteInv PROVE Accepted(Advice)
    BY DEF AdviceAccepted, Accepted
  <2>1. CASE breaker.tripped \/ breaker.count >= Threshold
    BY <2>1 DEF Advice, Accepted, A
  <2>2. CASE ~(breaker.tripped \/ breaker.count >= Threshold)
    <3>1. CASE scope.closed
      BY <2>2, <3>1 DEF Advice, Accepted, A, RouteInv, ScopeOpen
    <3>2. CASE ~scope.closed
      BY <2>2, <3>2, RouteAccepted DEF Advice
    <3> QED
      BY <3>1, <3>2
  <2> QED
    BY <2>1, <2>2
<1> QED
  BY InitRoute, NextRoute, <1>1, PTL DEF Spec

-----------------------------------------------------------------------------
(* Nothing remains but by finishOrAdvance, in its last branch.               *)
LEMMA RemainsOnlyLast ==
  ASSUME RouteInv, Advice.type = "remains"
  PROVE  /\ \A i \in View : /\ ~(i \in Makers /\ eps[i].status = "pending")
                            /\ ~(i \in Checkers /\ eps[i].status = "rejected" /\ ~Resolved(i))
                            /\ eps[i].status # "in_progress"
                            /\ ~(i \in Checkers /\ eps[i].status = "pending")
         /\ UnreviewedIn(View) = {}
<1> DEFINE pending    == {i \in View \cap Makers : eps[i].status = "pending"}
           rejected   == {i \in View \cap Checkers : eps[i].status = "rejected" /\ ~Resolved(i)}
           working    == {i \in View : eps[i].status = "in_progress"}
           waiting    == {i \in View \cap Checkers : eps[i].status = "pending"}
           unreviewed == UnreviewedIn(View)
<1>1. Advice = Route
  BY DEF Advice, A
<1>2. /\ \A i : DispatchMaker(i).type # "remains"
      /\ \A i : AwaitResult(i).type # "remains"
      /\ \A i : DispatchCheck(i).type # "remains"
      /\ \A i, type : Of(type, i).type = type
  BY DEF DispatchMaker, AwaitResult, DispatchCheck, A, Of
<1>3. Route = FinishOrAdvance(View)
  BY <1>1, <1>2, RouteBranches DEF A
<1>4. FinishOrAdvance(View).type = "remains"
  BY <1>1, <1>3
<1>5. \/ pending # {} /\ FinishOrAdvance(View) = DispatchMaker(First(pending))
      \/ rejected # {} /\ FinishOrAdvance(View) = Of("fix_episode", First(rejected))
      \/ working # {} /\ FinishOrAdvance(View) = AwaitResult(First(working))
      \/ waiting # {} /\ FinishOrAdvance(View) = Of("pending_checker", First(waiting))
      \/ unreviewed # {} /\ FinishOrAdvance(View) = DispatchCheck(First(unreviewed))
      \/ pending \cup rejected \cup working \cup waiting \cup unreviewed = {}
  BY Advances
<1> HIDE DEF pending, rejected, working, waiting, unreviewed
<1>6. pending \cup rejected \cup working \cup waiting \cup unreviewed = {}
  BY <1>2, <1>4, <1>5
<1> QED
  BY <1>6 DEF pending, rejected, working, waiting, unreviewed

(* When routing has nothing left to advise, what is in view has converged,   *)
(* blocked work apart.                                                       *)
THEOREM RoutingMissesNothing == Spec => []RoutingSeesAllWork
<1>1. RouteInv => RoutingSeesAllWork
  <2> DEFINE S == {i \in View : eps[i].status # "blocked"}
  <2> SUFFICES ASSUME RouteInv, Advice.type = "remains" PROVE Converged(S)
    BY DEF RoutingSeesAllWork
  <2>1. /\ \A i \in View : /\ ~(i \in Makers /\ eps[i].status = "pending")
                           /\ ~(i \in Checkers /\ eps[i].status = "rejected" /\ ~Resolved(i))
                           /\ eps[i].status # "in_progress"
                           /\ ~(i \in Checkers /\ eps[i].status = "pending")
        /\ UnreviewedIn(View) = {}
    BY RemainsOnlyLast
  <2>2. ASSUME NEW i \in S PROVE Settled(i)
    <3>1. i \in Ids /\ eps[i] \in Episode /\ Plain(eps[i])
      BY ViewIds, RouteEpisode
    <3>2. (i \in Makers \/ i \in Checkers) /\ eps[i].status \in Status
      BY <3>1 DEF Makers, Checkers, Episode
    <3> QED
      BY <2>1, <3>1, <3>2 DEF Settled, Status, EpTerminal, Plain, Makers, Checkers
  <2>3. ASSUME NEW m \in S \cap DoneMakers PROVE Reviewed(m)
    BY <2>1 DEF UnreviewedIn
  <2>4. ASSUME NEW m \in LatestMakers(S) PROVE ApprovedLast(m)
    <3>1. m \in S \cap DoneMakers /\ m \in View /\ m \in Ids
      BY ViewIds DEF LatestMakers
    <3>2. Reviews(m) # {} /\ Reviews(m) \subseteq 1..Len(eps) /\ Len(eps) \in Nat
      BY <2>3, <3>1 DEF Reviewed, Reviews, Judged, Checkers, Ids, RouteInv, CountInv, ReviewInv, WorkInv
    <3>3. PICK c \in Reviews(m) : c = Latest(Reviews(m)) /\ \A d \in Reviews(m) : d <= c
      <4>1. \E c \in Reviews(m) : \A d \in Reviews(m) : d <= c
        BY <3>2, LatestMost
      <4> QED
        BY <4>1 DEF Latest
    <3>4. /\ c \in Judged /\ c \in Checkers /\ eps[c].target = m /\ c \in Ids
          /\ eps[c].ws = eps[m].ws /\ eps[c].point = eps[m].point
      BY DEF Reviews, Judged, Checkers, RouteInv, Follows
    <3>5. c \in View
      BY <3>1, <3>4 DEF View
    <3>6. CASE eps[c].status = "rejected"
      <4>1. Resolved(c)
        BY <2>1, <3>4, <3>5, <3>6
      <4>2. ~\E d \in Reviews(m) : eps[d].status = "approved" /\ d > c
        BY <3>2, <3>3
      <4>3. PICK n \in DoneMakers : eps[n].ws = eps[m].ws /\ eps[n].point = eps[m].point /\ n > m
        BY <3>4, <4>1, <4>2 DEF Resolved
      <4>4. n \in S
        BY <3>1, <4>3 DEF View, DoneMakers, Makers
      <4>5. n <= m
        BY <4>3, <4>4 DEF LatestMakers
      <4> QED
        BY <3>1, <4>3, <4>5 DEF DoneMakers, Makers, Ids
    <3> QED
      BY <2>3, <3>1, <3>3, <3>4, <3>6 DEF ApprovedLast, Judged
  <2> HIDE DEF S
  <2> QED
    BY <2>2, <2>3, <2>4 DEF Converged
<1> QED
  BY InitRoute, NextRoute, <1>1, PTL DEF Spec
=============================================================================
