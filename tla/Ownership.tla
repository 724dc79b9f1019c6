----------------------------- MODULE Ownership -----------------------------
(* What the session chain promises about one run, without saying how: at any *)
(* time one session is the holder; a term names one stretch of holding; the  *)
(* holder lays the run down before another takes it up; while an heir is     *)
(* named nobody but the heir takes it up; and a run that has ended is never  *)
(* taken up again.                                                           *)
EXTENDS Naturals

CONSTANTS Session, Root, None

VARIABLES holder,   \* the session the current term belongs to
          term,     \* the fencing number of every write
          held,     \* whether the holder still holds the run
          heir,     \* the session reserved to be the next holder
          ended     \* whether the run is completed or stopped

ownershipVars == <<holder, term, held, heir, ended>>

Init == holder = Root /\ term = 1 /\ held = TRUE /\ heir = None /\ ended = FALSE

(* Within a term the run may be laid down and taken back by its holder, and  *)
(* an heir named, replaced or dropped.                                       *)
Arrange == /\ ~ended
           /\ held' \in BOOLEAN /\ heir' \in Session \cup {None}
           /\ UNCHANGED <<holder, term, ended>>

TakeUp(s) == /\ ~ended /\ ~held /\ heir \in {None, s}
             /\ holder' = s /\ term' = term + 1 /\ held' = TRUE /\ heir' = None
             /\ UNCHANGED ended

End == ~ended /\ held /\ ended' = TRUE /\ UNCHANGED <<holder, term, held, heir>>

(* What is left to do after the end is to let go.                            *)
LetGo == /\ ended /\ held' \in {held, FALSE} /\ heir' \in {heir, None}
         /\ UNCHANGED <<holder, term, ended>>

Next == Arrange \/ End \/ LetGo \/ \E s \in Session : TakeUp(s)

Spec == Init /\ [][Next]_ownershipVars
=============================================================================
