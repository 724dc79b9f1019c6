---------------------------- MODULE AtomicCommit ----------------------------
(* What the store of a run promises its callers: the state of the run moves  *)
(* from one whole commit to the next, whatever files it is kept in.  A commit*)
(* may be decided before its caller hears of it, and the caller may never    *)
(* hear; it hears only of what is decided.  An operation that is named by an *)
(* id is decided once, however often it is tried.                            *)
EXTENDS Sequences

CONSTANTS Op,         \* operations that commit
          Once,       \* those that are named by an operation id
          Lines(_),   \* the event lines of an operation
          Apply(_, _) \* the state after an operation

VARIABLES value,      \* the state of the run
          acked       \* operations that have returned

InLog(o) == \E i \in DOMAIN value.head : value.head[i] \in {Lines(o)[j] : j \in DOMAIN Lines(o)}

Init(start) == value = start /\ acked = {}

Commit(o) == /\ o \in Once => ~InLog(o)
             /\ value' = Apply(value, o)
             /\ UNCHANGED acked

Return(o) == /\ Lines(o) # <<>> => InLog(o)
             /\ acked' = acked \cup {o}
             /\ UNCHANGED value

Next == \E o \in Op : Commit(o) \/ Return(o)
=============================================================================
