--------------------------- MODULE MCAnchoredLog ---------------------------
(* A small instance of the store for TLC: a publication that replaces its    *)
(* first artifact, finds the second as it wants it, and adds the third.      *)
EXTENDS AnchoredLog, TLC

CONSTANTS w, q, p, r, e, old, same, new, added

MCInitial == <<old, same, NoBytes>>
MCBytes   == p :> <<new, same, added>>
=============================================================================
