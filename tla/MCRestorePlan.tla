--------------------------- MODULE MCRestorePlan ---------------------------
(***************************************************************************)
(* RestorePlan over every session of at most two windows of at most four   *)
(* tabs, and every screen of at most two windows with at most two tabs on  *)
(* a url.  Four tabs are the fewest of which one is below the threshold,   *)
(* and two windows on each side are the fewest that can be confused.       *)
(***************************************************************************)
EXTENDS RestorePlan

Upto(S, n) == UNION {[1 .. m -> S] : m \in 0 .. n}
MCSessions == Upto(Upto(Key, 4), 2)
Tally == {c \in [Key -> 0 .. 2] : \E k \in Key : c[k] > 0}
MCScreens == Upto(Tally, 2)
=============================================================================
