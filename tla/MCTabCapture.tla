---------------------------- MODULE MCTabCapture ----------------------------
(***************************************************************************)
(* TabCapture on small instances.  One profile of one browser meets every  *)
(* eviction and broken pipe; two profiles show what one does to the other. *)
(***************************************************************************)
EXTENDS TabCapture

CONSTANTS x1, x2, chrome, w1, w2, t1, t2, v1, v2, v3

\* A browser starts with a tab, or its extension before any window.
OneOpen == {{k} : k \in TabKey}
NoneOrOne == {{}} \cup OneOpen

\* One profile.
OneBrowser == [x \in {x1} |-> chrome]
OneIds == [x \in {x1} |-> {w1, w2}]
OneIdOnly == [x \in {x1} |-> {w1}]
OneContent == [x \in {x1} |-> Version]

\* Two profiles of one Chrome: one process hands out every window id.
SameChrome == [x \in {x1, x2} |-> chrome]
ApartIds == [x \in {x1, x2} |-> IF x = x1 THEN {w1} ELSE {w2}]

ApartContent == [x \in {x1, x2} |-> IF x = x1 THEN {v1, v2} ELSE {v3}]

\* Windows, tabs and contents are interchangeable to one profile.
Symmetric == Permutations({w1, w2}) \cup Permutations({t1, t2}) \cup Permutations({v1, v2})
=============================================================================
