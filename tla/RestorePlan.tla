---------------------------- MODULE RestorePlan ----------------------------
(***************************************************************************)
(* planRestore (extension/src/background/plan.ts): which of the tabs of a  *)
(* stored session to create, given what the browser has open already, for  *)
(* instance from its own "continue where you left off".                    *)
(*                                                                         *)
(* A tab is the comparison key normalizeUrl makes of its url.  A stored    *)
(* window is a sequence of keys; an open one, in the order the browser     *)
(* lists them, counts its tabs by key.  Each step is one turn of the loop  *)
(* over the stored windows.                                                *)
(***************************************************************************)
EXTENDS Integers, Sequences, FiniteSets

CONSTANTS
    Key,        \* comparison keys
    Sessions,   \* the stored sessions an offer may hold
    Screens     \* what may be open when the plan is made

ASSUME SessionsAssumption == Sessions \subseteq Seq(Seq(Key))
ASSUME ScreensAssumption == Screens \subseteq Seq([Key -> Nat])

VARIABLES
    desired,   \* the stored windows
    open,      \* the open windows
    target,    \* target[i]: the open window stored window i was found in, or 0
    missing    \* missing[i]: the positions of window i to create

vars == <<desired, open, target, missing>>

Done == Len(target)

\* Open windows that an earlier stored window was found in.
Claimed == {target[i] : i \in DOMAIN target}

\* How many tabs of w are open in window r; each of w's tabs is looked up alone.
Shared(w, r) == Cardinality({p \in DOMAIN w : open[r][w[p]] > 0})

\* WINDOW_MATCH_THRESHOLD = 0.3.
Resembles(w, r) == Shared(w, r) > 0 /\ 10 * Shared(w, r) >= 3 * Len(w)

\* Mutant: the last of the best is taken.
BestLast(w) ==
    {r \in DOMAIN open \ Claimed :
        /\ Resembles(w, r)
        /\ \A q \in DOMAIN open \ Claimed :
              Shared(w, q) < Shared(w, r) \/ (Shared(w, q) = Shared(w, r) /\ q <= r)}

\* Mutant: the score is taken over the open window's tabs too (Jaccard).
BestJaccard(w) ==
    {r \in DOMAIN open \ Claimed :
        /\ Shared(w, r) > 0
        /\ 10 * Shared(w, r) >= 3 * (Len(w) + Cardinality({k \in Key : open[r][k] > 0}))
        /\ \A q \in DOMAIN open \ Claimed :
              Shared(w, q) < Shared(w, r) \/ (Shared(w, q) = Shared(w, r) /\ r <= q)}

\* The first of the unclaimed windows that share most with w, if near enough.
Best(w) ==
    {r \in DOMAIN open \ Claimed :
        /\ Resembles(w, r)
        /\ \A q \in DOMAIN open \ Claimed :
              Shared(w, q) < Shared(w, r) \/ (Shared(w, q) = Shared(w, r) /\ r <= q)}

\* Mutant: a set of keys instead of counts.
MissingAsSet(w, r) == {p \in DOMAIN w : open[r][w[p]] = 0}

\* The tabs of w that remain when one open tab is consumed for each found.
Missing(w, r) ==
    {p \in DOMAIN w : Cardinality({q \in 1 .. p : w[q] = w[p]}) > open[r][w[p]]}

Init ==
    /\ desired \in Sessions
    /\ open \in Screens
    /\ target = <<>>
    /\ missing = <<>>

\* Found: only what is missing is added to the open window.
TopUp(w) ==
    \E r \in Best(w) :
        /\ target' = Append(target, r)
        /\ missing' = Append(missing, Missing(w, r))

\* Nothing like it is open: it is created whole.
CreateWhole(w) ==
    /\ Best(w) = {}
    /\ target' = Append(target, 0)
    /\ missing' = Append(missing, DOMAIN w)

PlanWindow ==
    /\ Done < Len(desired)
    /\ TopUp(desired[Done + 1]) \/ CreateWhole(desired[Done + 1])
    /\ UNCHANGED <<desired, open>>

Next == PlanWindow

Spec == Init /\ [][Next]_vars

-----------------------------------------------------------------------------
(* Properties of the windows planned so far.                               *)

TypeOK ==
    /\ desired \in Sessions
    /\ open \in Screens
    /\ Done <= Len(desired)
    /\ target \in Seq(0 .. Len(open))
    /\ missing \in Seq(SUBSET Nat) /\ Len(missing) = Done
    /\ \A i \in DOMAIN missing : missing[i] \subseteq DOMAIN desired[i]

Count(w, k) == Cardinality({p \in DOMAIN w : w[p] = k})
Added(i, k) == Cardinality({p \in missing[i] : desired[i][p] = k})
Present(i, k) == IF target[i] = 0 THEN 0 ELSE open[target[i]][k]

\* Each stored window comes back in a window of its own, with every tab it had
\* as often as it had it, and no tab is created that the window held already.
ExactlyRestored ==
    \A i \in DOMAIN target :
        /\ \A j \in DOMAIN target : target[i] = target[j] /\ target[i] # 0 => i = j
        /\ \A k \in Key :
              Added(i, k) = IF Count(desired[i], k) > Present(i, k)
                            THEN Count(desired[i], k) - Present(i, k) ELSE 0

\* The browser brought every stored window back, in the stored order, perhaps
\* with more tabs in it.
RestoredInOrder ==
    /\ Len(open) = Len(desired)
    /\ \A i \in DOMAIN desired :
          /\ desired[i] # <<>>
          /\ \A k \in Key : open[i][k] >= Count(desired[i], k)

\* Nothing is created when the browser's own restore did all of it in order,
\* even when windows share tabs.
NothingTwice ==
    RestoredInOrder => \A i \in DOMAIN missing : target[i] = i /\ missing[i] = {}

\* What is open are parts of distinct stored windows, in any order, and no two
\* stored windows share a tab.
PartlyRestored ==
    /\ \A i, j \in DOMAIN desired : \A k \in Key :
          Count(desired[i], k) > 0 /\ Count(desired[j], k) > 0 => i = j
    /\ \A r \in DOMAIN open : \E i \in DOMAIN desired : \A k \in Key :
          /\ open[r][k] <= Count(desired[i], k)
          /\ \A q \in DOMAIN open \ {r} : open[q][k] = 0 \/ Count(desired[i], k) = 0

\* Then a window of which three tabs in ten are open is completed where it is,
\* so no tab ends up open more often than it was stored.
CompletedInPlace ==
    PartlyRestored =>
        \A i \in DOMAIN target : \A r \in DOMAIN open :
            LET kept == {p \in DOMAIN desired[i] : open[r][desired[i][p]] > 0} IN
            kept # {} /\ 10 * Cardinality(kept) >= 3 * Len(desired[i]) => target[i] = r

=============================================================================
