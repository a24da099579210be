----------------------------- MODULE OfferPolicy -----------------------------
(***************************************************************************)
(* What the agent promises about restore offers, with no threads in it.    *)
(*                                                                         *)
(* One run of the agent owes each claim key (a browser and a profile) at   *)
(* most one offer.  While the review is unanswered nothing is given out,   *)
(* a refusal gives nothing out but keeps what is owed, and once an answer  *)
(* has been given the run never goes back to waiting for the first one.    *)
(* RestoreOffer implements this specification.                             *)
(***************************************************************************)
CONSTANT ClaimKey

VARIABLES
    phase,   \* "asking", "refused" or "open"
    given    \* the claim keys whose one offer has been claimed

vars == <<phase, given>>

Init ==
    /\ phase \in {"asking", "open"}
    /\ given = {}

\* The user answers, dismisses, or changes an earlier answer.
Decide ==
    /\ phase' \in {"refused", "open"}
    /\ UNCHANGED given

\* One claim key is served, and only while offers are open.
Give(k) ==
    /\ phase = "open"
    /\ k \notin given
    /\ given' = given \cup {k}
    /\ UNCHANGED phase

Next == Decide \/ \E k \in ClaimKey : Give(k)

Spec == Init /\ [][Next]_vars
=============================================================================
