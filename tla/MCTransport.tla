---------------------------- MODULE MCTransport ----------------------------
(***************************************************************************)
(* Transport with two relays, the fewest of which one lingers while the    *)
(* next connects, and two instances, so that one that is not given back is *)
(* missed.                                                                 *)
(***************************************************************************)
EXTENDS Transport

MCBackoff == <<5, 15>>
=============================================================================
