--------------------------- MODULE MCPrivateStore ---------------------------
(***************************************************************************)
(* PrivateStore on small instances.  One tab has a live row and a copy in  *)
(* each snapshot; the settings page may ask for no hours or for more than  *)
(* a week; a key is due after two ticks, so a row may be under an old one; *)
(* and a sweep is due every tick.  What is open is reported again by every *)
(* reconcile, so one event of the user suffices.                           *)
(***************************************************************************)
EXTENDS PrivateStore
Hours == {0, 3}
=============================================================================
