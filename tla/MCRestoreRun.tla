---------------------------- MODULE MCRestoreRun ----------------------------
(***************************************************************************)
(* RestoreRun on small instances.  One application, one browser and one    *)
(* url that may be open twice are enough for two runs of one episode, an   *)
(* offer of which part is open, and a result that is lost.  Two events are *)
(* two lives of the agent, or one and an act of the user; one tick ends an *)
(* episode.  One snapshot is retained, so every start prunes.              *)
(***************************************************************************)
EXTENDS RestoreRun
=============================================================================
