------------------------------ MODULE MCStageFlow ------------------------------
(***************************************************************************)
(* StageFlow for TLC: from definition on, so that the story list, the      *)
(* feature-level stage after it and the cycle of two stories are passed.   *)
(***************************************************************************)
EXTENDS StageFlow, TLC
===============================================================================
