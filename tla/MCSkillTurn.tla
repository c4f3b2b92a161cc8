----------------------------- MODULE MCSkillTurn ------------------------------
(***************************************************************************)
(* A small instance of SkillTurn.                                          *)
(***************************************************************************)
EXTENDS SkillTurn
===============================================================================
