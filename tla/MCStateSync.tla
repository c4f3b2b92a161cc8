------------------------------ MODULE MCStateSync ------------------------------
(***************************************************************************)
(* Two stages, one of them a sign-off, whose gate-confirm reports another  *)
(* name than its own.                                                      *)
(***************************************************************************)
EXTENDS StateSync

MCSkills == {"test-plan", "definition-of-ready"}
================================================================================
