------------------------------- MODULE MCCapture -------------------------------
(***************************************************************************)
(* Two criteria, two page loads at a time.                                 *)
(***************************************************************************)
EXTENDS Capture, TLC

MCSymmetry == Permutations(ACs) \cup Permutations(Loads) \cup Permutations(Dispatches)
================================================================================
