---------------------------- MODULE MCJourneyDisk -----------------------------
(***************************************************************************)
(* A small instance of JourneyDisk: the stage journeys start at and its    *)
(* successor.                                                              *)
(***************************************************************************)
EXTENDS JourneyDisk, TLC

MCTwoSkills == {"discovery", "benefit-metric"}

\* Journeys and slugs are interchangeable: nothing orders or names them.
MCSymmetry == Permutations(Journeys) \cup Permutations(Slugs)
===============================================================================
