---------------------------- MODULE MCStageArtefact ----------------------------
(***************************************************************************)
(* Two people edit an artefact of two lines, with two saves.  The merge    *)
(* alone is tried on three lines, all different or the first one twice,    *)
(* and every two versions of up to three lines, each the original's or one *)
(* of the writer's own, in any order.                                      *)
(***************************************************************************)
EXTENDS StageArtefact, TLC

MCOriginal == <<"1", "2">>

MCBases == {<<"1", "2", "3">>, <<"1", "2", "1">>}
Versions(base, own) == UNION {[1 .. n -> Lines(base) \cup {own}] : n \in 0 .. 3}
MCSamples ==
    UNION {{<<base, a, b>> : a \in Versions(base, "x"), b \in Versions(base, "y")} :
             base \in MCBases}
MCNoSamples == {}

MCSymmetry == Permutations(Saves)
================================================================================
