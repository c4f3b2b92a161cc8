---------------------------- MODULE MCJourneyStore ----------------------------
(***************************************************************************)
(* Instances of JourneyStore for TLC.                                      *)
(***************************************************************************)
EXTENDS JourneyStore

MCSkills == {"discovery", "design"}
MCOneSkill == {"discovery"}
MCNobody == {}
MCBothTables == {"session_turns", "artefacts"}
MCNoTable == {}
===============================================================================
