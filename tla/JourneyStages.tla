---------------------------- MODULE JourneyStages ----------------------------
(***************************************************************************)
(* The outer-loop stage order of a journey and the pure functions          *)
(* journey-store.js computes from it.  Stage names outside STAGE_SEQUENCE  *)
(* reach these functions too (inner-loop gate names, the empty string of a *)
(* journey with no active skill), so every operator is total.              *)
(***************************************************************************)
EXTENDS Naturals, Sequences

STAGE_SEQUENCE ==
    << "ideate", "discovery", "benefit-metric", "design", "definition",
       "review", "test-plan", "definition-of-ready" >>

Stages == {STAGE_SEQUENCE[i] : i \in DOMAIN STAGE_SEQUENCE}

\* JavaScript's null for a stage name.
NoStage == "null"

isKnownStage(stage) == stage \in Stages

\* The position of a known stage (1-based).
Position(stage) == CHOOSE i \in DOMAIN STAGE_SEQUENCE : STAGE_SEQUENCE[i] = stage

getNextStage(stage) ==
    IF isKnownStage(stage) /\ Position(stage) < Len(STAGE_SEQUENCE)
    THEN STAGE_SEQUENCE[Position(stage) + 1]
    ELSE NoStage

\* slice(idx + 1), as a set: its callers only test membership.
getDownstreamStages(stage) ==
    IF isKnownStage(stage)
    THEN {s \in Stages : Position(s) > Position(stage)}
    ELSE {}

isStrictlyLaterStage(earlierStage, stage) ==
    stage \in getDownstreamStages(earlierStage)

\* The latest member of STAGE_SEQUENCE among the completed skill names.
getLatestKnownStage(completed) ==
    LET known == completed \cap Stages
    IN  IF known = {} THEN NoStage
        ELSE CHOOSE s \in known : \A t \in known : Position(t) <= Position(s)
==============================================================================
