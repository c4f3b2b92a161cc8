----------------------------- MODULE StageProgress -----------------------------
(***************************************************************************)
(* What the journey routes promise of a journey's progress, whatever       *)
(* sessions, requests and awaits it is made of: one stage at a time, each  *)
(* left forward only when it is complete (for the story it is about), the  *)
(* next story only when this one is signed off, back only by a regression, *)
(* and a restart loses no more than what was not saved.  A complete        *)
(* definition gets its story list; a list submitted elsewhere takes the    *)
(* journey to its review, whatever stage it is at.                         *)
(***************************************************************************)
EXTENDS JourneyStages

CONSTANTS FirstStage, StoryLists

VARIABLES
    here,      \* the journey has not been deleted
    stage,     \* where it stands
    done,      \* the stages that are complete, as records of skill and story
    signed,    \* the stories the validator has accepted
    stories,   \* the list of stories, and how many of them are behind, and
    saved,     \*    whether the journey has ended; and what a restart finds
    submitted, \* a list was submitted elsewhere, and its review has not begun
    astray     \* a request has acted on outdated information: no promise

vars == <<here, stage, done, signed, stories, saved, submitted, astray>>

Review == "review"
TestPlan == "test-plan"
DefinitionOfReady == "definition-of-ready"

\* The story a stage is about, 0 for a stage of the whole feature and when all
\* stories are behind.
StoryOf(s) ==
    IF s \in {TestPlan, DefinitionOfReady} /\ stories.storyIndex < stories.storyList
    THEN stories.storyIndex + 1 ELSE 0

\* The stage the journey stands at is complete for the story it stands at, which
\* the validator has accepted if it is to be left behind.  A list submitted
\* meanwhile has set the count of stories back: then for some story.
Passed ==
    \E e \in done :
        /\ e.skill = stage
        /\ stage = DefinitionOfReady => e.story \in signed
        /\ submitted \/ StoryOf(stage) \in {0, e.story}

Init ==
    /\ here = TRUE
    /\ stage = FirstStage
    /\ done = {}
    /\ signed = {}
    /\ stories = [storyList |-> 0, storyIndex |-> 0, complete |-> FALSE]
    /\ saved = stories
    /\ submitted = FALSE
    /\ astray = FALSE

\* Stages are completed and stories accepted; the journey stays where it is.
Record ==
    /\ done \subseteq done'
    /\ signed \subseteq signed'
    /\ UNCHANGED <<stage, stories, submitted>>

Advance ==
    /\ Passed
    /\ getNextStage(stage) \notin {NoStage, Review}
    /\ stage' = getNextStage(stage)
    /\ UNCHANGED <<done, signed, stories, submitted>>

\* The story list of a complete definition; the review follows at once or as a
\* step of its own.
NewStories(list) ==
    /\ stage = "definition"
    /\ Passed
    /\ \/ stage' = Review /\ submitted' = FALSE
       \/ UNCHANGED <<stage, submitted>>
    /\ stories' = [stories EXCEPT !.storyList = list, !.storyIndex = 0]
    /\ UNCHANGED <<done, signed>>

\* A list submitted elsewhere ...
Submit(list) ==
    /\ submitted'
    /\ stories' = [stories EXCEPT !.storyList = list, !.storyIndex = 0]
    /\ UNCHANGED <<stage, done, signed>>

\* ... and its review.
BeginReview ==
    /\ submitted
    /\ stories.storyIndex = 0
    /\ stage' = Review
    /\ submitted' = FALSE
    /\ UNCHANGED <<done, signed, stories>>

NextStory ==
    /\ stage = DefinitionOfReady
    /\ Passed
    /\ stories.storyIndex + 1 < stories.storyList
    /\ stage' = TestPlan
    /\ stories' = [stories EXCEPT !.storyIndex = @ + 1]
    /\ UNCHANGED <<done, signed, submitted>>

LastStory ==
    /\ stage = DefinitionOfReady
    /\ Passed
    /\ stories.storyIndex + 1 >= stories.storyList
    /\ stories' = [stories EXCEPT !.storyIndex = @ + 1, !.complete = TRUE]
    /\ UNCHANGED <<stage, done, signed, submitted>>

\* Back to a complete stage: it and all after it are open again.
Regress(target) ==
    /\ \E e \in done : e.skill = target
    /\ isStrictlyLaterStage(target, stage)
    /\ stage' = target
    /\ done' = {e \in done : e.skill \notin {target} \cup getDownstreamStages(target)}
    /\ signed' = {}
    /\ submitted' = FALSE
    /\ UNCHANGED stories

Restart ==
    /\ stories' = saved
    /\ UNCHANGED <<here, stage, done, signed, saved, submitted, astray>>

Next ==
    \/ /\ here
       /\ \/ Record
          \/ Advance
          \/ \E list \in StoryLists \cup {stories.storyList} : NewStories(list)
          \/ \E list \in StoryLists : Submit(list)
          \/ BeginReview
          \/ NextStory
          \/ LastStory
          \/ \E target \in Stages : Regress(target)
       /\ saved' \in {saved, stories'}
       /\ UNCHANGED <<here, astray>>
    \/ here /\ Restart
    \/ /\ here' = FALSE
       /\ signed \subseteq signed'
       /\ UNCHANGED <<stage, done, stories, saved, submitted, astray>>
    \/ astray'

Spec == Init /\ [][Next]_vars
===============================================================================
