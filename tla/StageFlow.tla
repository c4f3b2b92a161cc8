------------------------------- MODULE StageFlow -------------------------------
(***************************************************************************)
(* The way of one journey through its stages: the turn that finishes a     *)
(* stage, gate-confirm with its awaits, the story list, the per-story      *)
(* cycle of test-plan and definition-of-ready, resume, reopen, regression, *)
(* deletion, and the restart of a server that keeps journeys in Postgres.  *)
(*                                                                         *)
(* A session is its index in sess.  A completedStages entry is its stage,  *)
(* the story its artefact path names (0 for a stage with one artefact per  *)
(* feature) and its session.  Postgres writes take effect at once: their   *)
(* order is JourneyStore's subject, the turns of a session SkillTurn's,    *)
(* and what gate-confirm writes to pipeline-state.json StateSync's.  A     *)
(* story list is its length: a list that is submitted again names the same *)
(* stories in the same order, and its story k is the same story.  Left     *)
(* out: metrics, events, traces of infra-plan and schema-migration-review  *)
(* (no session of a journey has these stages), artefact contents, and the  *)
(* correction of session.skillName after a conflict, which no gate-confirm *)
(* can meet because it never names a story (see StateSync).                *)
(***************************************************************************)
EXTENDS JourneyStages, FiniteSets

CONSTANTS
    FirstStage,       \* the stage the journey begins at
    StoryLists,       \* bound: the lengths a story list may have
    Requests,         \* bound: gate-confirm, stories and resume requests at a
                      \* time, numbered; a new one takes the first free number
    MaxExtras,        \* bound: requests made while another is under way, again
                      \* because their commit failed, or to reopen a stage
    MaxDisturbances   \* bound: regressions, restarts, deletions, other failures,
                      \* turns that leave the stage to gate-confirm, requests
                      \* for a page the user is on already, and stories forms
                      \* the user was not sent to

ASSUME FirstStageAssumption ==
    FirstStage \in Stages /\ isStrictlyLaterStage(FirstStage, "review")
ASSUME StoryListsAssumption == StoryLists \subseteq Nat \ {0}
ASSUME RequestsAssumption == Requests \subseteq Nat

Review == "review"
TestPlan == "test-plan"
DefinitionOfReady == "definition-of-ready"

PER_STORY_SEQ == <<TestPlan, DefinitionOfReady>>
PerStory == {TestPlan, DefinitionOfReady}

VARIABLES
    present,     \* the journey is in the store
    activeSkill,
    active,      \* activeSessionId, 0 for none
    completedStages,
    storyList,   \* its length, 0 for none
    storyIndex,  \* currentStoryIndex
    complete,
    row,         \* the fields of the row that may lag behind the memory
    sess,        \* the sessions of the journey
    req,
    storiesPage, \* the user was sent there and the journey has not moved since
    spent        \* of the bounds on extras and disturbances

(***************************************************************************)
(* Observations.                                                           *)
(***************************************************************************)
VARIABLES
    validated,   \* stories whose definition of ready passed the validator
    rewound,     \* a regression dropped signed-off stories and left the index
    outdated,    \* a request moved the journey from where it no longer was
    adrift,      \* a stories form came from another place than a complete
                 \* definition, and the review of its list has not begun
    passedOver   \* stages before the review that were not complete when a
                 \* stories form began it

journeyVars == <<present, activeSkill, active, completedStages, storyList,
                 storyIndex, complete, row>>
formVars == <<adrift, passedOver>>
ghostVars == <<validated, rewound, outdated, adrift, passedOver>>
vars == <<present, activeSkill, active, completedStages, storyList, storyIndex,
          complete, row, sess, req, storiesPage, spent, validated, rewound,
          outdated, adrift, passedOver>>

Entry == [skill : Stages, story : Nat, sid : Nat]

Session == [skill     : Stages,
            story     : Nat,             \* 0, or the story of its artefactPath
            done      : BOOLEAN,
            stageDone : BOOLEAN,         \* _stageDone
            live      : BOOLEAN,         \* in the session store
            kept      : BOOLEAN]         \* Redis has a copy that is not done:
                                         \* settled where it begins to matter

Request == [pc    : {"idle", "save", "commit", "state", "resume",
                     "stories"},
            sid   : Nat,                 \* the session it is about, or 0
            skill : Stages,              \* for a resume
            stale : BOOLEAN,             \* the journey has moved since it began
            own   : {"stored", "open", "settled"}]
                \* The session object it holds: the one in the store, or one a
                \* restored copy has taken the place of, by its _stageDone.

TypeOK ==
    /\ present \in BOOLEAN
    /\ activeSkill \in Stages
    /\ sess \in Seq(Session)
    /\ active \in 0..Len(sess)
    /\ completedStages \in SUBSET Entry
    /\ storyList \in StoryLists \cup {0}
    /\ storyIndex \in Nat
    /\ complete \in BOOLEAN
    /\ row \in [storyList : StoryLists \cup {0}, storyIndex : Nat, complete : BOOLEAN]
    /\ req \in [Requests -> Request]
    /\ storiesPage \in BOOLEAN
    /\ spent \in [extras : Nat, disturbances : Nat]
    /\ validated \in SUBSET Nat
    /\ rewound \in BOOLEAN
    /\ outdated \in BOOLEAN
    /\ adrift \in BOOLEAN
    /\ passedOver \in SUBSET Stages

Idle == [pc |-> "idle", sid |-> 0, skill |-> FirstStage, stale |-> FALSE,
         own |-> "stored"]

\* Mutant: the list is read from its end.
StoryAtReversed(skill, list, index) ==
    IF skill \in PerStory /\ index < list THEN index - list ELSE 0

\* linkSessionToJourney gives the session the story the list has at the index,
\* which computeArtefactSavePath uses for the stages that are scoped to a story.
StoryAt(skill, list, index) ==
    IF skill \in PerStory /\ index < list THEN index + 1 ELSE 0

\* registerHtmlSession and linkSessionToJourney.
Registered(skill, list, index) ==
    [skill |-> skill, story |-> StoryAt(skill, list, index), done |-> FALSE,
     stageDone |-> FALSE, live |-> TRUE, kept |-> FALSE]

Init ==
    /\ present = TRUE
    /\ activeSkill = FirstStage
    /\ active = 1
    /\ completedStages = {}
    /\ storyList = 0
    /\ storyIndex = 0
    /\ complete = FALSE
    /\ row = [storyList |-> 0, storyIndex |-> 0, complete |-> FALSE]
    /\ sess = <<Registered(FirstStage, 0, 0)>>
    /\ req = [p \in Requests |-> Idle]
    /\ storiesPage = FALSE
    /\ spent = [extras |-> 0, disturbances |-> 0]
    /\ validated = {}
    /\ rewound = FALSE
    /\ outdated = FALSE
    /\ adrift = FALSE
    /\ passedOver = {}

CompletedSkills == {e.skill : e \in completedStages}

Complete(stage, story) ==
    \E e \in completedStages : e.skill = stage /\ e.story = story

\* _pgWrite, of a journey with these fields.
Stored(list, index, done) ==
    row' = [storyList |-> list, storyIndex |-> index, complete |-> done]
StoredAsIs == Stored(storyList, storyIndex, complete)

\* The bounds.
Disturb == /\ spent.disturbances < MaxDisturbances
           /\ spent' = [spent EXCEPT !.disturbances = @ + 1]
Extra == /\ spent.extras < MaxExtras
         /\ spent' = [spent EXCEPT !.extras = @ + 1]

Busy(p) == req[p].pc # "idle"

\* A request begins, for the session and the stage it has read.
Begins(p, pc, sid, skill, asked) ==
    /\ ~Busy(p)
    /\ \A q \in Requests : q < p => Busy(q)
    /\ present
    /\ IF \E q \in Requests : Busy(q) THEN Extra
       ELSE IF asked THEN UNCHANGED spent ELSE Disturb
    /\ req' = [req EXCEPT ![p] = [pc |-> pc, sid |-> sid, skill |-> skill,
                                  stale |-> FALSE, own |-> "stored"]]

Awaits(p, pc) == req' = [req EXCEPT ![p].pc = pc]
Ends(p) == req' = [req EXCEPT ![p] = Idle]

\* The journey moves: whatever another request has read of it is out of date.
Moves(ends) ==
    /\ req' = [q \in Requests |->
                 IF q \in ends THEN Idle
                 ELSE IF Busy(q) THEN [req[q] EXCEPT !.stale = TRUE] ELSE req[q]]
    /\ storiesPage' = FALSE

-------------------------------------------------------------------------------
(***************************************************************************)
(* The turns of a session, as far as the journey sees them.  Turns of the  *)
(* active session only, but for one that ends late.                        *)
(***************************************************************************)

\* completeStage, which appends.
CompleteStage(s) ==
    completedStages' = completedStages \cup
                       {[skill |-> sess[s].skill, story |-> sess[s].story,
                         sid |-> s]}

\* Mutant: an entry is looked for by the name of its stage alone.
HasEntryBySkill(s) == \E e \in completedStages : e.skill = sess[s].skill

HasEntry(s) == \E e \in completedStages : /\ e.skill = sess[s].skill
                                         /\ e.story = sess[s].story

\* A streamed turn produced the session's first artefact and committed it: the
\* stage is complete, unless it was before, and the copy in Redis is deleted.
finish(s) ==
    /\ present
    /\ sess[s].live /\ ~sess[s].stageDone
    /\ sess' = [sess EXCEPT ![s].done = TRUE, ![s].stageDone = TRUE,
                            ![s].kept = FALSE]
    /\ IF HasEntry(s) THEN UNCHANGED <<completedStages, row>>
       ELSE CompleteStage(s) /\ StoredAsIs
    /\ UNCHANGED <<present, activeSkill, active, storyList, storyIndex,
                   complete, req, storiesPage, spent, ghostVars>>

\* A JSON turn did, or a streamed one whose commit failed: the stage is left to
\* gate-confirm, and so is a copy of the session from an earlier turn.
finishUncommitted(s) ==
    /\ present /\ s = active
    /\ sess[s].live /\ ~sess[s].done
    /\ Disturb
    /\ \E kept \in BOOLEAN : sess' = [sess EXCEPT ![s].done = TRUE,
                                                 ![s].kept = kept]
    /\ UNCHANGED <<journeyVars, req, storiesPage, ghostVars>>

\* The copy is of a session that is neither done nor committed.
Restore(s) == sess' = [sess EXCEPT ![s].live = TRUE, ![s].done = FALSE,
                                   ![s].stageDone = FALSE]

\* The chat page finds the session gone and its copy there.
reload(s) ==
    /\ present
    /\ ~sess[s].live /\ sess[s].kept
    /\ Restore(s)
    /\ UNCHANGED <<journeyVars, req, storiesPage, spent, ghostVars>>

-------------------------------------------------------------------------------
(***************************************************************************)
(* handlePostGateConfirm.  Nothing it read is read again after an await,   *)
(* except whether the journey is still there.                              *)
(***************************************************************************)
confirm(p) ==
    /\ active # 0
    /\ sess[active].live /\ sess[active].done
    /\ Begins(p, "save", active, FirstStage, ~complete)
    /\ UNCHANGED <<journeyVars, sess, storiesPage, ghostVars>>

\* Mutant: the validator's verdict does not end the request.
ValidateLeniently(p, valid) ==
    /\ Awaits(p, "state")
    /\ validated' = IF valid THEN validated \cup {sess[req[p].sid].story}
                    ELSE validated
    /\ UNCHANGED spent

\* The definition of ready is validated after its stage is complete; a document
\* that is rejected ends the request there.
Validate(p, valid) ==
    LET s == sess[req[p].sid]
    IN  IF valid \/ s.skill # DefinitionOfReady
        THEN /\ Awaits(p, "state")
             /\ validated' = IF s.skill = DefinitionOfReady
                             THEN validated \cup {s.story} ELSE validated
             /\ UNCHANGED spent
        ELSE /\ Ends(p)
             /\ Disturb
             /\ UNCHANGED validated

\* session._stageDone, of the object that was read when the request began.
StageDone(p) == IF req[p].own = "stored" THEN sess[req[p].sid].stageDone
                                         ELSE req[p].own = "settled"

\* The artefact is in Postgres, or could not be saved.
confirmSaved(p, valid) ==
    /\ req[p].pc = "save"
    /\ IF StageDone(p) THEN Validate(p, valid)
       ELSE Awaits(p, "commit") /\ UNCHANGED <<spent, validated>>
    /\ UNCHANGED <<journeyVars, sess, storiesPage, rewound, outdated, formVars>>

\* The connected repository cannot be resolved or refuses the commit.
confirmFails(p) ==
    /\ req[p].pc = "commit"
    /\ Ends(p)
    /\ Extra
    /\ UNCHANGED <<journeyVars, sess, storiesPage, ghostVars>>

confirmCommitted(p, valid) ==
    /\ req[p].pc = "commit"
    /\ sess' = IF req[p].own = "stored"
               THEN [sess EXCEPT ![req[p].sid].stageDone = TRUE] ELSE sess
    /\ IF present THEN CompleteStage(req[p].sid) /\ StoredAsIs
       ELSE UNCHANGED <<completedStages, row>>
    /\ Validate(p, valid)
    /\ outdated' = (outdated \/ req[p].stale)
    /\ UNCHANGED <<present, activeSkill, active, storyList, storyIndex,
                   complete, storiesPage, rewound, formVars>>

\* Once the writer, and the reconciliation or the record of a gap, have answered
\* the journey is looked up, and its artefacts are awaited.  If it was gone by
\* then the request ends in an exception ...
confirmGone(p) ==
    /\ req[p].pc = "state"
    /\ ~present
    /\ Ends(p)
    /\ UNCHANGED <<journeyVars, sess, storiesPage, spent, ghostVars>>

\* ... and so it does when the trace of a definition of ready is not written.
confirmThrows(p) ==
    /\ req[p].pc = "state"
    /\ sess[req[p].sid].skill = DefinitionOfReady
    /\ Ends(p)
    /\ Disturb
    /\ UNCHANGED <<journeyVars, sess, storiesPage, ghostVars>>

\* A new session for the journey, and setActiveSession if it is still there.
Activate(skill, list, index) ==
    /\ sess' = Append(sess, Registered(skill, list, index))
    /\ IF present
       THEN /\ activeSkill' = skill
            /\ active' = Len(sess) + 1
            /\ storyList' = list
            /\ storyIndex' = index
            /\ Stored(list, index, complete)
       ELSE UNCHANGED <<activeSkill, active, storyList, storyIndex, row>>

\* The request p moves the journey.
MovedBy(p) ==
    /\ Moves({p})
    /\ outdated' = (outdated \/ req[p].stale)

\* The journey begins with the stories of a list.
StoriesBegin == /\ rewound' = (rewound /\ ~present)
                /\ adrift' = (adrift /\ ~present)

\* ... and otherwise the rest is one synchronous block.  A feature-level stage
\* other than definition, or a test plan: the next stage.
confirmNext(p) ==
    LET next == getNextStage(sess[req[p].sid].skill)
    IN  /\ req[p].pc = "state"
        /\ next \notin {NoStage, Review}
        /\ Activate(next, storyList, storyIndex)
        /\ MovedBy(p)
        /\ UNCHANGED <<present, completedStages, complete,
                       spent, validated, rewound, formVars>>

\* The definition: its story list is found in the artefact ...
confirmDefinition(p, list) ==
    /\ req[p].pc = "state"
    /\ getNextStage(sess[req[p].sid].skill) = Review
    /\ Activate(Review, list, 0)
    /\ MovedBy(p)
    /\ StoriesBegin
    /\ UNCHANGED <<present, completedStages, complete, spent, validated,
                   passedOver>>

\* ... or not, and the user is sent to the stories page.
confirmUnparsed(p) ==
    /\ req[p].pc = "state"
    /\ getNextStage(sess[req[p].sid].skill) = Review
    /\ Ends(p)
    /\ IF storiesPage THEN Disturb ELSE UNCHANGED spent
    /\ storiesPage' = TRUE
    /\ UNCHANGED <<journeyVars, sess, ghostVars>>

\* The definition of ready of a story: advanceToNextStory, and for the last
\* one markJourneyComplete.  Neither writes the row.
confirmSignedOff(p) ==
    /\ req[p].pc = "state"
    /\ sess[req[p].sid].skill = DefinitionOfReady
    /\ IF storyIndex + 1 < storyList /\ present
       THEN /\ Activate(TestPlan, storyList, storyIndex + 1)
            /\ UNCHANGED complete
       ELSE /\ storyIndex' = IF present THEN storyIndex + 1 ELSE storyIndex
            /\ complete' = (complete \/ present)
            /\ UNCHANGED <<activeSkill, active, storyList, row, sess>>
    /\ MovedBy(p)
    /\ UNCHANGED <<present, completedStages, spent,
                   validated, rewound, formVars>>

-------------------------------------------------------------------------------
(***************************************************************************)
(* The other requests.                                                     *)
(***************************************************************************)

\* handlePostStories: the list, whatever stage the journey stands at ...
postStories(p, list) ==
    /\ Begins(p, "stories", 0, FirstStage, storiesPage)
    /\ storyList' = list
    /\ storyIndex' = 0
    /\ adrift' = (adrift \/ getNextStage(activeSkill) # Review
                         \/ ~Complete(activeSkill, 0))
    /\ UNCHANGED <<present, activeSkill, active, completedStages, complete, row,
                   sess, storiesPage, validated, rewound, outdated, passedOver>>

Unfinished ==
    {stage \in Stages : /\ Position(FirstStage) <= Position(stage)
                        /\ isStrictlyLaterStage(stage, Review)
                        /\ ~Complete(stage, 0)}

\* ... and after an await the review session.
storiesRead(p) ==
    /\ req[p].pc = "stories"
    /\ Activate(Review, storyList, storyIndex)
    /\ MovedBy(p)
    /\ StoriesBegin
    /\ passedOver' = IF present THEN passedOver \cup Unfinished ELSE passedOver
    /\ UNCHANGED <<present, completedStages, complete, spent, validated>>

\* Mutant: resume needs an active session to resume.
resumeActive(p) ==
    /\ active # 0 /\ ~(sess[active].live /\ ~sess[active].done)
    /\ Begins(p, "resume", active, activeSkill, ~sess[active].live)
    /\ UNCHANGED <<journeyVars, sess, storiesPage, ghostVars>>

\* handleGetJourneyResume, when the active session cannot be joined.  Only one
\* that is done is there to be confirmed instead.
resume(p) ==
    /\ ~(active # 0 /\ sess[active].live /\ ~sess[active].done)
    /\ Begins(p, "resume", active, activeSkill,
              ~(active # 0 /\ sess[active].live))
    /\ UNCHANGED <<journeyVars, sess, storiesPage, ghostVars>>

Kept == {s \in DOMAIN sess : sess[s].kept}

\* registerHtmlSession puts a new object in the store.  A gate-confirm of the
\* session goes on with the object it read.
EndsReplacing(p) ==
    req' = [q \in Requests |->
              IF q = p THEN Idle
              ELSE IF req[q].sid = req[p].sid /\ req[q].pc \in {"save", "commit"}
              THEN [req[q] EXCEPT !.own = IF StageDone(q) THEN "settled" ELSE "open"]
              ELSE req[q]]

\* Its artefacts and the copy of the session have been read: the session it
\* found active is restored, or the stage it found active gets a new one.
resumeRestores(p) ==
    /\ req[p].pc = "resume"
    /\ req[p].sid \in Kept
    /\ Restore(req[p].sid)
    /\ EndsReplacing(p)
    /\ UNCHANGED <<journeyVars, storiesPage, spent, ghostVars>>

resumeCreates(p) ==
    /\ req[p].pc = "resume"
    /\ req[p].sid \notin Kept
    /\ Activate(req[p].skill, storyList, storyIndex)
    /\ MovedBy(p)
    /\ UNCHANGED <<present, completedStages, complete,
                   spent, validated, rewound, formVars>>

\* Mutant: a regression that leaves the active session.
regressKeepsSession(target) ==
    /\ present
    /\ target \in CompletedSkills
    /\ isStrictlyLaterStage(target, activeSkill)
    /\ Disturb
    /\ activeSkill' = target
    /\ UNCHANGED <<present, active, completedStages, storyList, storyIndex,
                   complete, row, sess, req, storiesPage, ghostVars>>

\* handlePostJourneyRegress and regressToStage: one synchronous block.  The
\* story index, the list and the complete flag stay as they are.
regress(target) ==
    LET invalid == {target} \cup getDownstreamStages(target)
    IN  /\ present
        /\ target \in CompletedSkills
        /\ isStrictlyLaterStage(target, activeSkill)
        /\ Disturb
        /\ completedStages' = {e \in completedStages : e.skill \notin invalid}
        /\ activeSkill' = target
        /\ active' = 0
        /\ StoredAsIs
        /\ validated' = {}
        /\ rewound' =
              \/ rewound
              \/ storyIndex > 0 /\ target \in {Review, TestPlan}
        /\ adrift' = FALSE
        /\ passedOver' = passedOver \ invalid
        /\ Moves({})
        /\ UNCHANGED <<present, storyList, storyIndex, complete, sess, outdated>>

\* handleGetJourneyStageReopen, when no session of the entry is live.  find()
\* takes the oldest entry of the stage; which one that is is left open.
reopen(e) ==
    /\ present
    /\ e \in completedStages
    /\ ~sess[e.sid].live
    /\ Extra
    /\ sess' = Append(sess, Registered(e.skill, storyList, storyIndex))
    /\ completedStages' = (completedStages \ {e})
                          \cup {[e EXCEPT !.sid = Len(sess) + 1]}
    /\ StoredAsIs
    /\ UNCHANGED <<present, activeSkill, active, storyList, storyIndex,
                   complete, req, storiesPage, ghostVars>>

delete ==
    /\ present
    /\ Disturb
    /\ present' = FALSE
    /\ UNCHANGED <<activeSkill, active, completedStages, storyList, storyIndex,
                   complete, row, sess, req, storiesPage, ghostVars>>

\* On a new machine the sessions are gone, in place their files are still there.
restart(wiped) ==
    /\ present
    /\ Disturb
    /\ storyList' = row.storyList
    /\ storyIndex' = row.storyIndex
    /\ complete' = row.complete
    /\ \E copied \in SUBSET {s \in {active} \ {0} : wiped /\ sess[s].live
                                                   /\ ~sess[s].done} :
          sess' = [s \in DOMAIN sess |->
                     [sess[s] EXCEPT !.live = @ /\ ~wiped,
                                     !.kept = @ \/ s \in copied]]
    /\ req' = [p \in Requests |-> Idle]
    /\ UNCHANGED <<present, activeSkill, active, completedStages, row,
                   storiesPage, ghostVars>>

-------------------------------------------------------------------------------
Confirmation(p) ==
    \/ confirm(p)
    \/ \E valid \in BOOLEAN : confirmSaved(p, valid) \/ confirmCommitted(p, valid)
    \/ confirmFails(p)
    \/ confirmGone(p)
    \/ confirmThrows(p)
    \/ confirmNext(p)
    \/ \E list \in StoryLists : confirmDefinition(p, list)
    \/ confirmUnparsed(p)
    \/ confirmSignedOff(p)

StoryList(p) ==
    \/ \E list \in StoryLists : postStories(p, list)
    \/ storiesRead(p)

Resumption(p) == resume(p) \/ resumeRestores(p) \/ resumeCreates(p)

Turn(s) == finish(s) \/ finishUncommitted(s) \/ reload(s)

Next ==
    \/ \E s \in DOMAIN sess : Turn(s)
    \/ \E p \in Requests : Confirmation(p) \/ StoryList(p) \/ Resumption(p)
    \/ \E target \in Stages : regress(target)
    \/ \E e \in completedStages : reopen(e)
    \/ delete
    \/ \E wiped \in BOOLEAN : restart(wiped)

\* The user keeps working through the pages they are shown, and the requests
\* they make are answered.  What goes wrong goes wrong finitely often.
Work ==
    \/ \E s \in DOMAIN sess : Turn(s)
    \/ \E p \in Requests : Confirmation(p) \/ StoryList(p) \/ Resumption(p)

Spec == Init /\ [][Next]_vars /\ WF_vars(Work)

-------------------------------------------------------------------------------
(***************************************************************************)
(* The active session is one of the active stage: the page a user is sent  *)
(* to works on the stage the journey is at.                                *)
(***************************************************************************)
SessionOfStage == active # 0 => sess[active].skill = activeSkill

(***************************************************************************)
(* The journey stands at a stage only if every earlier one is complete,    *)
(* each stage of a story for that story, whatever failed, was reopened or  *)
(* regressed: unless a request moved the journey after another had moved   *)
(* it, or a regression left the story index past stories whose sign-off it *)
(* dropped.  The stories form is taken at any stage, and the stages that   *)
(* were not complete when it began the review are passed over.             *)
(***************************************************************************)
NoStageSkipped ==
    outdated \/ rewound \/
    \A stage \in Stages :
        /\ Position(FirstStage) <= Position(stage)
        /\ isStrictlyLaterStage(stage, activeSkill)
        /\ stage \in PerStory => storyIndex < storyList
        => \/ stage \in passedOver
           \/ Complete(stage, StoryAt(stage, storyList, storyIndex))

(***************************************************************************)
(* Stories are left behind, and the journey becomes complete, only once    *)
(* the definition of ready of each story left behind was accepted by the   *)
(* validator and is complete, wherever a stories form was sent from: with  *)
(* the same two exceptions.                                                *)
(***************************************************************************)
LeftBehindSignedOff ==
    outdated \/ rewound \/
    (activeSkill \in PerStory =>
        \A story \in 1..storyList :
            story <= storyIndex =>
                /\ story \in validated
                /\ Complete(DefinitionOfReady, story))

Progress == INSTANCE StageProgress WITH
    here <- present,
    stage <- activeSkill,
    done <- {[skill |-> e.skill, story |-> e.story] : e \in completedStages},
    signed <- validated,
    stories <- [storyList |-> storyList, storyIndex |-> storyIndex,
                complete |-> complete],
    saved <- row,
    submitted <- adrift,
    astray <- outdated

(***************************************************************************)
(* The sessions, the requests and the awaits between what they read and    *)
(* what they change are not seen: the journey moves one stage or story at  *)
(* a time, from a stage that is complete at that very moment, or to the    *)
(* review of a list of stories that was submitted elsewhere.               *)
(***************************************************************************)
ImplementsProgress == Progress!Spec

(***************************************************************************)
(* A user who keeps working gets the journey to its end, whatever failed   *)
(* on the way: no page leads nowhere.                                      *)
(***************************************************************************)
NoDeadEnd == ~complete ~> (complete \/ ~present)
===============================================================================
