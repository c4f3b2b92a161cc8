--------------------------- MODULE StageFlowProofs ---------------------------
(***************************************************************************)
(* The types of the journey's way through its stages, that the active      *)
(* session is one of the active stage, that no stage is skipped and that   *)
(* stories left behind are signed off, for any story lists, requests and   *)
(* bounds.  The first two are inductive together (IInv); the other two     *)
(* need what a request relies on, and what the row still has (Ordered).    *)
(* At the end the routes are shown to implement StageProgress.             *)
(***************************************************************************)
EXTENDS StageFlow, TLAPS

USE FirstStageAssumption, StoryListsAssumption, RequestsAssumption

\* A gate-confirm under way is about a session that exists.
Confirming == {"save", "commit", "state"}

ConfirmsASession ==
    \A p \in Requests : req[p].pc \in Confirming => req[p].sid \in DOMAIN sess

IInv == TypeOK /\ ConfirmsASession /\ SessionOfStage

\* The sessions and their requests alone.
SessionsOK ==
    /\ sess \in Seq(Session)
    /\ req \in [Requests -> Request]
    /\ ConfirmsASession

\* What the sessions are is decided when they are registered.
KeepsSkills ==
    /\ Len(sess') >= Len(sess)
    /\ \A s \in DOMAIN sess : sess'[s].skill = sess[s].skill

-------------------------------------------------------------------------------
LEMMA StageNames ==
    /\ Review \in Stages /\ TestPlan \in Stages /\ DefinitionOfReady \in Stages
    /\ \A stage : getNextStage(stage) \in Stages \cup {NoStage}
<1>1. Len(STAGE_SEQUENCE) = 8
  BY DEF STAGE_SEQUENCE
<1>2. DOMAIN STAGE_SEQUENCE = 1..8
  BY DEF STAGE_SEQUENCE
<1>3. /\ STAGE_SEQUENCE[6] = Review
      /\ STAGE_SEQUENCE[7] = TestPlan
      /\ STAGE_SEQUENCE[8] = DefinitionOfReady
  BY DEF STAGE_SEQUENCE, Review, TestPlan, DefinitionOfReady
<1>4. Review \in Stages /\ TestPlan \in Stages /\ DefinitionOfReady \in Stages
  BY <1>2, <1>3 DEF Stages
<1>5. ASSUME NEW stage
      PROVE  getNextStage(stage) \in Stages \cup {NoStage}
  <2>1. CASE isKnownStage(stage) /\ Position(stage) < Len(STAGE_SEQUENCE)
    <3>1. \E i \in DOMAIN STAGE_SEQUENCE : STAGE_SEQUENCE[i] = stage
      BY <2>1 DEF isKnownStage, Stages
    <3>2. Position(stage) \in DOMAIN STAGE_SEQUENCE
      BY <3>1 DEF Position
    <3>3. Position(stage) + 1 \in DOMAIN STAGE_SEQUENCE
      BY <1>1, <1>2, <2>1, <3>2
    <3>4. QED
      BY <2>1, <3>3 DEF getNextStage, Stages
  <2>2. CASE ~(isKnownStage(stage) /\ Position(stage) < Len(STAGE_SEQUENCE))
    BY <2>2 DEF getNextStage
  <2>3. QED
    BY <2>1, <2>2
<1>6. QED
  BY <1>4, <1>5

LEMMA NewSession ==
    ASSUME NEW skill \in Stages, NEW list \in Nat, NEW index \in Nat
    PROVE  Registered(skill, list, index) \in Session
<1>1. StoryAt(skill, list, index) \in Nat
  BY DEF StoryAt
<1>2. QED
  BY <1>1 DEF Registered, Session

LEMMA IInvInit == Init => IInv
<1> SUFFICES ASSUME Init PROVE IInv
  OBVIOUS
<1>1. Registered(FirstStage, 0, 0) \in Session
  BY NewSession
<1>2. sess \in Seq(Session) /\ Len(sess) = 1 /\ sess[1].skill = FirstStage
  BY <1>1 DEF Init, Registered
<1>3. Idle \in Request
  BY DEF Idle, Request
<1>4. TypeOK
  <2>1. /\ present \in BOOLEAN /\ complete \in BOOLEAN /\ rewound \in BOOLEAN
        /\ outdated \in BOOLEAN /\ adrift \in BOOLEAN /\ passedOver \in SUBSET Stages
        /\ storyIndex \in Nat /\ storyList \in StoryLists \cup {0}
        /\ validated \in SUBSET Nat /\ completedStages \in SUBSET Entry
        /\ activeSkill \in Stages
        /\ storiesPage \in BOOLEAN
    BY DEF Init
  <2>2. row \in [storyList : StoryLists \cup {0}, storyIndex : Nat, complete : BOOLEAN]
    BY DEF Init
  <2>3. spent \in [extras : Nat, disturbances : Nat]
    BY DEF Init
  <2>4. req \in [Requests -> Request]
    BY <1>3 DEF Init
  <2>5. active \in 0..Len(sess)
    BY <1>2 DEF Init
  <2>6. QED
    BY <1>2, <2>1, <2>2, <2>3, <2>4, <2>5 DEF TypeOK
<1>5. ConfirmsASession /\ SessionOfStage
  BY <1>2 DEF Init, ConfirmsASession, Confirming, SessionOfStage, Idle
<1>6. QED
  BY <1>4, <1>5 DEF IInv

-------------------------------------------------------------------------------
(***************************************************************************)
(* Appending a session, changing one, and changing the requests.           *)
(***************************************************************************)

LEMMA Appended ==
    ASSUME sess \in Seq(Session), NEW skill \in Stages, NEW list \in Nat,
           NEW index \in Nat, sess' = Append(sess, Registered(skill, list, index))
    PROVE  /\ sess' \in Seq(Session)
           /\ Len(sess') = Len(sess) + 1
           /\ sess'[Len(sess) + 1].skill = skill
           /\ KeepsSkills
<1>1. Registered(skill, list, index) \in Session
  BY NewSession
<1>2. Registered(skill, list, index).skill = skill
  BY DEF Registered
<1>3. QED
  BY <1>1, <1>2 DEF KeepsSkills

\* One session changes, but not its skill.
LEMMA OneChanged ==
    ASSUME sess \in Seq(Session), NEW s \in DOMAIN sess, NEW new \in Session,
           new.skill = sess[s].skill, sess' = [sess EXCEPT ![s] = new]
    PROVE  sess' \in Seq(Session) /\ KeepsSkills
<1>1. sess \in [1..Len(sess) -> Session] /\ Len(sess) \in Nat /\ DOMAIN sess = 1..Len(sess)
  OBVIOUS
<1>2. sess' \in [1..Len(sess) -> Session]
  BY <1>1
<1>3. sess' \in Seq(Session) /\ Len(sess') = Len(sess)
  BY <1>1, <1>2
<1>4. QED
  BY <1>1, <1>3 DEF KeepsSkills

-------------------------------------------------------------------------------
(***************************************************************************)
(* The requests.                                                           *)
(***************************************************************************)

\* Every gate-confirm under way after the step was under way before it, about
\* the same session, but for one that begins.
GoOn ==
    \A q \in Requests : req'[q].pc \in Confirming =>
       req[q].pc \in Confirming /\ req'[q].sid = req[q].sid

SpentOK == spent' \in [extras : Nat, disturbances : Nat]

LEMMA Spending ==
    ASSUME TypeOK, Disturb \/ Extra \/ UNCHANGED spent
    PROVE  SpentOK
BY DEF TypeOK, Disturb, Extra, SpentOK

LEMMA Beginning ==
    ASSUME TypeOK, NEW p \in Requests, NEW pc \in {"save", "resume", "stories"},
           NEW sid \in Nat, NEW skill \in Stages, NEW asked \in BOOLEAN,
           Begins(p, pc, sid, skill, asked)
    PROVE  /\ req' \in [Requests -> Request]
           /\ SpentOK
           /\ \A q \in Requests : q # p => req'[q] = req[q]
           /\ req'[p].pc = pc /\ req'[p].sid = sid
<1>1. SpentOK
  BY Spending DEF Begins
<1>2. [pc |-> pc, sid |-> sid, skill |-> skill, stale |-> FALSE,
       own |-> "stored"] \in Request
  BY DEF Request
<1>3. QED
  BY <1>1, <1>2 DEF TypeOK, Begins

\* A request stays one when a field of it changes.
LEMMA AnotherPc ==
    ASSUME NEW r \in Request, NEW pc \in Confirming
    PROVE  /\ [r EXCEPT !.pc = pc] \in Request
           /\ [r EXCEPT !.pc = pc].pc = pc /\ [r EXCEPT !.pc = pc].sid = r.sid
BY DEF Request, Confirming

LEMMA AnotherOwn ==
    ASSUME NEW r \in Request, NEW own \in {"open", "settled"}
    PROVE  /\ [r EXCEPT !.own = own] \in Request
           /\ [r EXCEPT !.own = own].pc = r.pc /\ [r EXCEPT !.own = own].sid = r.sid
BY DEF Request

LEMMA Outdated ==
    ASSUME NEW r \in Request
    PROVE  /\ [r EXCEPT !.stale = TRUE] \in Request
           /\ [r EXCEPT !.stale = TRUE].pc = r.pc /\ [r EXCEPT !.stale = TRUE].sid = r.sid
BY DEF Request

LEMMA Requested ==
    ASSUME TypeOK
    PROVE  req \in [Requests -> Request]
BY DEF TypeOK

LEMMA Awaiting ==
    ASSUME TypeOK, NEW p \in Requests, NEW pc \in Confirming,
           req[p].pc \in Confirming, Awaits(p, pc)
    PROVE  req' \in [Requests -> Request] /\ GoOn
<1> DEFINE new == [req[p] EXCEPT !.pc = pc]
<1>1. /\ req \in [Requests -> Request]
      /\ req' = [req EXCEPT ![p] = new]
  BY Requested DEF Awaits
<1>2. new \in Request /\ new.pc = pc /\ new.sid = req[p].sid
  BY <1>1, AnotherPc
<1> HIDE DEF new
<1>3. QED
  BY <1>1, <1>2 DEF GoOn

LEMMA Ending ==
    ASSUME TypeOK, NEW p \in Requests, Ends(p)
    PROVE  req' \in [Requests -> Request] /\ GoOn
<1>1. Idle \in Request /\ Idle.pc \notin Confirming
  BY DEF Idle, Request, Confirming
<1>2. QED
  BY <1>1 DEF TypeOK, Ends, GoOn

LEMMA Replacing ==
    ASSUME TypeOK, NEW p \in Requests, EndsReplacing(p)
    PROVE  req' \in [Requests -> Request] /\ GoOn
<1>1. Idle \in Request /\ Idle.pc \notin Confirming
  BY DEF Idle, Request, Confirming
<1>2. ASSUME NEW q \in Requests
      PROVE  /\ req'[q] \in Request
             /\ req'[q].pc \in Confirming =>
                   req[q].pc \in Confirming /\ req'[q].sid = req[q].sid
  <2>1. req[q] \in Request
    BY Requested
  <2>2. \/ req'[q] = Idle
        \/ \E own \in {"open", "settled"} : req'[q] = [req[q] EXCEPT !.own = own]
        \/ req'[q] = req[q]
    BY DEF EndsReplacing
  <2>3. CASE req'[q] = Idle
    BY <1>1, <2>3
  <2>4. CASE req'[q] = req[q]
    BY <2>1, <2>4
  <2>5. ASSUME NEW own \in {"open", "settled"},
               req'[q] = [req[q] EXCEPT !.own = own]
        PROVE  /\ req'[q] \in Request
               /\ req'[q].pc = req[q].pc /\ req'[q].sid = req[q].sid
    <3> DEFINE new == [req[q] EXCEPT !.own = own]
    <3>1. new \in Request /\ new.pc = req[q].pc /\ new.sid = req[q].sid
      BY <2>1, AnotherOwn
    <3>2. req'[q] = new
      BY <2>5
    <3> HIDE DEF new
    <3>3. QED
      BY <3>1, <3>2
  <2>6. QED
    BY <2>2, <2>3, <2>4, <2>5
<1>3. req' \in [Requests -> Request]
  BY <1>2 DEF EndsReplacing
<1>4. QED
  BY <1>2, <1>3 DEF GoOn

LEMMA Moving ==
    ASSUME TypeOK, NEW ends \in SUBSET Requests, Moves(ends)
    PROVE  /\ req' \in [Requests -> Request] /\ GoOn
           /\ storiesPage' \in BOOLEAN
<1>1. Idle \in Request /\ Idle.pc \notin Confirming
  BY DEF Idle, Request, Confirming
<1>2. ASSUME NEW q \in Requests
      PROVE  /\ req'[q] \in Request
             /\ req'[q].pc \in Confirming =>
                   req[q].pc \in Confirming /\ req'[q].sid = req[q].sid
  <2>1. req'[q] \in {Idle, [req[q] EXCEPT !.stale = TRUE], req[q]}
    BY DEF Moves
  <2>2. QED
    BY <1>1, <2>1, Requested, Outdated
<1>3. req' \in [Requests -> Request]
  BY <1>2 DEF Moves
<1>4. QED
  BY <1>2, <1>3 DEF TypeOK, Moves, GoOn

-------------------------------------------------------------------------------
(***************************************************************************)
(* What is left to show of a step.                                         *)
(***************************************************************************)

\* The journey's own fields and the observations.
FieldsOK ==
    /\ present \in BOOLEAN
    /\ completedStages \in SUBSET Entry
    /\ storyList \in StoryLists \cup {0}
    /\ storyIndex \in Nat
    /\ complete \in BOOLEAN
    /\ row \in [storyList : StoryLists \cup {0}, storyIndex : Nat, complete : BOOLEAN]
    /\ storiesPage \in BOOLEAN
    /\ validated \in SUBSET Nat
    /\ rewound \in BOOLEAN
    /\ outdated \in BOOLEAN
    /\ adrift \in BOOLEAN
    /\ passedOver \in SUBSET Stages

\* The active session and its stage stay, are those of a session that was
\* appended, or there is none.
ActiveMoves ==
    \/ UNCHANGED <<activeSkill, active>>
    \/ /\ activeSkill' \in Stages
       /\ active' \in 1..Len(sess')
       /\ sess'[active'].skill = activeSkill'
    \/ activeSkill' \in Stages /\ active' = 0

LEMMA StepKeeps ==
    ASSUME IInv, FieldsOK', SpentOK,
           sess' \in Seq(Session), KeepsSkills,
           req' \in [Requests -> Request], GoOn, ActiveMoves
    PROVE  IInv'
<1>1. DOMAIN sess \subseteq DOMAIN sess'
  BY DEF IInv, TypeOK, KeepsSkills
<1>2. ConfirmsASession'
  BY <1>1 DEF IInv, ConfirmsASession, GoOn
<1>3. activeSkill' \in Stages /\ active' \in 0..Len(sess') /\ SessionOfStage'
  BY <1>1 DEF IInv, TypeOK, KeepsSkills, ActiveMoves, SessionOfStage
<1>4. TypeOK'
  BY <1>3 DEF FieldsOK, SpentOK, TypeOK
<1>5. QED
  BY <1>2, <1>3, <1>4 DEF IInv

LEMMA Storing ==
    ASSUME NEW list \in StoryLists \cup {0}, NEW index \in Nat,
           NEW done \in BOOLEAN, Stored(list, index, done)
    PROVE  row' \in [storyList : StoryLists \cup {0}, storyIndex : Nat, complete : BOOLEAN]
BY DEF Stored

\* completeStage of a session adds a well-formed entry.
LEMMA Completing ==
    ASSUME TypeOK, NEW s \in DOMAIN sess, CompleteStage(s)
    PROVE  completedStages' \in SUBSET Entry
<1>1. sess[s] \in Session /\ s \in Nat
  BY DEF TypeOK
<1>2. QED
  BY <1>1 DEF TypeOK, CompleteStage, Entry, Session

\* A new session, active unless the journey is gone.
LEMMA Activating ==
    ASSUME IInv, NEW skill \in Stages, NEW list \in StoryLists \cup {0},
           NEW index \in Nat, Activate(skill, list, index)
    PROVE  /\ sess' \in Seq(Session) /\ KeepsSkills /\ ActiveMoves
           /\ storyList' \in StoryLists \cup {0} /\ storyIndex' \in Nat
           /\ row' \in [storyList : StoryLists \cup {0}, storyIndex : Nat, complete : BOOLEAN]
<1>1. sess' = Append(sess, Registered(skill, list, index)) /\ list \in Nat
  BY DEF Activate
<1>2. /\ sess' \in Seq(Session)
      /\ Len(sess') = Len(sess) + 1
      /\ sess'[Len(sess) + 1].skill = skill
      /\ KeepsSkills
  BY <1>1, Appended DEF IInv, TypeOK
<1>3. CASE present
  <2>1. /\ activeSkill' = skill /\ active' = Len(sess) + 1
        /\ storyList' = list /\ storyIndex' = index
        /\ Stored(list, index, complete)
    BY <1>3 DEF Activate
  <2>2. ActiveMoves
    BY <1>2, <2>1 DEF ActiveMoves, IInv, TypeOK
  <2>3. QED
    BY <1>2, <2>1, <2>2, Storing DEF IInv, TypeOK
<1>4. CASE ~present
  BY <1>2, <1>4 DEF Activate, ActiveMoves, IInv, TypeOK
<1>5. QED
  BY <1>3, <1>4
-------------------------------------------------------------------------------
(***************************************************************************)
(* The steps.                                                              *)
(***************************************************************************)

LEMMA IsSession ==
    ASSUME TypeOK, NEW s \in DOMAIN sess
    PROVE  sess[s] \in Session
BY DEF TypeOK

LEMMA SessionsAreNumbered ==
    ASSUME TypeOK
    PROVE  /\ Len(sess) \in Nat /\ DOMAIN sess = 1..Len(sess)
           /\ active \in 0..Len(sess)
BY DEF TypeOK

LEMMA Restoring ==
    ASSUME TypeOK, NEW s \in DOMAIN sess, Restore(s)
    PROVE  sess' \in Seq(Session) /\ KeepsSkills
<1> DEFINE new == [sess[s] EXCEPT !.live = TRUE, !.done = FALSE, !.stageDone = FALSE]
<1>1. new \in Session /\ new.skill = sess[s].skill
  BY IsSession DEF Session
<1>2. sess' = [sess EXCEPT ![s] = new]
  BY DEF Restore
<1> HIDE DEF new
<1>3. QED
  BY <1>1, <1>2, OneChanged DEF TypeOK

LEMMA TurnSteps ==
    ASSUME IInv, NEW s \in DOMAIN sess, Turn(s)
    PROVE  IInv'
<1> USE DEF ActiveMoves
<1>1. s \in DOMAIN sess /\ TypeOK
  BY DEF IInv
<1>2. CASE finish(s)
  <2> DEFINE new == [sess[s] EXCEPT !.done = TRUE, !.stageDone = TRUE, !.kept = FALSE]
  <2>1. sess' = [sess EXCEPT ![s] = new]
    BY <1>2 DEF finish
  <2>2. sess' \in Seq(Session) /\ KeepsSkills
    <3>1. new \in Session /\ new.skill = sess[s].skill
      BY <1>1, IsSession DEF Session
    <3> HIDE DEF new
    <3>2. QED
      BY <1>1, <2>1, <3>1, OneChanged DEF TypeOK
  <2>3. FieldsOK'
    <3>1. CASE HasEntry(s)
      BY <1>1, <1>2, <3>1 DEF finish, TypeOK, FieldsOK, ghostVars
    <3>2. CASE ~HasEntry(s)
      <4>1. completedStages' \in SUBSET Entry
        BY <1>1, <1>2, <3>2, Completing DEF finish
      <4>2. row' \in [storyList : StoryLists \cup {0}, storyIndex : Nat, complete : BOOLEAN]
        BY <1>1, <1>2, <3>2, Storing DEF finish, StoredAsIs, TypeOK
      <4>3. QED
        BY <1>1, <1>2, <4>1, <4>2 DEF finish, TypeOK, FieldsOK, ghostVars
    <3>3. QED
      BY <3>1, <3>2
  <2>4. /\ UNCHANGED <<activeSkill, active, req, spent>>
        /\ GoOn /\ SpentOK
    BY <1>1, <1>2 DEF finish, GoOn, SpentOK, TypeOK
  <2>5. QED
    BY <1>1, <2>2, <2>3, <2>4, StepKeeps DEF TypeOK
<1>3. CASE finishUncommitted(s)
  <2>1. PICK kept \in BOOLEAN :
           sess' = [sess EXCEPT ![s] = [sess[s] EXCEPT !.done = TRUE, !.kept = kept]]
    BY <1>3 DEF finishUncommitted
  <2> DEFINE new == [sess[s] EXCEPT !.done = TRUE, !.kept = kept]
  <2>2. sess' \in Seq(Session) /\ KeepsSkills
    <3>1. new \in Session /\ new.skill = sess[s].skill
      BY <1>1, IsSession DEF Session
    <3>2. sess' = [sess EXCEPT ![s] = new]
      BY <2>1
    <3> HIDE DEF new
    <3>3. QED
      BY <1>1, <3>1, <3>2, OneChanged DEF TypeOK
  <2>3. FieldsOK' /\ UNCHANGED <<activeSkill, active, req>>
    BY <1>1, <1>3 DEF finishUncommitted, TypeOK, FieldsOK, journeyVars, ghostVars
  <2>4. SpentOK
    BY <1>1, <1>3, Spending DEF finishUncommitted
  <2>5. QED
    BY <1>1, <2>2, <2>3, <2>4, StepKeeps DEF TypeOK, GoOn
<1>4. CASE reload(s)
  <2>1. sess' \in Seq(Session) /\ KeepsSkills
    BY <1>1, <1>4, Restoring DEF reload
  <2>2. FieldsOK' /\ SpentOK /\ UNCHANGED <<activeSkill, active, req>>
    BY <1>1, <1>4 DEF reload, TypeOK, FieldsOK, SpentOK, journeyVars, ghostVars
  <2>3. QED
    BY <1>1, <2>1, <2>2, StepKeeps DEF TypeOK, GoOn
<1>5. QED
  BY <1>2, <1>3, <1>4 DEF Turn

\* Where the validator's verdict leaves the request.
LEMMA Validating ==
    ASSUME IInv, NEW p \in Requests, NEW valid \in BOOLEAN,
           req[p].pc \in {"save", "commit"}, Validate(p, valid)
    PROVE  /\ req' \in [Requests -> Request] /\ GoOn /\ SpentOK
           /\ validated' \in SUBSET Nat
<1>1. TypeOK /\ req[p].pc \in Confirming /\ req[p].sid \in DOMAIN sess
  BY DEF IInv, ConfirmsASession, Confirming
<1>2. sess[req[p].sid] \in Session
  BY <1>1 DEF TypeOK
<1>3. validated' \in SUBSET Nat
  BY <1>1, <1>2 DEF Validate, TypeOK, Session
<1>4. CASE Awaits(p, "state") /\ UNCHANGED spent
  BY <1>1, <1>3, <1>4, Awaiting, Spending DEF Confirming
<1>5. CASE Ends(p) /\ Disturb
  BY <1>1, <1>3, <1>5, Ending, Spending
<1>6. QED
  BY <1>4, <1>5 DEF Validate

\* The steps that read or end a gate-confirm.
LEMMA ConfirmationSteps ==
    ASSUME IInv, NEW p \in Requests,
           \/ confirm(p) \/ confirmFails(p) \/ confirmGone(p) \/ confirmThrows(p)
           \/ confirmUnparsed(p)
           \/ \E valid \in BOOLEAN : confirmSaved(p, valid)
    PROVE  IInv'
<1> USE DEF ActiveMoves
<1>1. TypeOK
  BY DEF IInv
<1>2. CASE confirm(p)
  <2>1. /\ active \in DOMAIN sess /\ active \in Nat
        /\ Begins(p, "save", active, FirstStage, ~complete)
        /\ UNCHANGED <<journeyVars, sess, storiesPage, ghostVars>>
    <3>1. /\ Len(sess) \in Nat /\ DOMAIN sess = 1..Len(sess)
          /\ active \in 0..Len(sess) /\ active # 0
      BY <1>1, <1>2, SessionsAreNumbered DEF confirm
    <3>2. active \in DOMAIN sess /\ active \in Nat
      BY <3>1
    <3>3. QED
      BY <1>2, <3>2, Zenon DEF confirm
  <2>2. /\ req' \in [Requests -> Request]
        /\ SpentOK
        /\ \A q \in Requests : q # p => req'[q] = req[q]
        /\ req'[p].pc = "save" /\ req'[p].sid = active
    BY <1>1, <2>1, Beginning DEF TypeOK
  <2>3. ConfirmsASession'
    BY <2>1, <2>2 DEF IInv, ConfirmsASession
  <2>4. TypeOK' /\ SessionOfStage'
    BY <1>1, <2>1, <2>2
    DEF IInv, TypeOK, SpentOK, SessionOfStage, journeyVars, ghostVars
  <2>5. QED
    BY <2>3, <2>4 DEF IInv
<1>3. CASE confirmFails(p) \/ confirmThrows(p) \/ confirmGone(p)
  <2>1. /\ Ends(p) /\ UNCHANGED <<journeyVars, sess, storiesPage, ghostVars>>
        /\ SpentOK
    BY <1>1, <1>3, Spending DEF confirmFails, confirmThrows, confirmGone
  <2>2. FieldsOK' /\ UNCHANGED <<activeSkill, active>> /\ KeepsSkills /\ sess' \in Seq(Session)
    BY <1>1, <2>1 DEF TypeOK, FieldsOK, KeepsSkills, journeyVars, ghostVars
  <2>3. QED
    BY <1>1, <2>1, <2>2, Ending, StepKeeps
<1>4. CASE confirmUnparsed(p)
  <2>1. /\ Ends(p) /\ UNCHANGED <<journeyVars, sess, ghostVars>>
        /\ SpentOK
    BY <1>1, <1>4, Spending DEF confirmUnparsed
  <2>2. storiesPage' \in BOOLEAN
    BY <1>4 DEF confirmUnparsed
  <2>3. FieldsOK' /\ UNCHANGED <<activeSkill, active>> /\ KeepsSkills /\ sess' \in Seq(Session)
    BY <1>1, <2>1, <2>2 DEF TypeOK, FieldsOK, KeepsSkills, journeyVars, ghostVars
  <2>4. QED
    BY <1>1, <2>1, <2>3, Ending, StepKeeps
<1>5. ASSUME NEW valid \in BOOLEAN, confirmSaved(p, valid)
      PROVE  IInv'
  <2>1. /\ req[p].pc = "save"
        /\ UNCHANGED <<journeyVars, sess, storiesPage, rewound, outdated, formVars>>
    BY <1>5 DEF confirmSaved
  <2>2. /\ req' \in [Requests -> Request] /\ GoOn /\ SpentOK
        /\ validated' \in SUBSET Nat
    <3>1. CASE Validate(p, valid)
      BY <2>1, <3>1, Validating
    <3>2. CASE Awaits(p, "commit") /\ UNCHANGED <<spent, validated>>
      BY <1>1, <2>1, <3>2, Awaiting, Spending DEF Confirming, TypeOK
    <3>3. QED
      BY <1>5, <3>1, <3>2 DEF confirmSaved
  <2>3. FieldsOK' /\ UNCHANGED <<activeSkill, active>> /\ KeepsSkills /\ sess' \in Seq(Session)
    BY <1>1, <2>1, <2>2 DEF TypeOK, FieldsOK, KeepsSkills, journeyVars, formVars
  <2>4. QED
    BY <2>2, <2>3, StepKeeps
<1>6. QED
  BY <1>2, <1>3, <1>4, <1>5

LEMMA CommitStep ==
    ASSUME IInv, NEW p \in Requests, NEW valid \in BOOLEAN, confirmCommitted(p, valid)
    PROVE  IInv'
<1>1. TypeOK /\ req[p].pc = "commit" /\ req[p].sid \in DOMAIN sess
  BY DEF IInv, ConfirmsASession, Confirming, confirmCommitted
<1> DEFINE s == req[p].sid
           new == [sess[s] EXCEPT !.stageDone = TRUE]
<1>2. sess' = [sess EXCEPT ![s] = new] \/ sess' = sess
  BY DEF confirmCommitted
<1>3. sess' \in Seq(Session) /\ KeepsSkills
  <2>1. new \in Session /\ new.skill = sess[s].skill
    BY <1>1, IsSession DEF Session
  <2> HIDE DEF new
  <2>2. CASE sess' = [sess EXCEPT ![s] = new]
    BY <1>1, <2>1, <2>2, OneChanged DEF TypeOK
  <2>3. CASE sess' = sess
    BY <1>1, <2>3 DEF TypeOK, KeepsSkills
  <2>4. QED
    BY <1>2, <2>2, <2>3
<1>4. /\ req' \in [Requests -> Request] /\ GoOn /\ SpentOK
      /\ validated' \in SUBSET Nat
  BY <1>1, Validating DEF confirmCommitted
<1>5. /\ completedStages' \in SUBSET Entry
      /\ row' \in [storyList : StoryLists \cup {0}, storyIndex : Nat, complete : BOOLEAN]
  <2>1. CASE present
    BY <1>1, <2>1, Completing, Storing DEF confirmCommitted, StoredAsIs, TypeOK
  <2>2. CASE ~present
    BY <1>1, <2>2 DEF confirmCommitted, TypeOK
  <2>3. QED
    BY <2>1, <2>2
<1>6. outdated' \in BOOLEAN
  BY <1>1 DEF confirmCommitted, TypeOK, Request
<1>7. FieldsOK' /\ UNCHANGED <<activeSkill, active>>
  BY <1>1, <1>4, <1>5, <1>6 DEF confirmCommitted, TypeOK, FieldsOK, formVars
<1>8. QED
  BY <1>3, <1>4, <1>7, StepKeeps DEF ActiveMoves
\* The steps that take a gate-confirm to its end: the journey moves.
LEMMA MovingSteps ==
    ASSUME IInv, NEW p \in Requests,
           \/ confirmNext(p) \/ confirmSignedOff(p)
           \/ storiesRead(p) \/ resumeCreates(p)
           \/ \E list \in StoryLists : confirmDefinition(p, list)
    PROVE  IInv'
<1>1. TypeOK /\ Review \in Stages /\ TestPlan \in Stages
  BY StageNames DEF IInv
<1>2. req[p] \in Request
  BY <1>1 DEF TypeOK
<1>3. /\ Moves({p}) /\ outdated' \in BOOLEAN
      /\ UNCHANGED <<present, completedStages, spent, validated>>
  BY <1>1, <1>2
  DEF confirmNext, confirmSignedOff, storiesRead, resumeCreates, confirmDefinition,
      MovedBy, TypeOK, Request
<1>4. /\ req' \in [Requests -> Request] /\ GoOn
      /\ storiesPage' \in BOOLEAN
      /\ SpentOK
  BY <1>1, <1>3, Moving, Spending
<1>5. rewound' \in BOOLEAN /\ adrift' \in BOOLEAN /\ passedOver' \in SUBSET Stages
  <2>1. Unfinished \subseteq Stages
    BY DEF Unfinished
  <2>2. QED
    BY <1>1, <2>1
    DEF confirmNext, confirmSignedOff, storiesRead, resumeCreates, confirmDefinition,
        StoriesBegin, MovedBy, TypeOK, formVars
<1>6. SUFFICES
        /\ sess' \in Seq(Session) /\ KeepsSkills /\ ActiveMoves
        /\ storyList' \in StoryLists \cup {0} /\ storyIndex' \in Nat
        /\ complete' \in BOOLEAN
        /\ row' \in [storyList : StoryLists \cup {0}, storyIndex : Nat, complete : BOOLEAN]
  <2>1. FieldsOK'
    BY <1>1, <1>3, <1>4, <1>5, <1>6 DEF FieldsOK, TypeOK
  <2>2. QED
    BY <1>3, <1>4, <1>6, <2>1, StepKeeps
<1>7. CASE \E skill \in Stages, list \in StoryLists \cup {0}, index \in Nat :
              Activate(skill, list, index) /\ UNCHANGED complete
  BY <1>1, <1>7, Activating DEF TypeOK
<1>8. CASE confirmNext(p)
  <2> DEFINE next == getNextStage(sess[req[p].sid].skill)
  <2>1. next \in Stages /\ Activate(next, storyList, storyIndex) /\ UNCHANGED complete
    BY <1>8, StageNames DEF confirmNext
  <2>2. storyList \in StoryLists \cup {0} /\ storyIndex \in Nat
    BY <1>1 DEF TypeOK
  <2> HIDE DEF next
  <2>3. QED
    BY <1>7, <2>1, <2>2
<1>9. CASE storiesRead(p)
  <2>1. /\ Activate(Review, storyList, storyIndex) /\ UNCHANGED complete
        /\ storyList \in StoryLists \cup {0} /\ storyIndex \in Nat
    BY <1>1, <1>9 DEF storiesRead, TypeOK
  <2>2. QED
    BY <1>1, <1>7, <2>1
<1>10. CASE resumeCreates(p)
  <2>1. /\ Activate(req[p].skill, storyList, storyIndex) /\ UNCHANGED complete
        /\ storyList \in StoryLists \cup {0} /\ storyIndex \in Nat
        /\ req[p].skill \in Stages
    BY <1>1, <1>2, <1>10 DEF resumeCreates, TypeOK, Request
  <2>2. QED
    BY <1>7, <2>1
<1>11. ASSUME NEW list \in StoryLists, confirmDefinition(p, list)
       PROVE  \E skill \in Stages, l \in StoryLists \cup {0}, index \in Nat :
                 Activate(skill, l, index) /\ UNCHANGED complete
  <2>1. Activate(Review, list, 0) /\ UNCHANGED complete
    BY <1>11 DEF confirmDefinition
  <2>2. list \in StoryLists \cup {0} /\ 0 \in Nat
    OBVIOUS
  <2>3. QED
    BY <1>1, <2>1, <2>2
<1>12. CASE confirmSignedOff(p)
  <2>1. storyList \in StoryLists \cup {0} /\ storyIndex \in Nat /\ storyIndex + 1 \in Nat
    BY <1>1 DEF TypeOK
  <2>2. CASE storyIndex + 1 < storyList /\ present
    <3>1. Activate(TestPlan, storyList, storyIndex + 1) /\ UNCHANGED complete
      BY <1>12, <2>2 DEF confirmSignedOff
    <3>2. QED
      BY <1>1, <1>7, <2>1, <3>1
  <2>3. CASE ~(storyIndex + 1 < storyList /\ present)
    <3>1. /\ storyIndex' \in Nat /\ complete' \in BOOLEAN
          /\ UNCHANGED <<activeSkill, active, storyList, row, sess>>
      BY <1>1, <1>12, <2>1, <2>3 DEF confirmSignedOff, TypeOK
    <3>2. sess' \in Seq(Session) /\ KeepsSkills /\ ActiveMoves
      BY <1>1, <3>1 DEF TypeOK, KeepsSkills, ActiveMoves
    <3>3. QED
      BY <1>1, <2>1, <3>1, <3>2 DEF TypeOK
  <2>4. QED
    BY <2>2, <2>3
<1>13. QED
  BY <1>7, <1>8, <1>9, <1>10, <1>11, <1>12

LEMMA RequestSteps ==
    ASSUME IInv, NEW p \in Requests,
           \/ resume(p) \/ resumeRestores(p)
           \/ \E list \in StoryLists : postStories(p, list)
    PROVE  IInv'
<1>1. /\ TypeOK
      /\ Len(sess) \in Nat /\ DOMAIN sess = 1..Len(sess) /\ active \in 0..Len(sess)
  BY SessionsAreNumbered DEF IInv
<1>2. CASE resume(p)
  <2>1. /\ Begins(p, "resume", active, activeSkill,
                  ~(active # 0 /\ sess[active].live))
        /\ UNCHANGED <<journeyVars, sess, storiesPage, ghostVars>>
    BY <1>2, Zenon DEF resume
  <2>2. active \in Nat /\ activeSkill \in Stages
    BY <1>1 DEF TypeOK
  <2>3. /\ req' \in [Requests -> Request] /\ SpentOK
        /\ \A q \in Requests : q # p => req'[q] = req[q]
        /\ req'[p].pc = "resume"
    BY <1>1, <2>1, <2>2, Beginning
  <2>4. GoOn
    BY <2>3 DEF GoOn, Confirming
  <2>5. FieldsOK' /\ UNCHANGED <<activeSkill, active>> /\ KeepsSkills /\ sess' \in Seq(Session)
    BY <1>1, <2>1 DEF TypeOK, FieldsOK, KeepsSkills, journeyVars, ghostVars
  <2>6. QED
    BY <2>3, <2>4, <2>5, StepKeeps DEF ActiveMoves
<1>3. CASE resumeRestores(p)
  <2>1. sess' \in Seq(Session) /\ KeepsSkills
    BY <1>1, <1>3, Restoring DEF resumeRestores, Kept
  <2>2. /\ req' \in [Requests -> Request] /\ GoOn /\ SpentOK
        /\ UNCHANGED <<journeyVars, storiesPage, ghostVars>>
    BY <1>1, <1>3, Replacing, Spending DEF resumeRestores
  <2>3. FieldsOK' /\ UNCHANGED <<activeSkill, active>>
    BY <1>1, <2>2 DEF TypeOK, FieldsOK, journeyVars, ghostVars
  <2>4. QED
    BY <2>1, <2>2, <2>3, StepKeeps DEF ActiveMoves
<1>4. ASSUME NEW list \in StoryLists, postStories(p, list)
      PROVE  IInv'
  <2>1. /\ Begins(p, "stories", 0, FirstStage, storiesPage)
        /\ UNCHANGED <<present, activeSkill, active, completedStages, complete,
                       row, sess, storiesPage, validated, rewound, outdated,
                       passedOver>>
        /\ storyList' = list /\ storyIndex' = 0
        /\ adrift' \in BOOLEAN /\ storiesPage \in BOOLEAN
    BY <1>1, <1>4 DEF postStories, TypeOK
  <2>2. /\ req' \in [Requests -> Request] /\ SpentOK
        /\ \A q \in Requests : q # p => req'[q] = req[q]
        /\ req'[p].pc = "stories"
    BY <1>1, <2>1, Beginning
  <2>3. GoOn
    BY <2>2 DEF GoOn, Confirming
  <2>4. storyList' \in StoryLists \cup {0} /\ storyIndex' \in Nat
    BY <2>1
  <2>5. FieldsOK'
    BY <1>1, <2>1, <2>4 DEF TypeOK, FieldsOK
  <2>6. KeepsSkills /\ sess' \in Seq(Session)
    BY <1>1, <2>1 DEF TypeOK, KeepsSkills
  <2>7. QED
    BY <2>1, <2>2, <2>3, <2>5, <2>6, StepKeeps DEF ActiveMoves
<1>5. QED
  BY <1>2, <1>3, <1>4

LEMMA DisturbanceSteps ==
    ASSUME IInv,
           \/ \E target \in Stages : regress(target)
           \/ \E e \in completedStages : reopen(e)
           \/ delete
           \/ \E wiped \in BOOLEAN : restart(wiped)
    PROVE  IInv'
<1>1. /\ TypeOK /\ SpentOK
      /\ Len(sess) \in Nat /\ DOMAIN sess = 1..Len(sess)
  BY Spending, SessionsAreNumbered DEF IInv, regress, reopen, delete, restart
<1>2. ASSUME NEW target \in Stages, regress(target)
      PROVE  IInv'
  <2>1. req' \in [Requests -> Request] /\ GoOn /\ storiesPage' \in BOOLEAN
    BY <1>1, <1>2, Moving DEF regress
  <2>2. row' \in [storyList : StoryLists \cup {0}, storyIndex : Nat, complete : BOOLEAN]
    BY <1>1, <1>2, Storing DEF regress, StoredAsIs, TypeOK
  <2>3. /\ completedStages' \in SUBSET Entry /\ validated' \in SUBSET Nat
        /\ rewound' \in BOOLEAN /\ adrift' \in BOOLEAN
        /\ passedOver' \in SUBSET Stages
        /\ UNCHANGED <<present, storyList, storyIndex, complete, sess, outdated>>
        /\ activeSkill' = target /\ active' = 0
    BY <1>1, <1>2 DEF regress, TypeOK
  <2>4. FieldsOK' /\ KeepsSkills /\ sess' \in Seq(Session)
    BY <1>1, <2>1, <2>2, <2>3 DEF TypeOK, FieldsOK, KeepsSkills
  <2>5. QED
    BY <1>1, <2>1, <2>3, <2>4, StepKeeps DEF ActiveMoves
<1>3. ASSUME NEW e \in completedStages, reopen(e)
      PROVE  IInv'
  <2>1. e \in Entry
    BY <1>1 DEF TypeOK
  <2>2. e.skill \in Stages /\ [e EXCEPT !.sid = Len(sess) + 1] \in Entry
    BY <1>1, <2>1 DEF Entry
  <2>3. sess' \in Seq(Session) /\ KeepsSkills
    <3>1. /\ sess' = Append(sess, Registered(e.skill, storyList, storyIndex))
          /\ storyList \in Nat /\ storyIndex \in Nat
      BY <1>1, <1>3 DEF reopen, TypeOK
    <3>2. QED
      BY <1>1, <2>2, <3>1, Appended DEF TypeOK
  <2>4. completedStages' \in SUBSET Entry
    BY <1>1, <1>3, <2>2 DEF reopen, TypeOK
  <2>5. row' \in [storyList : StoryLists \cup {0}, storyIndex : Nat, complete : BOOLEAN]
    <3>1. Stored(storyList, storyIndex, complete)
      BY <1>3 DEF reopen, StoredAsIs
    <3>2. QED
      BY <1>1, <3>1, Storing DEF TypeOK
  <2>6. /\ FieldsOK' /\ UNCHANGED <<activeSkill, active>>
        /\ req' \in [Requests -> Request] /\ GoOn
    BY <1>1, <1>3, <2>4, <2>5 DEF reopen, TypeOK, FieldsOK, GoOn, ghostVars
  <2>7. QED
    BY <1>1, <2>3, <2>6, StepKeeps DEF ActiveMoves
<1>4. CASE delete
  <2>1. /\ present' = FALSE
        /\ UNCHANGED <<activeSkill, active, completedStages, storyList, storyIndex,
                       complete, row, sess, req, storiesPage, ghostVars>>
    BY <1>4 DEF delete
  <2>2. FieldsOK'
    BY <1>1, <2>1 DEF TypeOK, FieldsOK, ghostVars
  <2>3. /\ KeepsSkills /\ sess' \in Seq(Session)
        /\ req' \in [Requests -> Request] /\ GoOn
    BY <1>1, <2>1 DEF TypeOK, KeepsSkills, GoOn
  <2>4. QED
    BY <1>1, <2>1, <2>2, <2>3, StepKeeps DEF ActiveMoves
<1>5. ASSUME NEW wiped \in BOOLEAN, restart(wiped)
      PROVE  IInv'
  <2>1. PICK copied : sess' = [s \in DOMAIN sess |->
                                 [sess[s] EXCEPT !.live = @ /\ ~wiped,
                                                 !.kept = @ \/ s \in copied]]
    BY <1>5 DEF restart
  <2>2. \A s \in DOMAIN sess : sess'[s] \in Session /\ sess'[s].skill = sess[s].skill
    BY <1>1, <2>1, IsSession DEF Session
  <2>3. sess' \in [1..Len(sess) -> Session]
    BY <1>1, <2>1, <2>2
  <2>4. sess' \in Seq(Session) /\ Len(sess') = Len(sess)
    BY <1>1, <2>3
  <2>5. KeepsSkills
    BY <1>1, <2>2, <2>4 DEF KeepsSkills
  <2>6. req' \in [Requests -> Request] /\ GoOn
    <3>1. Idle \in Request /\ Idle.pc \notin Confirming
      BY DEF Idle, Request, Confirming
    <3>2. req' = [q \in Requests |-> Idle]
      BY <1>5 DEF restart
    <3>3. QED
      BY <3>1, <3>2 DEF GoOn
  <2>7. FieldsOK' /\ UNCHANGED <<activeSkill, active>>
    BY <1>1, <1>5 DEF restart, TypeOK, FieldsOK, ghostVars
  <2>8. QED
    BY <1>1, <2>4, <2>5, <2>6, <2>7, StepKeeps DEF ActiveMoves
<1>6. QED
  BY <1>2, <1>3, <1>4, <1>5

LEMMA IInvNext == IInv /\ [Next]_vars => IInv'
<1> SUFFICES ASSUME IInv, [Next]_vars PROVE IInv'
  OBVIOUS
<1>1. ASSUME NEW p \in Requests, Confirmation(p) \/ StoryList(p) \/ Resumption(p)
      PROVE  IInv'
  BY <1>1, ConfirmationSteps, CommitStep, MovingSteps, RequestSteps
  DEF Confirmation, StoryList, Resumption
<1>2. ASSUME UNCHANGED vars
      PROVE  IInv'
  BY <1>2 DEF vars, IInv, TypeOK, ConfirmsASession, SessionOfStage
<1>3. QED
  BY <1>1, <1>2, TurnSteps, DisturbanceSteps DEF Next

(***************************************************************************)
(* Every field of the journey, its sessions and its requests keeps its     *)
(* type through turns, confirmations, regressions and restarts.            *)
(***************************************************************************)
THEOREM TypeCorrect == Spec => []TypeOK
<1>1. IInv => TypeOK
  BY DEF IInv
<1>2. QED
  BY <1>1, IInvInit, IInvNext, PTL DEF Spec

(***************************************************************************)
(* The active session is one of the active stage, for any story lists and  *)
(* any number of requests, failures and restarts: the page a user is sent  *)
(* to works on the stage the journey is at.                                *)
(***************************************************************************)
THEOREM ActiveSessionOfStage == Spec => []SessionOfStage
<1>1. IInv => SessionOfStage
  BY DEF IInv
<1>2. QED
  BY <1>1, IInvInit, IInvNext, PTL DEF Spec

-------------------------------------------------------------------------------
(***************************************************************************)
(* The order of the stages.                                                *)
(***************************************************************************)

Feature == Stages \ PerStory

LEMMA StageOrder ==
    /\ \A s \in Stages : Position(s) \in 1..8 /\ STAGE_SEQUENCE[Position(s)] = s
    /\ Position("definition") = 5 /\ Position(Review) = 6
    /\ Position(TestPlan) = 7 /\ Position(DefinitionOfReady) = 8
    /\ NoStage \notin Stages /\ "definition" \in Feature /\ Review \in Feature
<1>1. DOMAIN STAGE_SEQUENCE = 1..8
  BY DEF STAGE_SEQUENCE
<1>2. /\ STAGE_SEQUENCE[1] = "ideate" /\ STAGE_SEQUENCE[2] = "discovery"
      /\ STAGE_SEQUENCE[3] = "benefit-metric" /\ STAGE_SEQUENCE[4] = "design"
      /\ STAGE_SEQUENCE[5] = "definition" /\ STAGE_SEQUENCE[6] = "review"
      /\ STAGE_SEQUENCE[7] = "test-plan"
      /\ STAGE_SEQUENCE[8] = "definition-of-ready"
  BY DEF STAGE_SEQUENCE
<1>3. \A s \in Stages : Position(s) \in 1..8 /\ STAGE_SEQUENCE[Position(s)] = s
  BY <1>1 DEF Stages, Position
<1>4. /\ "definition" \in Stages /\ Review \in Stages /\ TestPlan \in Stages
      /\ DefinitionOfReady \in Stages
  BY <1>1, <1>2 DEF Stages, Review, TestPlan, DefinitionOfReady
<1>5. /\ Position("definition") = 5 /\ Position(Review) = 6
      /\ Position(TestPlan) = 7 /\ Position(DefinitionOfReady) = 8
  <2>1. \A i \in 1..8 : /\ STAGE_SEQUENCE[i] = "definition" => i = 5
                        /\ STAGE_SEQUENCE[i] = "review" => i = 6
                        /\ STAGE_SEQUENCE[i] = "test-plan" => i = 7
                        /\ STAGE_SEQUENCE[i] = "definition-of-ready" => i = 8
    BY <1>2
  <2>2. QED
    BY <1>3, <1>4, <2>1 DEF Review, TestPlan, DefinitionOfReady
<1>6. NoStage \notin Stages
  <2>1. \A i \in 1..8 : STAGE_SEQUENCE[i] # "null"
    BY <1>2
  <2>2. QED
    BY <1>1, <2>1 DEF Stages, NoStage
<1>7. "definition" \notin PerStory /\ Review \notin PerStory
  BY DEF PerStory, Review, TestPlan, DefinitionOfReady
<1>8. QED
  BY <1>3, <1>4, <1>5, <1>6, <1>7 DEF Feature

\* A later stage has a later position, and a position has one stage.
LEMMA Later ==
    ASSUME NEW s \in Stages, NEW t \in Stages
    PROVE  /\ isStrictlyLaterStage(s, t) <=> Position(s) < Position(t)
           /\ Position(s) = Position(t) => s = t
           /\ t \in PerStory <=> Position(t) > 6
<1>1. Position(s) \in 1..8 /\ Position(t) \in 1..8
  BY StageOrder
<1>2. isStrictlyLaterStage(s, t) <=> Position(s) < Position(t)
  BY <1>1 DEF isStrictlyLaterStage, getDownstreamStages, isKnownStage
<1>3. \A a \in Stages, b \in Stages : Position(a) = Position(b) => a = b
  BY StageOrder
<1>4. t \in PerStory => Position(t) > 6
  BY StageOrder DEF PerStory
<1>5. Position(t) > 6 => t \in PerStory
  <2>1. Position(t) > 6 => Position(t) = 7 \/ Position(t) = 8
    BY <1>1
  <2>2. TestPlan \in Stages /\ DefinitionOfReady \in Stages
    BY StageNames
  <2>3. QED
    BY <1>3, <2>1, <2>2, StageOrder DEF PerStory
<1>6. QED
  BY <1>2, <1>3, <1>4, <1>5

\* The next stage stands one position later.
LEMMA NextStage ==
    ASSUME NEW s \in Stages, getNextStage(s) # NoStage
    PROVE  getNextStage(s) \in Stages /\ Position(getNextStage(s)) = Position(s) + 1
<1>1. Position(s) \in 1..8 /\ Len(STAGE_SEQUENCE) = 8 /\ DOMAIN STAGE_SEQUENCE = 1..8
  BY StageOrder DEF STAGE_SEQUENCE
<1>2. Position(s) < 8 /\ getNextStage(s) = STAGE_SEQUENCE[Position(s) + 1]
  BY <1>1 DEF getNextStage, isKnownStage
<1>3. \A i, j \in 1..8 : STAGE_SEQUENCE[i] = STAGE_SEQUENCE[j] => i = j
  <2>1. /\ STAGE_SEQUENCE[1] = "ideate" /\ STAGE_SEQUENCE[2] = "discovery"
        /\ STAGE_SEQUENCE[3] = "benefit-metric" /\ STAGE_SEQUENCE[4] = "design"
        /\ STAGE_SEQUENCE[5] = "definition" /\ STAGE_SEQUENCE[6] = "review"
        /\ STAGE_SEQUENCE[7] = "test-plan"
        /\ STAGE_SEQUENCE[8] = "definition-of-ready"
    BY DEF STAGE_SEQUENCE
  <2>2. QED
    BY <2>1
<1>4. Position(s) + 1 \in 1..8
  BY <1>1, <1>2
<1>5. getNextStage(s) \in Stages
  BY <1>1, <1>2, <1>4 DEF Stages
<1>6. /\ Position(getNextStage(s)) \in 1..8
      /\ STAGE_SEQUENCE[Position(getNextStage(s))] = getNextStage(s)
  BY <1>5, StageOrder
<1>7. QED
  BY <1>2, <1>3, <1>4, <1>5, <1>6

-------------------------------------------------------------------------------
(***************************************************************************)
(* The inductive invariant.  What stands before the active stage is        *)
(* complete or was passed over by a stories form (Base), whatever has been *)
(* regressed; it holds as long as no request moved the journey from where  *)
(* it no longer was.                                                       *)
(***************************************************************************)

\* The sessions of a stage with one artefact per feature name no story.
FeatureSessions ==
    \A s \in DOMAIN sess : sess[s].skill \notin PerStory => sess[s].story = 0

EarlierComplete ==
    \A stage \in Feature :
       /\ Position(FirstStage) <= Position(stage)
       /\ Position(stage) < Position(activeSkill)
       => stage \in passedOver \/ Complete(stage, 0)

Recorded(s) == Complete(sess[s].skill, sess[s].story)

SettledIsRecorded ==
    present /\ active # 0 /\ sess[active].stageDone => Recorded(active)

\* The journey stands at its definition, which is complete.
DefinitionIsDone ==
    /\ activeSkill = "definition"
    /\ present => Complete("definition", 0)

Fresh(p) == Busy(p) /\ ~req[p].stale

\* What a request has read, for as long as the journey has not moved since: it
\* is about the active session, and past its save the stage is recorded; or its
\* list is the journey's.
UpToDate(p) ==
    Fresh(p) =>
       /\ req[p].pc # "stories" => req[p].sid = active
       /\ req[p].pc = "resume" => req[p].skill = activeSkill
       /\ req[p].pc = "stories" => /\ storyList # 0 /\ storyIndex = 0
                                   /\ adrift \/ DefinitionIsDone
       /\ /\ present /\ req[p].pc \in Confirming
          /\ req[p].pc = "state" \/ req[p].own = "settled"
          => Recorded(req[p].sid)
       /\ req[p].pc = "state" /\ sess[req[p].sid].skill = DefinitionOfReady
          => sess[req[p].sid].story \in validated

Base ==
    /\ EarlierComplete
    /\ SettledIsRecorded
    /\ \A p \in Requests : UpToDate(p)

(***************************************************************************)
(* In the cycle of the stories (Cycle) the memory and the row may be at    *)
(* different stories, and a stories form sets the memory back to the       *)
(* first.  At each of the three places (CycleAt) the stories before it are *)
(* signed off, and the active session is about the story that follows      *)
(* unless that one is signed off too.                                      *)
(***************************************************************************)
InCycle == activeSkill \in PerStory

Signed(story) ==
    /\ story \in validated
    /\ Complete(DefinitionOfReady, story)
    /\ Complete(TestPlan, story)

CycleAt(list, index) ==
    /\ active # 0 /\ index < list =>
          sess[active].story = index + 1 \/ Signed(index + 1)
    /\ \A story \in 1..list : story <= index => Signed(story)
    /\ activeSkill = DefinitionOfReady /\ index < list => Complete(TestPlan, index + 1)

Cycle ==
    /\ activeSkill = Review => storyIndex = 0 /\ row.storyIndex = 0
    /\ activeSkill = Review \/ InCycle => storyList # 0 /\ row.storyList # 0
    /\ InCycle => /\ CycleAt(storyList, storyIndex)
                  /\ CycleAt(row.storyList, row.storyIndex)
                  /\ CycleAt(1, 0)

Ordered ==
    /\ FeatureSessions
    /\ outdated \/ Base
    /\ outdated \/ rewound \/ Cycle

LEMMA OrderedSuffices ==
    ASSUME TypeOK, Ordered
    PROVE  NoStageSkipped /\ LeftBehindSignedOff
<1>1. LeftBehindSignedOff
  BY DEF LeftBehindSignedOff, Ordered, Cycle, CycleAt, Signed, InCycle
<1>2. SUFFICES ASSUME ~outdated, ~rewound, NEW stage \in Stages,
                      Position(FirstStage) <= Position(stage),
                      isStrictlyLaterStage(stage, activeSkill),
                      stage \in PerStory => storyIndex < storyList
               PROVE  \/ stage \in passedOver
                      \/ Complete(stage, StoryAt(stage, storyList, storyIndex))
  BY <1>1 DEF NoStageSkipped
<1>3. activeSkill \in Stages /\ storyIndex \in Nat /\ storyList \in Nat
  BY DEF TypeOK
<1>4. Position(stage) < Position(activeSkill)
  BY <1>2, <1>3, Later
<1>5. CASE stage \notin PerStory
  BY <1>2, <1>4, <1>5 DEF Ordered, Base, EarlierComplete, Feature, StoryAt
<1>6. CASE stage \in PerStory
  <2>1. Position(stage) > 6 /\ Position(activeSkill) \in 1..8 /\ Position(stage) \in 1..8
    BY <1>3, <1>6, Later, StageOrder
  <2>2. Position(stage) = 7 /\ Position(activeSkill) = 8
    BY <1>4, <2>1
  <2>3. stage = TestPlan /\ activeSkill = DefinitionOfReady
    BY <1>3, <2>2, Later, StageOrder, StageNames
  <2>4. Complete(TestPlan, storyIndex + 1)
    BY <1>2, <1>6, <2>3 DEF Ordered, Cycle, CycleAt, InCycle, PerStory
  <2>5. QED
    BY <1>2, <1>6, <2>3, <2>4 DEF StoryAt
<1>7. QED
  BY <1>5, <1>6

LEMMA OrderedInit == Init => Ordered
<1> SUFFICES ASSUME Init PROVE Ordered
  OBVIOUS
<1>1. DOMAIN sess = {1} /\ sess[1] = Registered(FirstStage, 0, 0)
  BY DEF Init
<1>2. StoryAt(FirstStage, 0, 0) = 0
  BY DEF StoryAt
<1>3. FeatureSessions
  BY <1>1, <1>2 DEF FeatureSessions, Registered
<1>4. EarlierComplete
  <2>1. SUFFICES ASSUME NEW stage \in Feature,
                        Position(FirstStage) <= Position(stage),
                        Position(stage) < Position(FirstStage)
                 PROVE  FALSE
    BY DEF EarlierComplete, Init
  <2>2. Position(stage) \in 1..8 /\ Position(FirstStage) \in 1..8
    BY StageOrder DEF Feature
  <2>3. QED
    BY <2>1, <2>2
<1>5. SettledIsRecorded
  BY <1>1 DEF SettledIsRecorded, Registered, Init
<1>6. \A p \in Requests : UpToDate(p)
  BY DEF UpToDate, Fresh, Busy, Init, Idle
<1>7. Cycle
  <2>1. Position(FirstStage) < 6
    BY StageNames, StageOrder, Later DEF Review
  <2>2. FirstStage # Review /\ FirstStage \notin PerStory
    BY <2>1, StageOrder, Later
  <2>3. QED
    BY <2>2 DEF Cycle, InCycle, Init
<1>8. QED
  BY <1>3, <1>4, <1>5, <1>6, <1>7 DEF Ordered, Base

-------------------------------------------------------------------------------
(***************************************************************************)
(* What a step leaves as it was.                                           *)
(***************************************************************************)

\* A session keeps what it was registered with, and a new one of a stage with
\* one artefact per feature names no story.
KeepsRegistrations ==
    /\ Len(sess') >= Len(sess)
    /\ \A s \in DOMAIN sess : sess'[s].skill = sess[s].skill /\ sess'[s].story = sess[s].story
    /\ \A s \in DOMAIN sess' :
          s \notin DOMAIN sess /\ sess'[s].skill \notin PerStory => sess'[s].story = 0

\* Complete after the step: of a session's stage and story before or after it.
NowComplete(stage, story) ==
    \E e \in completedStages' : e.skill = stage /\ e.story = story

NowSigned(story) ==
    /\ story \in validated'
    /\ NowComplete(DefinitionOfReady, story)
    /\ NowComplete(TestPlan, story)

\* CycleAt after the step, of a place before or after it.
NowAt(list, index) ==
    /\ active' # 0 /\ index < list =>
          sess'[active'].story = index + 1 \/ NowSigned(index + 1)
    /\ \A story \in 1..list : story <= index => NowSigned(story)
    /\ activeSkill' = DefinitionOfReady /\ index < list => NowComplete(TestPlan, index + 1)

\* What was complete stays so.
Lasting == \A stage, story : Complete(stage, story) => NowComplete(stage, story)

LEMMA AppendedRegisters ==
    ASSUME TypeOK, NEW skill \in Stages, NEW list \in Nat, NEW index \in Nat,
           sess' = Append(sess, Registered(skill, list, index))
    PROVE  /\ KeepsRegistrations
           /\ Len(sess') = Len(sess) + 1
           /\ sess'[Len(sess) + 1].skill = skill
           /\ sess'[Len(sess) + 1].story = StoryAt(skill, list, index)
           /\ sess'[Len(sess) + 1].stageDone = FALSE
<1> DEFINE new == Registered(skill, list, index)
<1>1. new \in Session /\ sess \in Seq(Session)
  BY NewSession DEF TypeOK
<1>2. /\ new.skill = skill /\ new.story = StoryAt(skill, list, index)
      /\ new.stageDone = FALSE
      /\ skill \notin PerStory => new.story = 0
  BY DEF Registered, StoryAt
<1> HIDE DEF new
<1>3. /\ Len(sess') = Len(sess) + 1 /\ sess'[Len(sess) + 1] = new
      /\ \A s \in DOMAIN sess : sess'[s] = sess[s]
      /\ \A s \in DOMAIN sess' : s \in DOMAIN sess \/ s = Len(sess) + 1
      /\ Len(sess) \in Nat
  BY <1>1 DEF new
<1>4. QED
  BY <1>2, <1>3 DEF KeepsRegistrations

\* One session changes, but not what it was registered with.
LEMMA ChangedRegisters ==
    ASSUME TypeOK, NEW s \in DOMAIN sess, NEW new,
           new.skill = sess[s].skill, new.story = sess[s].story,
           sess' = [sess EXCEPT ![s] = new]
    PROVE  KeepsRegistrations
<1>1. /\ Len(sess') = Len(sess) /\ DOMAIN sess' = DOMAIN sess /\ Len(sess) \in Nat
      /\ \A t \in DOMAIN sess : sess'[t] = IF t = s THEN new ELSE sess[t]
  BY DEF TypeOK
<1>2. QED
  BY <1>1 DEF KeepsRegistrations

LEMMA SameRegisters ==
    ASSUME TypeOK, UNCHANGED sess
    PROVE  KeepsRegistrations
BY DEF TypeOK, KeepsRegistrations

LEMMA Registering ==
    ASSUME IInv, [Next]_vars
    PROVE  KeepsRegistrations
<1>1. /\ TypeOK /\ Review \in Stages /\ TestPlan \in Stages
      /\ storyList \in Nat /\ storyIndex \in Nat
  BY StageNames DEF IInv, TypeOK
<1>2. ASSUME NEW s \in DOMAIN sess, Turn(s)
      PROVE  KeepsRegistrations
  <2>1. \E new : /\ new.skill = sess[s].skill /\ new.story = sess[s].story
                 /\ sess' = [sess EXCEPT ![s] = new]
    <3>1. sess[s] \in Session
      BY <1>1, IsSession
    <3>2. CASE finish(s)
      <4> DEFINE new == [sess[s] EXCEPT !.done = TRUE, !.stageDone = TRUE, !.kept = FALSE]
      <4>1. new.skill = sess[s].skill /\ new.story = sess[s].story
        BY <3>1 DEF Session
      <4>2. sess' = [sess EXCEPT ![s] = new]
        BY <3>2 DEF finish
      <4> HIDE DEF new
      <4>3. QED
        BY <4>1, <4>2
    <3>3. CASE finishUncommitted(s)
      <4>1. PICK kept \in BOOLEAN :
               sess' = [sess EXCEPT ![s] = [sess[s] EXCEPT !.done = TRUE, !.kept = kept]]
        BY <3>3 DEF finishUncommitted
      <4> DEFINE new == [sess[s] EXCEPT !.done = TRUE, !.kept = kept]
      <4>2. new.skill = sess[s].skill /\ new.story = sess[s].story
        BY <3>1 DEF Session
      <4>3. sess' = [sess EXCEPT ![s] = new]
        BY <4>1
      <4> HIDE DEF new
      <4>4. QED
        BY <4>2, <4>3
    <3>4. CASE reload(s)
      <4> DEFINE new == [sess[s] EXCEPT !.live = TRUE, !.done = FALSE, !.stageDone = FALSE]
      <4>1. new.skill = sess[s].skill /\ new.story = sess[s].story
        BY <3>1 DEF Session
      <4>2. sess' = [sess EXCEPT ![s] = new]
        BY <3>4 DEF reload, Restore
      <4> HIDE DEF new
      <4>3. QED
        BY <4>1, <4>2
    <3>5. QED
      BY <1>2, <3>2, <3>3, <3>4 DEF Turn
  <2>2. QED
    BY <1>1, <2>1, ChangedRegisters
<1>3. ASSUME NEW p \in Requests, Confirmation(p) \/ StoryList(p) \/ Resumption(p)
      PROVE  KeepsRegistrations
  <2>1. CASE UNCHANGED sess
    BY <1>1, <2>1, SameRegisters
  <2>2. CASE \E skill \in Stages, list \in Nat, index \in Nat :
                sess' = Append(sess, Registered(skill, list, index))
    BY <1>1, <2>2, AppendedRegisters
  <2>3. CASE \E valid \in BOOLEAN : confirmCommitted(p, valid)
    <3>1. req[p].sid \in DOMAIN sess
      BY <2>3 DEF IInv, ConfirmsASession, Confirming, confirmCommitted
    <3> DEFINE s == req[p].sid
               new == [sess[s] EXCEPT !.stageDone = TRUE]
    <3>2. new.skill = sess[s].skill /\ new.story = sess[s].story
      BY <1>1, <3>1, IsSession DEF Session
    <3>3. sess' = [sess EXCEPT ![s] = new] \/ sess' = sess
      BY <2>3 DEF confirmCommitted
    <3> HIDE DEF new
    <3>4. QED
      BY <1>1, <3>1, <3>2, <3>3, ChangedRegisters, SameRegisters
  <2>4. CASE confirmNext(p)
    <3> DEFINE next == getNextStage(sess[req[p].sid].skill)
    <3>1. next \in Stages /\ sess' = Append(sess, Registered(next, storyList, storyIndex))
      BY <2>4, StageNames DEF confirmNext, Activate
    <3> HIDE DEF next
    <3>2. QED
      BY <1>1, <2>2, <3>1
  <2>5. CASE \E list \in StoryLists : confirmDefinition(p, list)
    <3>1. PICK list \in StoryLists : sess' = Append(sess, Registered(Review, list, 0))
      BY <2>5 DEF confirmDefinition, Activate
    <3>2. QED
      BY <1>1, <2>2, <3>1
  <2>6. CASE confirmSignedOff(p)
    <3>1. \/ sess' = Append(sess, Registered(TestPlan, storyList, storyIndex + 1))
          \/ UNCHANGED sess
      BY <2>6 DEF confirmSignedOff, Activate
    <3>2. storyIndex + 1 \in Nat
      BY <1>1
    <3>3. QED
      BY <1>1, <2>1, <2>2, <3>1, <3>2
  <2>7. CASE storiesRead(p)
    <3>1. sess' = Append(sess, Registered(Review, storyList, storyIndex))
      BY <2>7 DEF storiesRead, Activate
    <3>2. QED
      BY <1>1, <2>2, <3>1
  <2>8. CASE resumeCreates(p)
    <3>1. /\ sess' = Append(sess, Registered(req[p].skill, storyList, storyIndex))
          /\ req[p].skill \in Stages
      BY <1>1, <2>8 DEF resumeCreates, Activate, TypeOK, Request
    <3>2. QED
      BY <1>1, <2>2, <3>1
  <2>9. CASE resumeRestores(p)
    <3> DEFINE s == req[p].sid
               new == [sess[s] EXCEPT !.live = TRUE, !.done = FALSE, !.stageDone = FALSE]
    <3>1. s \in DOMAIN sess /\ sess' = [sess EXCEPT ![s] = new]
      BY <2>9 DEF resumeRestores, Kept, Restore
    <3>2. new.skill = sess[s].skill /\ new.story = sess[s].story
      BY <1>1, <3>1, IsSession DEF Session
    <3> HIDE DEF new
    <3>3. QED
      BY <1>1, <3>1, <3>2, ChangedRegisters
  <2>10. UNCHANGED sess \/ confirmNext(p) \/ confirmSignedOff(p) \/ storiesRead(p)
         \/ resumeCreates(p) \/ resumeRestores(p)
         \/ (\E list \in StoryLists : confirmDefinition(p, list))
         \/ (\E valid \in BOOLEAN : confirmCommitted(p, valid))
    BY <1>3
    DEF Confirmation, StoryList, Resumption, confirm, confirmSaved, confirmFails,
        confirmGone, confirmThrows, confirmUnparsed, postStories, resume
  <2>11. QED
    BY <2>1, <2>3, <2>4, <2>5, <2>6, <2>7, <2>8, <2>9, <2>10
<1>4. ASSUME NEW e \in completedStages, reopen(e)
      PROVE  KeepsRegistrations
  <2>1. /\ sess' = Append(sess, Registered(e.skill, storyList, storyIndex))
        /\ e.skill \in Stages
    BY <1>1, <1>4 DEF reopen, TypeOK, Entry
  <2>2. QED
    BY <1>1, <2>1, AppendedRegisters
<1>5. ASSUME NEW wiped \in BOOLEAN, restart(wiped)
      PROVE  KeepsRegistrations
  <2>1. PICK copied : sess' = [s \in DOMAIN sess |->
                                 [sess[s] EXCEPT !.live = @ /\ ~wiped,
                                                 !.kept = @ \/ s \in copied]]
    BY <1>5 DEF restart
  <2>2. \A s \in DOMAIN sess : /\ sess'[s].skill = sess[s].skill
                               /\ sess'[s].story = sess[s].story
    BY <1>1, <2>1, IsSession DEF Session
  <2>3. DOMAIN sess' = DOMAIN sess
    BY <2>1
  <2>4. Len(sess') = Len(sess) /\ Len(sess) \in Nat
    <3>1. sess' \in Seq(Session)
      BY <1>5, DisturbanceSteps DEF IInv, TypeOK
    <3>2. QED
      BY <1>1, <2>3, <3>1 DEF TypeOK
  <2>5. QED
    BY <2>2, <2>3, <2>4 DEF KeepsRegistrations
<1>6. ASSUME UNCHANGED sess
      PROVE  KeepsRegistrations
  BY <1>1, <1>6, SameRegisters
<1>7. QED
  BY <1>2, <1>3, <1>4, <1>5, <1>6 DEF Next, vars, regress, delete

LEMMA FeaturesStay ==
    ASSUME FeatureSessions, KeepsRegistrations
    PROVE  FeatureSessions'
BY DEF FeatureSessions, KeepsRegistrations

\* Only a regression takes from what is complete.
LEMMA CompletingLasts ==
    ASSUME NEW s, CompleteStage(s)
    PROVE  Lasting /\ NowComplete(sess[s].skill, sess[s].story)
<1> DEFINE new == [skill |-> sess[s].skill, story |-> sess[s].story, sid |-> s]
<1>1. completedStages' = completedStages \cup {new}
  BY DEF CompleteStage
<1>2. Lasting
  BY <1>1 DEF Lasting, Complete, NowComplete
<1>3. new \in completedStages' /\ new.skill = sess[s].skill /\ new.story = sess[s].story
  BY <1>1
<1> HIDE DEF new
<1>4. QED
  BY <1>2, <1>3 DEF NowComplete

LEMMA SameLasts ==
    ASSUME UNCHANGED completedStages
    PROVE  Lasting
BY DEF Lasting, Complete, NowComplete

LEMMA ReopeningLasts ==
    ASSUME TypeOK, NEW e \in completedStages, reopen(e)
    PROVE  Lasting
<1> DEFINE new == [e EXCEPT !.sid = Len(sess) + 1]
<1>1. new.skill = e.skill /\ new.story = e.story
  BY DEF TypeOK, Entry
<1>2. completedStages' = (completedStages \ {e}) \cup {new}
  BY DEF reopen
<1> HIDE DEF new
<1>3. ASSUME NEW stage, NEW story, Complete(stage, story)
      PROVE  NowComplete(stage, story)
  <2>1. PICK f \in completedStages : f.skill = stage /\ f.story = story
    BY <1>3 DEF Complete
  <2>2. \E g \in completedStages' : g.skill = stage /\ g.story = story
    BY <1>1, <1>2, <2>1
  <2>3. QED
    BY <2>2 DEF NowComplete
<1>4. QED
  BY <1>3 DEF Lasting

-------------------------------------------------------------------------------
(***************************************************************************)
(* Steps that leave the journey where it is.                               *)
(***************************************************************************)

LEMMA RequestStays ==
    ASSUME IInv, NEW q \in Requests, UpToDate(q), req'[q] = req[q],
           KeepsRegistrations, Lasting,
           UNCHANGED <<activeSkill, active, storyList, storyIndex>>, adrift => adrift',
           present' => present, validated \subseteq validated'
    PROVE  UpToDate(q)'
<1>1. SUFFICES ASSUME Fresh(q)'
               PROVE  /\ req[q].pc # "stories" => req[q].sid = active
                      /\ req[q].pc = "resume" => req[q].skill = activeSkill
                      /\ req[q].pc = "stories" => /\ storyList # 0 /\ storyIndex = 0
                                                  /\ adrift' \/ DefinitionIsDone'
                      /\ /\ present' /\ req[q].pc \in Confirming
                         /\ req[q].pc = "state" \/ req[q].own = "settled"
                         => NowComplete(sess'[req[q].sid].skill, sess'[req[q].sid].story)
                      /\ (req[q].pc = "state"
                            /\ sess'[req[q].sid].skill = DefinitionOfReady)
                         => sess'[req[q].sid].story \in validated'
  BY DEF UpToDate, Recorded, Complete, NowComplete
<1>2. Fresh(q)
  BY <1>1 DEF Fresh, Busy
<1>3. req[q].pc \in Confirming => /\ sess'[req[q].sid].skill = sess[req[q].sid].skill
                                  /\ sess'[req[q].sid].story = sess[req[q].sid].story
  BY DEF IInv, ConfirmsASession, KeepsRegistrations
<1>4. DefinitionIsDone => DefinitionIsDone'
  BY DEF DefinitionIsDone, Lasting, Complete, NowComplete
<1>5. ASSUME present', req[q].pc \in Confirming, req[q].pc = "state" \/ req[q].own = "settled"
      PROVE  NowComplete(sess'[req[q].sid].skill, sess'[req[q].sid].story)
  <2>1. Complete(sess[req[q].sid].skill, sess[req[q].sid].story)
    BY <1>2, <1>5 DEF UpToDate, Recorded
  <2>2. NowComplete(sess[req[q].sid].skill, sess[req[q].sid].story)
    BY <2>1 DEF Lasting, Complete, NowComplete
  <2>3. QED
    BY <1>3, <1>5, <2>2
<1>6. QED
  BY <1>2, <1>3, <1>4, <1>5 DEF UpToDate, Confirming

LEMMA SettledStays ==
    ASSUME TypeOK, SettledIsRecorded, KeepsRegistrations, Lasting, active' = active,
           present' => present,
           present' /\ active # 0 /\ sess'[active].stageDone =>
              \/ sess[active].stageDone
              \/ NowComplete(sess[active].skill, sess[active].story)
    PROVE  SettledIsRecorded'
<1>1. active # 0 => active \in DOMAIN sess
  BY SessionsAreNumbered
<1>2. SUFFICES ASSUME present', active # 0, sess'[active].stageDone
               PROVE  NowComplete(sess'[active].skill, sess'[active].story)
  BY DEF SettledIsRecorded, Recorded, Complete, NowComplete
<1>3. sess[active].stageDone => Complete(sess[active].skill, sess[active].story)
  BY <1>2 DEF SettledIsRecorded, Recorded
<1>4. NowComplete(sess[active].skill, sess[active].story)
  BY <1>2, <1>3 DEF Lasting
<1>5. QED
  BY <1>1, <1>2, <1>4 DEF KeepsRegistrations

LEMMA StoredNumbers ==
    ASSUME TypeOK
    PROVE  /\ storyList \in Nat /\ storyIndex \in Nat
           /\ row.storyList \in Nat /\ row.storyIndex \in Nat
<1>1. /\ storyList \in StoryLists \cup {0} /\ storyIndex \in Nat
      /\ row \in [storyList : StoryLists \cup {0}, storyIndex : Nat, complete : BOOLEAN]
  BY DEF TypeOK
<1>2. StoryLists \cup {0} \subseteq Nat
  OBVIOUS
<1>3. row.storyList \in Nat /\ row.storyIndex \in Nat
  BY <1>1, <1>2, Zenon
<1>4. QED
  BY <1>1, <1>2, <1>3

LEMMA PlaceStays ==
    ASSUME TypeOK, NEW list \in Nat, NEW index \in Nat, CycleAt(list, index),
           KeepsRegistrations, Lasting, UNCHANGED <<activeSkill, active>>,
           validated \subseteq validated'
    PROVE  NowAt(list, index)
<1>1. \A story : Signed(story) => NowSigned(story)
  BY DEF Signed, NowSigned, Lasting
<1>2. active # 0 => sess'[active].story = sess[active].story
  BY SessionsAreNumbered DEF KeepsRegistrations
<1>3. QED
  BY <1>1, <1>2 DEF CycleAt, NowAt, Lasting

LEMMA CycleNow ==
    ASSUME activeSkill' = Review => storyIndex' = 0 /\ row'.storyIndex = 0,
           activeSkill' = Review \/ activeSkill' \in PerStory
              => storyList' # 0 /\ row'.storyList # 0,
           activeSkill' \in PerStory
              => /\ NowAt(storyList', storyIndex')
                 /\ NowAt(row'.storyList, row'.storyIndex)
                 /\ NowAt(1, 0)
    PROVE  Cycle'
BY DEF Cycle, CycleAt, Signed, Complete, InCycle, NowAt, NowSigned, NowComplete

LEMMA CycleStays ==
    ASSUME TypeOK, Cycle, KeepsRegistrations, Lasting,
           UNCHANGED <<activeSkill, active, storyList, storyIndex>>,
           UNCHANGED row \/ StoredAsIs, validated \subseteq validated'
    PROVE  Cycle'
<1>1. /\ storyList \in Nat /\ storyIndex \in Nat
      /\ row.storyList \in Nat /\ row.storyIndex \in Nat
  BY StoredNumbers
<1>2. \/ row'.storyList = row.storyList /\ row'.storyIndex = row.storyIndex
      \/ row'.storyList = storyList /\ row'.storyIndex = storyIndex
  BY DEF StoredAsIs, Stored
<1>3. ASSUME InCycle
      PROVE  /\ NowAt(storyList, storyIndex)
             /\ NowAt(row.storyList, row.storyIndex)
             /\ NowAt(1, 0)
  BY <1>1, <1>3, PlaceStays DEF Cycle
<1>4. QED
  BY <1>2, <1>3, CycleNow DEF Cycle, InCycle

\* The step leaves the journey where it is.
Stays ==
    /\ KeepsRegistrations
    /\ Lasting
    /\ UNCHANGED <<activeSkill, active, storyList, storyIndex, rewound, adrift, passedOver>>
    /\ UNCHANGED row \/ StoredAsIs
    /\ validated \subseteq validated'
    /\ present' => present
    /\ outdated => outdated'

LEMMA StayingStep ==
    ASSUME IInv, Ordered, Stays,
           Base /\ ~outdated' =>
              /\ SettledIsRecorded'
              /\ \A q \in Requests : req'[q] # req[q] => UpToDate(q)'
    PROVE  Ordered'
<1>1. TypeOK
  BY DEF IInv
<1>2. FeatureSessions'
  BY FeaturesStay DEF Ordered, Stays
<1>3. ASSUME ~outdated'
      PROVE  Base'
  <2>1. Base
    BY <1>3 DEF Ordered, Stays
  <2>2. EarlierComplete'
    BY <2>1
    DEF Base, EarlierComplete, Stays, Lasting, Complete, NowComplete
  <2>3. ASSUME NEW q \in Requests
        PROVE  UpToDate(q)'
    <3>1. CASE req'[q] = req[q]
      BY <2>1, <3>1, RequestStays DEF Base, Stays
    <3>2. CASE req'[q] # req[q]
      BY <1>3, <2>1, <3>2
    <3>3. QED
      BY <3>1, <3>2
  <2>4. QED
    BY <1>3, <2>1, <2>2, <2>3 DEF Base
<1>4. ASSUME ~outdated', ~rewound'
      PROVE  Cycle'
  BY <1>1, <1>4, CycleStays DEF Ordered, Stays
<1>5. QED
  BY <1>2, <1>3, <1>4 DEF Ordered

LEMMA EndedIsUpToDate ==
    ASSUME NEW q \in Requests, req'[q] = Idle
    PROVE  UpToDate(q)'
BY DEF UpToDate, Fresh, Busy, Idle

LEMMA OneEnds ==
    ASSUME NEW p \in Requests, Ends(p), req \in [Requests -> Request]
    PROVE  \A q \in Requests : req'[q] # req[q] => UpToDate(q)'
<1>1. \A q \in Requests : req'[q] # req[q] => req'[q] = Idle
  BY DEF Ends
<1>2. QED
  BY <1>1, EndedIsUpToDate

\* A restored session is not settled, and no other changes.
LEMMA RestoredIsOpen ==
    ASSUME TypeOK, NEW s \in DOMAIN sess, Restore(s)
    PROVE  \A t \in DOMAIN sess : sess'[t].stageDone => sess[t].stageDone
<1> DEFINE new == [sess[s] EXCEPT !.live = TRUE, !.done = FALSE, !.stageDone = FALSE]
<1>1. new.stageDone = FALSE
  BY IsSession DEF Session
<1>2. sess' = [sess EXCEPT ![s] = new]
  BY DEF Restore
<1> HIDE DEF new
<1>3. QED
  BY <1>1, <1>2

LEMMA BegunRequest ==
    ASSUME IInv, NEW p \in Requests, NEW new, req' = [req EXCEPT ![p] = new]
    PROVE  req'[p] = new /\ \A q \in Requests : q # p => req'[q] = req[q]
BY DEF IInv, TypeOK

LEMMA TurnsKeepOrder ==
    ASSUME IInv, Ordered, NEW s \in DOMAIN sess, Turn(s)
    PROVE  Ordered'
<1>1. /\ TypeOK /\ KeepsRegistrations /\ sess[s] \in Session
      /\ active # 0 => active \in DOMAIN sess
  BY Registering, IsSession, SessionsAreNumbered DEF IInv, Next
<1>2. CASE finish(s)
  <2>1. UNCHANGED <<present, activeSkill, active, storyList, storyIndex, req,
                    storiesPage, ghostVars>>
    BY <1>2 DEF finish
  <2>2. /\ Lasting /\ NowComplete(sess[s].skill, sess[s].story)
        /\ UNCHANGED row \/ StoredAsIs
    <3>1. CASE HasEntry(s)
      <4>1. UNCHANGED <<completedStages, row>>
        BY <1>2, <3>1 DEF finish
      <4>2. QED
        BY <3>1, <4>1, SameLasts DEF HasEntry, NowComplete
    <3>2. CASE ~HasEntry(s)
      BY <1>2, <3>2, CompletingLasts DEF finish
    <3>3. QED
      BY <3>1, <3>2
  <2>3. Stays
    BY <1>1, <2>1, <2>2 DEF Stays, ghostVars, formVars
  <2>4. \A t \in DOMAIN sess : t # s => sess'[t] = sess[t]
    BY <1>2 DEF finish
  <2>5. SettledIsRecorded => SettledIsRecorded'
    BY <1>1, <2>1, <2>2, <2>4, SettledStays
  <2>6. QED
    BY <2>1, <2>3, <2>5, StayingStep DEF Base, ghostVars
<1>3. CASE finishUncommitted(s)
  <2>1. UNCHANGED <<present, activeSkill, active, completedStages, storyList, storyIndex,
                    row, req, storiesPage, ghostVars>>
    BY <1>3 DEF finishUncommitted, journeyVars
  <2>2. Lasting
    BY <2>1, SameLasts
  <2>3. Stays
    BY <1>1, <2>1, <2>2 DEF Stays, ghostVars, formVars
  <2>4. PICK kept \in BOOLEAN :
           sess' = [sess EXCEPT ![s] = [sess[s] EXCEPT !.done = TRUE, !.kept = kept]]
    BY <1>3 DEF finishUncommitted
  <2> DEFINE new == [sess[s] EXCEPT !.done = TRUE, !.kept = kept]
  <2>5. new.stageDone = sess[s].stageDone
    BY <1>1 DEF Session
  <2>6. sess' = [sess EXCEPT ![s] = new]
    BY <2>4
  <2> HIDE DEF new
  <2>7. \A t \in DOMAIN sess : sess'[t].stageDone = sess[t].stageDone
    BY <2>5, <2>6
  <2>8. SettledIsRecorded => SettledIsRecorded'
    BY <1>1, <2>1, <2>2, <2>7, SettledStays
  <2>9. QED
    BY <2>1, <2>3, <2>8, StayingStep DEF Base, ghostVars
<1>4. CASE reload(s)
  <2>1. UNCHANGED <<present, activeSkill, active, completedStages, storyList, storyIndex,
                    row, req, storiesPage, ghostVars>>
    BY <1>4 DEF reload, journeyVars
  <2>2. Lasting
    BY <2>1, SameLasts
  <2>3. Stays
    BY <1>1, <2>1, <2>2 DEF Stays, ghostVars, formVars
  <2>4. \A t \in DOMAIN sess : sess'[t].stageDone => sess[t].stageDone
    BY <1>1, <1>4, RestoredIsOpen DEF reload
  <2>5. SettledIsRecorded => SettledIsRecorded'
    BY <1>1, <2>1, <2>2, <2>4, SettledStays
  <2>6. QED
    BY <2>1, <2>3, <2>5, StayingStep DEF Base, ghostVars
<1>5. QED
  BY <1>2, <1>3, <1>4 DEF Turn

\* A gate-confirm that finds the review next has confirmed the definition.
LEMMA AtDefinition ==
    ASSUME IInv, FeatureSessions, NEW p \in Requests, UpToDate(p), Fresh(p),
           req[p].pc = "state", getNextStage(sess[req[p].sid].skill) = Review
    PROVE  DefinitionIsDone
<1>1. /\ req[p].sid = active /\ active # 0 /\ active \in DOMAIN sess
      /\ present => Recorded(active)
  BY SessionsAreNumbered DEF IInv, UpToDate, ConfirmsASession, Confirming
<1>2. sess[active].skill = activeSkill /\ activeSkill \in Stages
  BY <1>1 DEF IInv, SessionOfStage, TypeOK
<1>3. Review # NoStage
  BY DEF Review, NoStage
<1>4. Position(activeSkill) + 1 = 6 /\ Position(activeSkill) \in 1..8
  BY <1>1, <1>2, <1>3, NextStage, StageOrder
<1>5. activeSkill = "definition"
  BY <1>2, <1>4, Later, StageOrder DEF Feature
<1>6. sess[active].story = 0
  BY <1>1, <1>2, <1>5, StageOrder DEF FeatureSessions, Feature
<1>7. QED
  BY <1>1, <1>2, <1>5, <1>6 DEF DefinitionIsDone, Recorded

\* The steps of gate-confirm that read, wait or end without moving the journey.
LEMMA ConfirmationsKeepOrder ==
    ASSUME IInv, Ordered, NEW p \in Requests,
           \/ confirm(p) \/ confirmFails(p) \/ confirmGone(p) \/ confirmThrows(p)
           \/ confirmUnparsed(p)
    PROVE  Ordered'
<1>1. /\ TypeOK /\ KeepsRegistrations /\ req \in [Requests -> Request]
      /\ active # 0 => active \in DOMAIN sess
      /\ DOMAIN sess = 1..Len(sess) /\ Len(sess) \in Nat
  BY Registering, SessionsAreNumbered DEF IInv, TypeOK, Next, Confirmation
<1>2. UNCHANGED <<present, activeSkill, active, completedStages, storyList, storyIndex,
                  row, sess, ghostVars>>
  BY DEF confirm, confirmFails, confirmGone, confirmThrows, confirmUnparsed,
         journeyVars
<1>3. Lasting
  BY <1>2, SameLasts
<1>4. Stays
  BY <1>1, <1>2, <1>3 DEF Stays, ghostVars, formVars
<1>5. SettledIsRecorded => SettledIsRecorded'
  BY <1>1, <1>2, <1>3, SettledStays
<1>6. CASE confirm(p)
  <2> DEFINE new == [pc |-> "save", sid |-> active, skill |-> FirstStage,
                     stale |-> FALSE, own |-> "stored"]
  <2>1. /\ req' = [req EXCEPT ![p] = new]
        /\ new.pc = "save" /\ new.sid = active /\ new.own = "stored"
    BY <1>6 DEF confirm, Begins
  <2> HIDE DEF new
  <2>2. /\ \A q \in Requests : q # p => req'[q] = req[q]
        /\ req'[p].pc = "save" /\ req'[p].sid = active /\ req'[p].own = "stored"
    BY <2>1, BegunRequest
  <2>3. UpToDate(p)'
    BY <1>2, <2>2 DEF UpToDate
  <2>4. QED
    BY <1>2, <1>4, <1>5, <1>6, <2>2, <2>3, StayingStep DEF Base, confirm
<1>7. CASE confirmFails(p) \/ confirmGone(p) \/ confirmThrows(p) \/ confirmUnparsed(p)
  <2>1. Ends(p)
    BY <1>7 DEF confirmFails, confirmGone, confirmThrows, confirmUnparsed
  <2>2. QED
    BY <1>1, <1>4, <1>5, <2>1, OneEnds, StayingStep DEF Base
<1>8. QED
  BY <1>6, <1>7

\* The stage of a session that a gate-confirm finds settled is recorded.
LEMMA StageDoneIsRecorded ==
    ASSUME IInv, Base, NEW q \in Requests, Fresh(q), present,
           req[q].pc \in {"save", "commit"}, StageDone(q)
    PROVE  Recorded(req[q].sid)
<1>1. /\ req[q] \in Request /\ req[q].sid \in DOMAIN sess /\ DOMAIN sess = 1..Len(sess)
      /\ Len(sess) \in Nat
  BY SessionsAreNumbered DEF IInv, TypeOK, ConfirmsASession, Confirming
<1>2. /\ req[q].sid = active
      /\ req[q].own = "settled" => Recorded(req[q].sid)
  BY DEF Base, UpToDate, Confirming
<1>3. req[q].own = "stored" => sess[active].stageDone
  BY <1>2 DEF StageDone
<1>4. req[q].own # "stored" => req[q].own = "settled"
  BY DEF StageDone
<1>5. QED
  BY <1>1, <1>2, <1>3, <1>4 DEF Base, SettledIsRecorded

LEMMA AwaitingRequest ==
    ASSUME IInv, NEW p \in Requests, NEW pc, Awaits(p, pc)
    PROVE  /\ \A q \in Requests : q # p => req'[q] = req[q]
           /\ req'[p].pc = pc /\ req'[p].sid = req[p].sid
           /\ req'[p].stale = req[p].stale /\ req'[p].own = req[p].own
<1> DEFINE new == [req[p] EXCEPT !.pc = pc]
<1>1. req[p] \in Request
  BY DEF IInv, TypeOK
<1>2. /\ new.pc = pc /\ new.sid = req[p].sid
      /\ new.stale = req[p].stale /\ new.own = req[p].own
  BY <1>1 DEF Request
<1>3. req' = [req EXCEPT ![p] = new]
  BY DEF Awaits
<1> HIDE DEF new
<1>4. QED
  BY <1>2, <1>3, BegunRequest

\* A request that has its stage recorded and the document accepted goes on.
LEMMA ValidatedIsUpToDate ==
    ASSUME IInv, Base, NEW p \in Requests, NEW valid \in BOOLEAN,
           req[p].pc \in {"save", "commit"}, Validate(p, valid),
           UNCHANGED active, KeepsRegistrations,
           Fresh(p) /\ present' =>
              NowComplete(sess[req[p].sid].skill, sess[req[p].sid].story)
    PROVE  /\ validated \subseteq validated'
           /\ \A q \in Requests : req'[q] # req[q] => UpToDate(q)'
<1>1. /\ req \in [Requests -> Request] /\ req[p].sid \in DOMAIN sess
      /\ validated \subseteq validated'
  BY DEF IInv, TypeOK, ConfirmsASession, Confirming, Validate
<1>2. CASE Ends(p)
  BY <1>1, <1>2, OneEnds
<1>3. CASE Awaits(p, "state") /\ (sess[req[p].sid].skill = DefinitionOfReady =>
                                     sess[req[p].sid].story \in validated')
  <2>1. /\ \A q \in Requests : q # p => req'[q] = req[q]
        /\ req'[p].pc = "state" /\ req'[p].sid = req[p].sid
        /\ req'[p].stale = req[p].stale
    BY <1>3, AwaitingRequest
  <2>2. SUFFICES ASSUME Fresh(p)'
                 PROVE  /\ req[p].sid = active
                        /\ present' => NowComplete(sess'[req[p].sid].skill,
                                                   sess'[req[p].sid].story)
                        /\ sess'[req[p].sid].skill = DefinitionOfReady
                           => sess'[req[p].sid].story \in validated'
    BY <1>1, <2>1 DEF UpToDate, Recorded, Complete, NowComplete
  <2>3. Fresh(p)
    BY <2>1, <2>2 DEF Fresh, Busy
  <2>4. req[p].sid = active
    BY <2>3 DEF Base, UpToDate
  <2>5. /\ sess'[req[p].sid].skill = sess[req[p].sid].skill
        /\ sess'[req[p].sid].story = sess[req[p].sid].story
    BY <1>1 DEF KeepsRegistrations
  <2>6. QED
    BY <1>3, <2>3, <2>4, <2>5
<1>4. QED
  BY <1>1, <1>2, <1>3 DEF Validate

LEMMA SavedKeepsOrder ==
    ASSUME IInv, Ordered, NEW p \in Requests, NEW valid \in BOOLEAN, confirmSaved(p, valid)
    PROVE  Ordered'
<1>1. /\ TypeOK /\ KeepsRegistrations /\ req[p] \in Request /\ req[p].sid \in DOMAIN sess
      /\ req[p].pc = "save"
  BY Registering
  DEF IInv, TypeOK, ConfirmsASession, Confirming, confirmSaved, Next, Confirmation
<1>2. UNCHANGED <<present, activeSkill, active, completedStages, storyList, storyIndex,
                  row, sess, storiesPage, rewound, outdated, formVars>>
  BY DEF confirmSaved, journeyVars
<1>3. Lasting
  BY <1>2, SameLasts
<1>4. SettledIsRecorded => SettledIsRecorded'
  BY <1>1, <1>2, <1>3, SettledStays
<1>5. validated \subseteq validated'
  BY DEF confirmSaved, Validate
<1>6. Stays
  BY <1>1, <1>2, <1>3, <1>5 DEF Stays, ghostVars, formVars
<1>7. ASSUME Base
      PROVE  \A q \in Requests : req'[q] # req[q] => UpToDate(q)'
  <2>1. CASE StageDone(p)
    <3>1. Fresh(p) /\ present' => NowComplete(sess[req[p].sid].skill, sess[req[p].sid].story)
      BY <1>1, <1>2, <1>3, <1>7, <2>1, StageDoneIsRecorded DEF Recorded, Lasting
    <3>2. QED
      BY <1>1, <1>2, <1>7, <2>1, <3>1, ValidatedIsUpToDate DEF confirmSaved
  <2>2. CASE ~StageDone(p)
    <3>1. /\ \A q \in Requests : q # p => req'[q] = req[q]
          /\ req'[p].pc = "commit" /\ req'[p].sid = req[p].sid
          /\ req'[p].stale = req[p].stale /\ req'[p].own = req[p].own
      BY <2>2, AwaitingRequest DEF confirmSaved
    <3>2. req[p].own # "settled"
      BY <2>2 DEF StageDone
    <3>3. Fresh(p)' => Fresh(p)
      BY <1>1, <3>1 DEF Fresh, Busy
    <3>4. UpToDate(p)'
      BY <1>1, <1>2, <1>7, <3>1, <3>2, <3>3 DEF UpToDate, Base
    <3>5. QED
      BY <3>1, <3>4
  <2>3. QED
    BY <2>1, <2>2
<1>8. QED
  BY <1>2, <1>4, <1>6, <1>7, StayingStep DEF Base, ghostVars

LEMMA CommittedKeepsOrder ==
    ASSUME IInv, Ordered, NEW p \in Requests, NEW valid \in BOOLEAN,
           confirmCommitted(p, valid)
    PROVE  Ordered'
<1>1. /\ TypeOK /\ KeepsRegistrations /\ req[p] \in Request /\ req[p].sid \in DOMAIN sess
      /\ req[p].pc = "commit"
  BY Registering
  DEF IInv, TypeOK, ConfirmsASession, Confirming, confirmCommitted, Next, Confirmation
<1>2. /\ UNCHANGED <<present, activeSkill, active, storyList, storyIndex, storiesPage,
                     rewound, formVars>>
      /\ outdated => outdated'
      /\ Validate(p, valid)
  BY DEF confirmCommitted
<1>3. /\ Lasting
      /\ UNCHANGED row \/ StoredAsIs
      /\ present => NowComplete(sess[req[p].sid].skill, sess[req[p].sid].story)
  <2>1. CASE present
    BY <2>1, CompletingLasts DEF confirmCommitted
  <2>2. CASE ~present
    BY <2>2, SameLasts DEF confirmCommitted
  <2>3. QED
    BY <2>1, <2>2
<1>4. validated \subseteq validated'
  BY <1>2 DEF Validate
<1>5. Stays
  BY <1>1, <1>2, <1>3, <1>4 DEF Stays, ghostVars, formVars
<1>6. \A t \in DOMAIN sess : t # req[p].sid => sess'[t] = sess[t]
  BY <1>1 DEF confirmCommitted
<1>7. active # 0 => active \in DOMAIN sess
  BY <1>1, SessionsAreNumbered
<1>8. SettledIsRecorded => SettledIsRecorded'
  BY <1>1, <1>2, <1>3, <1>6, <1>7, SettledStays
<1>9. ASSUME Base
      PROVE  \A q \in Requests : req'[q] # req[q] => UpToDate(q)'
  BY <1>1, <1>2, <1>3, <1>9, ValidatedIsUpToDate
<1>10. QED
  BY <1>2, <1>5, <1>8, <1>9, StayingStep DEF Base, ghostVars

\* Resuming, until the session or its successor is there.
LEMMA ResumesKeepOrder ==
    ASSUME IInv, Ordered, NEW p \in Requests, resume(p) \/ resumeRestores(p)
    PROVE  Ordered'
<1>1. /\ TypeOK /\ KeepsRegistrations /\ req \in [Requests -> Request]
      /\ active # 0 => active \in DOMAIN sess
  BY Registering, SessionsAreNumbered DEF IInv, TypeOK, Next, Resumption
<1>2. UNCHANGED <<present, activeSkill, active, completedStages, storyList, storyIndex,
                  row, storiesPage, ghostVars>>
  BY DEF resume, resumeRestores, journeyVars
<1>3. Lasting
  BY <1>2, SameLasts
<1>4. Stays
  BY <1>1, <1>2, <1>3 DEF Stays, ghostVars, formVars
<1>5. CASE resume(p)
  <2>1. UNCHANGED sess
    BY <1>5 DEF resume
  <2>2. SettledIsRecorded => SettledIsRecorded'
    BY <1>1, <1>2, <1>3, <2>1, SettledStays
  <2> DEFINE new == [pc |-> "resume", sid |-> active, skill |-> activeSkill,
                     stale |-> FALSE, own |-> "stored"]
  <2>3. /\ req' = [req EXCEPT ![p] = new]
        /\ new.pc = "resume" /\ new.sid = active /\ new.skill = activeSkill
    BY <1>5 DEF resume, Begins
  <2> HIDE DEF new
  <2>4. /\ \A q \in Requests : q # p => req'[q] = req[q]
        /\ req'[p].pc = "resume" /\ req'[p].sid = active /\ req'[p].skill = activeSkill
    BY <2>3, BegunRequest
  <2>5. UpToDate(p)'
    BY <1>2, <2>4 DEF UpToDate, Confirming
  <2>6. QED
    BY <1>2, <1>4, <2>2, <2>4, <2>5, StayingStep DEF Base, ghostVars
<1>6. CASE resumeRestores(p)
  <2>1. /\ req[p].sid \in DOMAIN sess /\ Restore(req[p].sid) /\ EndsReplacing(p)
    BY <1>6 DEF resumeRestores, Kept
  <2>2. \A t \in DOMAIN sess : sess'[t].stageDone => sess[t].stageDone
    BY <1>1, <2>1, RestoredIsOpen
  <2>3. SettledIsRecorded => SettledIsRecorded'
    BY <1>1, <1>2, <1>3, <2>2, SettledStays
  <2>4. ASSUME Base, NEW q \in Requests, req'[q] # req[q]
        PROVE  UpToDate(q)'
    <3>1. CASE req'[q] = Idle
      BY <3>1, EndedIsUpToDate
    <3>2. CASE req'[q] # Idle
      <4> DEFINE own == IF StageDone(q) THEN "settled" ELSE "open"
                 new == [req[q] EXCEPT !.own = own]
      <4>1. req'[q] = new /\ req[q].pc \in {"save", "commit"}
        BY <2>1, <2>4, <3>2 DEF EndsReplacing
      <4>2. /\ new.pc = req[q].pc /\ new.sid = req[q].sid /\ new.stale = req[q].stale
            /\ new.own = own
        BY <1>1 DEF Request
      <4>3. own = "settled" => StageDone(q)
        OBVIOUS
      <4> HIDE DEF new, own
      <4>4. Fresh(q)' => Fresh(q)
        BY <4>1, <4>2 DEF Fresh, Busy
      <4>5. req[q].sid \in DOMAIN sess
        BY <4>1 DEF IInv, ConfirmsASession, Confirming
      <4>6. /\ sess'[req[q].sid].skill = sess[req[q].sid].skill
            /\ sess'[req[q].sid].story = sess[req[q].sid].story
        BY <1>1, <4>5 DEF KeepsRegistrations
      <4>7. ASSUME Fresh(q)', present', own = "settled"
            PROVE  NowComplete(sess'[req[q].sid].skill, sess'[req[q].sid].story)
        <5>1. Recorded(req[q].sid)
          BY <1>2, <2>4, <4>1, <4>3, <4>4, <4>7, StageDoneIsRecorded
        <5>2. QED
          BY <1>3, <4>6, <5>1 DEF Recorded, Lasting
      <4>8. Fresh(q)' => req[q].sid = active
        BY <2>4, <4>1, <4>4 DEF Base, UpToDate
      <4>9. QED
        BY <1>2, <4>1, <4>2, <4>7, <4>8
        DEF UpToDate, Recorded, Complete, NowComplete
    <3>3. QED
      BY <3>1, <3>2
  <2>5. QED
    BY <1>2, <1>4, <2>3, <2>4, StayingStep DEF Base, ghostVars
<1>7. QED
  BY <1>5, <1>6

LEMMA OthersKeepOrder ==
    ASSUME IInv, Ordered,
           (\E e \in completedStages : reopen(e)) \/ delete \/ UNCHANGED vars
    PROVE  Ordered'
<1>1. /\ TypeOK /\ KeepsRegistrations /\ req \in [Requests -> Request]
      /\ active # 0 => active \in DOMAIN sess
  BY Registering, SessionsAreNumbered DEF IInv, TypeOK, Next
<1>2. CASE delete \/ UNCHANGED vars
  <2>1. /\ UNCHANGED <<activeSkill, active, completedStages, storyList, storyIndex, row,
                       sess, req, storiesPage, ghostVars>>
        /\ present' => present
    BY <1>2 DEF delete, vars, ghostVars
  <2>2. Lasting
    BY <2>1, SameLasts
  <2>3. Stays
    BY <1>1, <2>1, <2>2 DEF Stays, ghostVars, formVars
  <2>4. SettledIsRecorded => SettledIsRecorded'
    BY <1>1, <2>1, <2>2, SettledStays
  <2>5. QED
    BY <2>1, <2>3, <2>4, StayingStep DEF Base, ghostVars
<1>3. ASSUME NEW e \in completedStages, reopen(e)
      PROVE  Ordered'
  <2>1. /\ UNCHANGED <<present, activeSkill, active, storyList, storyIndex, req,
                       storiesPage, ghostVars>>
        /\ StoredAsIs
    BY <1>3 DEF reopen
  <2>2. Lasting
    BY <1>1, <1>3, ReopeningLasts
  <2>3. Stays
    BY <1>1, <2>1, <2>2 DEF Stays, ghostVars, formVars
  <2>4. \A t \in DOMAIN sess : sess'[t] = sess[t]
    BY <1>1, <1>3, AppendedRegisters DEF reopen, TypeOK
  <2>5. SettledIsRecorded => SettledIsRecorded'
    BY <1>1, <2>1, <2>2, <2>4, SettledStays
  <2>6. QED
    BY <2>1, <2>3, <2>5, StayingStep DEF Base, ghostVars
<1>4. QED
  BY <1>2, <1>3

-------------------------------------------------------------------------------
(***************************************************************************)
(* Steps that move the journey.                                            *)
(***************************************************************************)

\* Nothing another request has read is relied on after the journey moved.
LEMMA MovedRequests ==
    ASSUME IInv, NEW ends \in SUBSET Requests, Moves(ends)
    PROVE  \A q \in Requests : UpToDate(q)'
<1> TAKE q \in Requests
<1>1. req[q] \in Request
  BY DEF IInv, TypeOK
<1>2. CASE req'[q] = Idle
  BY <1>2, EndedIsUpToDate
<1>3. CASE req'[q] = req[q] /\ ~Busy(q)
  BY <1>3 DEF UpToDate, Fresh, Busy
<1>4. CASE req'[q] = [req[q] EXCEPT !.stale = TRUE]
  BY <1>1, <1>4 DEF UpToDate, Fresh, Request
<1>5. QED
  BY <1>2, <1>3, <1>4 DEF Moves

LEMMA EarlierMoves ==
    ASSUME TypeOK, TypeOK', EarlierComplete, Lasting,
           UNCHANGED passedOver,
           \/ Position(activeSkill') <= Position(activeSkill)
           \/ /\ Position(activeSkill') = Position(activeSkill) + 1
              /\ activeSkill \notin PerStory => Complete(activeSkill, 0)
    PROVE  EarlierComplete'
<1>1. SUFFICES ASSUME NEW stage \in Feature,
                      Position(FirstStage) <= Position(stage),
                      Position(stage) < Position(activeSkill')
               PROVE  stage \in passedOver \/ NowComplete(stage, 0)
  BY DEF EarlierComplete, Complete, NowComplete
<1>2. /\ stage \in Stages /\ activeSkill \in Stages /\ activeSkill' \in Stages
      /\ stage \notin PerStory
  BY DEF Feature, TypeOK
<1>3. /\ Position(stage) \in 1..8 /\ Position(activeSkill) \in 1..8
      /\ Position(activeSkill') \in 1..8
  BY <1>2, StageOrder
<1>4. CASE Position(stage) < Position(activeSkill)
  BY <1>1, <1>4 DEF EarlierComplete, Lasting
<1>5. CASE Position(stage) = Position(activeSkill)
  <2>1. stage = activeSkill
    BY <1>2, <1>5, Later
  <2>2. Position(activeSkill') > Position(activeSkill)
    BY <1>1, <1>5
  <2>3. Complete(activeSkill, 0)
    BY <1>2, <1>3, <2>1, <2>2
  <2>4. QED
    BY <2>1, <2>3 DEF Lasting
<1>6. Position(stage) <= Position(activeSkill)
  BY <1>1, <1>3
<1>7. QED
  BY <1>3, <1>4, <1>5, <1>6

\* The journey is at the stage of a session that has just been registered.
LEMMA Activated ==
    ASSUME IInv, present, NEW skill \in Stages, NEW list \in Nat, NEW index \in Nat,
           Activate(skill, list, index)
    PROVE  /\ activeSkill' = skill /\ storyList' = list /\ storyIndex' = index
           /\ row'.storyList = list /\ row'.storyIndex = index
           /\ active' = Len(sess) + 1
           /\ sess'[active'].stageDone = FALSE
           /\ sess'[active'].story = StoryAt(skill, list, index)
<1>1. /\ sess' = Append(sess, Registered(skill, list, index))
      /\ activeSkill' = skill /\ active' = Len(sess) + 1
      /\ storyList' = list /\ storyIndex' = index
      /\ row' = [storyList |-> list, storyIndex |-> index, complete |-> complete]
  BY DEF Activate, Stored
<1>2. /\ sess'[Len(sess) + 1].story = StoryAt(skill, list, index)
      /\ sess'[Len(sess) + 1].stageDone = FALSE
  BY <1>1, AppendedRegisters DEF IInv
<1>3. QED
  BY <1>1, <1>2

LEMMA BaseActivated ==
    ASSUME IInv, present, NEW skill \in Stages, NEW list \in Nat, NEW index \in Nat,
           Activate(skill, list, index), NEW ends \in SUBSET Requests, Moves(ends),
           EarlierComplete'
    PROVE  Base'
<1>1. SettledIsRecorded'
  BY Activated DEF SettledIsRecorded
<1>2. QED
  BY <1>1, MovedRequests DEF Base

LEMMA CycleActivated ==
    ASSUME IInv, present, NEW skill \in Stages, NEW list \in Nat, NEW index \in Nat,
           Activate(skill, list, index),
           skill = Review => index = 0,
           skill = Review \/ skill \in PerStory => list # 0,
           skill \in PerStory => \A story \in 1..list : story <= index => NowSigned(story),
           skill = DefinitionOfReady =>
              NowComplete(TestPlan, 1) /\ (index < list => NowComplete(TestPlan, index + 1))
    PROVE  Cycle'
<1>1. /\ activeSkill' = skill /\ storyList' = list /\ storyIndex' = index
      /\ row'.storyList = list /\ row'.storyIndex = index
      /\ sess'[active'].story = StoryAt(skill, list, index)
  BY Activated
<1>2. ASSUME skill \in PerStory
      PROVE  NowAt(list, index) /\ NowAt(1, 0)
  <2>1. index < list => sess'[active'].story = index + 1
    BY <1>1, <1>2 DEF StoryAt
  <2>2. NowAt(list, index)
    BY <1>1, <1>2, <2>1 DEF NowAt
  <2>3. sess'[active'].story = 1 \/ NowSigned(1)
    <3>1. CASE index = 0
      BY <1>2, <2>1, <3>1
    <3>2. CASE index # 0
      BY <1>2, <3>2
    <3>3. QED
      BY <3>1, <3>2
  <2>4. \A story \in 1..1 : ~(story <= 0)
    OBVIOUS
  <2>5. QED
    BY <1>1, <2>2, <2>3, <2>4 DEF NowAt
<1>3. QED
  BY <1>1, <1>2, CycleNow

\* What a gate-confirm that is about to move the journey has done.
LEMMA Confirmed ==
    ASSUME IInv, Base, NEW p \in Requests, Fresh(p), req[p].pc = "state"
    PROVE  /\ req[p].sid = active /\ active # 0 /\ active \in DOMAIN sess
           /\ sess[active].skill = activeSkill
           /\ present => Complete(activeSkill, sess[active].story)
           /\ activeSkill = DefinitionOfReady => sess[active].story \in validated
<1>1. /\ req[p].sid = active /\ active # 0 /\ active \in DOMAIN sess
      /\ present => Recorded(active)
  <2>1. req[p].sid = active /\ (present => Recorded(active))
    BY DEF Base, UpToDate, Confirming
  <2>2. req[p].sid \in DOMAIN sess
    BY DEF IInv, ConfirmsASession, Confirming
  <2>3. DOMAIN sess = 1..Len(sess)
    BY SessionsAreNumbered DEF IInv
  <2>4. QED
    BY <2>1, <2>2, <2>3
<1>2. sess[active].skill = activeSkill
  BY <1>1 DEF IInv, SessionOfStage
<1>3. QED
  BY <1>1, <1>2 DEF Base, UpToDate, Recorded

\* In the cycle the stage is complete for the story at each of the places.
LEMMA ConfirmedStory ==
    ASSUME IInv, Base, InCycle, present, NEW p \in Requests, Fresh(p),
           req[p].pc = "state",
           NEW list \in Nat, NEW index \in Nat, CycleAt(list, index), index < list
    PROVE  /\ Complete(activeSkill, index + 1)
           /\ activeSkill = DefinitionOfReady => Signed(index + 1)
<1>1. /\ active # 0
      /\ Complete(activeSkill, sess[active].story)
      /\ activeSkill = DefinitionOfReady => sess[active].story \in validated
  BY Confirmed
<1>2. sess[active].story = index + 1 \/ Signed(index + 1)
  BY <1>1 DEF CycleAt
<1>3. activeSkill = DefinitionOfReady => Complete(TestPlan, index + 1)
  BY DEF CycleAt
<1>4. QED
  BY <1>1, <1>2, <1>3 DEF Signed, InCycle, PerStory

\* The journey was deleted under the request: it stays where it is.
LEMMA GoneStays ==
    ASSUME IInv, Ordered, ~present, NEW p \in Requests, MovedBy(p), KeepsRegistrations,
           UNCHANGED <<present, activeSkill, active, completedStages, storyList,
                       storyIndex, row, validated, rewound, adrift, passedOver>>
    PROVE  Ordered'
<1>1. Lasting
  BY SameLasts
<1>2. Stays
  BY <1>1 DEF Stays, MovedBy
<1>3. \A q \in Requests : UpToDate(q)'
  BY MovedRequests DEF MovedBy
<1>4. SettledIsRecorded'
  BY DEF SettledIsRecorded
<1>5. QED
  BY <1>2, <1>3, <1>4, StayingStep

LEMMA NextKeepsOrder ==
    ASSUME IInv, Ordered, NEW p \in Requests, confirmNext(p)
    PROVE  Ordered'
<1> DEFINE next == getNextStage(sess[req[p].sid].skill)
<1>1. /\ TypeOK /\ TypeOK' /\ KeepsRegistrations
      /\ storyList \in Nat /\ storyIndex \in Nat
      /\ req[p].sid \in DOMAIN sess
  <2>1. IInv' /\ KeepsRegistrations
    BY MovingSteps, Registering DEF Next, Confirmation
  <2>2. req[p].sid \in DOMAIN sess
    BY DEF IInv, ConfirmsASession, Confirming, confirmNext
  <2>3. storyList \in Nat /\ storyIndex \in Nat
    BY DEF IInv, TypeOK
  <2>4. QED
    BY <2>1, <2>2, <2>3 DEF IInv
<1>2. /\ Activate(next, storyList, storyIndex) /\ Moves({p})
      /\ UNCHANGED <<present, completedStages, validated, rewound, adrift, passedOver>>
      /\ outdated' = (outdated \/ req[p].stale)
      /\ next \notin {NoStage, Review} /\ req[p].pc = "state"
  BY DEF confirmNext, MovedBy, formVars
<1>3. CASE ~present
  BY <1>1, <1>2, <1>3, GoneStays DEF Activate, MovedBy
<1>4. CASE present
  <2>1. FeatureSessions'
    BY <1>1, FeaturesStay DEF Ordered
  <2>2. SUFFICES ASSUME ~outdated'
                 PROVE  Base' /\ (rewound \/ Cycle')
    BY <1>2, <2>1 DEF Ordered
  <2>3. Base /\ Fresh(p) /\ (rewound \/ Cycle)
    BY <1>2, <2>2 DEF Ordered, Fresh, Busy
  <2>4. /\ req[p].sid = active /\ active # 0 /\ active \in DOMAIN sess
        /\ sess[active].skill = activeSkill
        /\ Complete(activeSkill, sess[active].story)
    BY <1>2, <1>4, <2>3, Confirmed
  <2>5. /\ next \in Stages /\ activeSkill \in Stages
        /\ Position(next) = Position(activeSkill) + 1
        /\ Position(activeSkill) \in 1..8
    BY <1>1, <1>2, <2>4, NextStage, StageOrder DEF TypeOK
  <2>6. activeSkill \notin PerStory => sess[active].story = 0
    BY <2>4 DEF Ordered, FeatureSessions
  <2> HIDE DEF next
  <2>7. activeSkill' = next
    BY <1>1, <1>2, <1>4, <2>5, Activated
  <2>8. EarlierComplete'
    BY <1>1, <1>2, <2>3, <2>4, <2>5, <2>6, <2>7, SameLasts, EarlierMoves DEF Base
  <2>9. Base'
    BY <1>1, <1>2, <1>4, <2>5, <2>8, BaseActivated
  <2>10. ASSUME Cycle
         PROVE  Cycle'
    <3>0. next \in PerStory => activeSkill = Review \/ InCycle
      <4>1. SUFFICES ASSUME next \in PerStory
                     PROVE  activeSkill = Review \/ InCycle
        OBVIOUS
      <4>2. Position(activeSkill) = 6 \/ Position(activeSkill) > 6
        BY <2>5, <4>1, Later
      <4>3. QED
        BY <2>5, <4>2, Later, StageOrder, StageNames DEF InCycle
    <3>1. ASSUME next \in PerStory, NEW story \in 1..storyList, story <= storyIndex
          PROVE  NowSigned(story)
      <4>1. activeSkill # Review
        BY <1>1, <2>10, <3>1 DEF Cycle
      <4>2. Signed(story)
        BY <2>10, <3>0, <3>1, <4>1 DEF Cycle, CycleAt
      <4>3. QED
        BY <1>2, <4>2 DEF Signed, NowSigned, Complete, NowComplete
    <3>2. ASSUME next = DefinitionOfReady
          PROVE  /\ NowComplete(TestPlan, 1)
                 /\ storyIndex < storyList => NowComplete(TestPlan, storyIndex + 1)
      <4>1. Position(activeSkill) = 7
        BY <2>5, <3>2, StageOrder
      <4>2. activeSkill = TestPlan
        BY <2>5, <4>1, Later, StageOrder, StageNames
      <4>3. InCycle /\ CycleAt(storyList, storyIndex) /\ CycleAt(1, 0)
        BY <2>10, <4>2 DEF Cycle, InCycle, PerStory
      <4>4. Complete(TestPlan, 0 + 1)
        BY <1>2, <1>4, <2>3, <4>2, <4>3, ConfirmedStory
      <4>5. storyIndex < storyList => Complete(TestPlan, storyIndex + 1)
        BY <1>1, <1>2, <1>4, <2>3, <4>2, <4>3, ConfirmedStory
      <4>6. QED
        BY <1>2, <4>4, <4>5 DEF Complete, NowComplete
    <3>3. QED
      BY <1>1, <1>2, <1>4, <2>5, <2>10, <3>0, <3>1, <3>2, CycleActivated DEF Cycle
  <2>11. QED
    BY <2>3, <2>9, <2>10
<1>5. QED
  BY <1>3, <1>4

LEMMA DefinitionKeepsOrder ==
    ASSUME IInv, Ordered, NEW p \in Requests, NEW list \in StoryLists,
           confirmDefinition(p, list)
    PROVE  Ordered'
<1>1. /\ TypeOK /\ TypeOK' /\ KeepsRegistrations /\ Review \in Stages
      /\ list \in Nat /\ list # 0
      /\ Position("definition") + 1 = Position(Review)
  BY MovingSteps, Registering, StageNames, StageOrder DEF IInv, Next, Confirmation
<1>2. /\ Activate(Review, list, 0) /\ Moves({p})
      /\ UNCHANGED <<present, completedStages, validated, passedOver>>
      /\ outdated' = (outdated \/ req[p].stale)
      /\ req[p].pc = "state" /\ getNextStage(sess[req[p].sid].skill) = Review
  BY DEF confirmDefinition, MovedBy
<1>3. FeatureSessions'
  BY <1>1, FeaturesStay DEF Ordered
<1>4. SUFFICES ASSUME ~outdated'
               PROVE  Base' /\ Cycle'
  BY <1>3 DEF Ordered
<1>5. Base /\ Fresh(p) /\ DefinitionIsDone
  BY <1>2, <1>4, AtDefinition DEF Ordered, Base, Fresh, Busy
<1>6. CASE present
  <2>1. activeSkill' = Review
    BY <1>1, <1>2, <1>6, Activated
  <2>2. EarlierComplete'
    BY <1>1, <1>2, <1>5, <1>6, <2>1, SameLasts, EarlierMoves DEF Base, DefinitionIsDone
  <2>3. Base'
    BY <1>1, <1>2, <1>6, <2>2, BaseActivated
  <2>4. Review \notin PerStory /\ Review # DefinitionOfReady
    BY StageOrder DEF Feature, PerStory
  <2>5. Cycle'
    BY <1>1, <1>2, <1>6, <2>4, CycleActivated
  <2>6. QED
    BY <2>3, <2>5
<1>7. CASE ~present
  <2>1. UNCHANGED activeSkill
    BY <1>2, <1>7 DEF Activate
  <2>2. EarlierComplete'
    BY <1>2, <1>5, <2>1 DEF Base, EarlierComplete, Complete
  <2>3. Base'
    BY <1>2, <1>7, <2>2, MovedRequests DEF Base, SettledIsRecorded
  <2>4. activeSkill' \notin PerStory /\ activeSkill' # Review /\ activeSkill' # DefinitionOfReady
    BY <1>5, <2>1
    DEF DefinitionIsDone, PerStory, Review, TestPlan, DefinitionOfReady
  <2>5. Cycle'
    BY <2>4 DEF Cycle, InCycle
  <2>6. QED
    BY <2>3, <2>5
<1>8. QED
  BY <1>6, <1>7

LEMMA SignedOffKeepsOrder ==
    ASSUME IInv, Ordered, NEW p \in Requests, confirmSignedOff(p)
    PROVE  Ordered'
<1>1. /\ TypeOK /\ TypeOK' /\ KeepsRegistrations /\ Lasting
      /\ storyList \in Nat /\ storyIndex \in Nat
      /\ row.storyList \in Nat /\ row.storyIndex \in Nat
      /\ TestPlan \in Stages
  <2>1. IInv' /\ KeepsRegistrations
    BY MovingSteps, Registering DEF Next, Confirmation
  <2>2. TestPlan \in Stages /\ Lasting
    BY StageNames, SameLasts DEF confirmSignedOff
  <2>3. /\ storyList \in Nat /\ storyIndex \in Nat
        /\ row.storyList \in Nat /\ row.storyIndex \in Nat
    BY StoredNumbers DEF IInv
  <2>4. QED
    BY <2>1, <2>2, <2>3 DEF IInv
<1>2. /\ MovedBy(p) /\ Moves({p})
      /\ UNCHANGED <<present, completedStages, validated, rewound, adrift, passedOver>>
      /\ outdated' = (outdated \/ req[p].stale)
      /\ req[p].pc = "state" /\ sess[req[p].sid].skill = DefinitionOfReady
  BY DEF confirmSignedOff, MovedBy, formVars
<1>3. CASE ~present
  BY <1>1, <1>2, <1>3, GoneStays DEF confirmSignedOff
<1>4. CASE present
  <2>1. FeatureSessions'
    BY <1>1, FeaturesStay DEF Ordered
  <2>2. SUFFICES ASSUME ~outdated'
                 PROVE  Base' /\ (rewound \/ Cycle')
    BY <1>2, <2>1 DEF Ordered
  <2>3. Base /\ Fresh(p) /\ (rewound \/ Cycle)
    BY <1>2, <2>2 DEF Ordered, Fresh, Busy
  <2>4. activeSkill = DefinitionOfReady /\ InCycle
    BY <1>2, <2>3, Confirmed DEF InCycle, PerStory
  <2>5. ASSUME Cycle, NEW story \in 1..storyList, story <= storyIndex + 1
        PROVE  NowSigned(story)
    <3>1. CASE story <= storyIndex
      BY <1>2, <2>4, <2>5, <3>1
      DEF Cycle, CycleAt, Signed, NowSigned, Complete, NowComplete
    <3>2. CASE story = storyIndex + 1
      <4>1. storyIndex < storyList
        BY <1>1, <3>2
      <4>2. Signed(storyIndex + 1)
        BY <1>1, <1>2, <1>4, <2>3, <2>4, <2>5, <4>1, ConfirmedStory DEF Cycle
      <4>3. QED
        BY <1>2, <3>2, <4>2 DEF Signed, NowSigned, Complete, NowComplete
    <3>3. QED
      BY <1>1, <2>5, <3>1, <3>2
  <2>6. CASE storyIndex + 1 < storyList
    <3>1. Activate(TestPlan, storyList, storyIndex + 1) /\ storyIndex + 1 \in Nat
      BY <1>1, <1>4, <2>6 DEF confirmSignedOff
    <3>2. activeSkill' = TestPlan
      BY <1>1, <1>4, <3>1, Activated
    <3>3. EarlierComplete'
      BY <1>1, <1>2, <2>3, <2>4, <3>2, StageOrder, EarlierMoves DEF Base
    <3>4. Base'
      BY <1>1, <1>2, <1>4, <3>1, <3>3, BaseActivated
    <3>5. TestPlan # Review /\ TestPlan # DefinitionOfReady
      BY DEF TestPlan, Review, DefinitionOfReady
    <3>6. ASSUME Cycle
          PROVE  Cycle'
      <4>1. \A story \in 1..storyList : story <= storyIndex + 1 => NowSigned(story)
        BY <2>5, <3>6
      <4>2. storyList # 0
        BY <1>1, <2>6
      <4>3. QED
        BY <1>1, <1>4, <3>1, <3>5, <4>1, <4>2, CycleActivated
    <3>7. QED
      BY <2>3, <3>4, <3>6
  <2>7. CASE ~(storyIndex + 1 < storyList)
    <3>1. /\ storyIndex' = storyIndex + 1
          /\ UNCHANGED <<activeSkill, active, storyList, row, sess>>
      BY <1>4, <2>7 DEF confirmSignedOff
    <3>2. EarlierComplete'
      BY <1>2, <2>3, <3>1 DEF Base, EarlierComplete, Complete
    <3>3. SettledIsRecorded'
      BY <1>2, <2>3, <3>1 DEF Base, SettledIsRecorded, Recorded, Complete
    <3>4. Base'
      BY <1>2, <3>2, <3>3, MovedRequests DEF Base
    <3>5. ASSUME Cycle
          PROVE  Cycle'
      <4>1. NowAt(row.storyList, row.storyIndex) /\ NowAt(1, 0)
        BY <1>1, <1>2, <2>4, <3>1, <3>5, PlaceStays DEF Cycle
      <4>2. NowAt(storyList, storyIndex + 1)
        BY <1>1, <2>5, <2>7, <3>5 DEF NowAt
      <4>3. activeSkill # Review
        BY <2>4 DEF DefinitionOfReady, Review
      <4>4. QED
        BY <2>4, <3>1, <3>5, <4>1, <4>2, <4>3, CycleNow DEF Cycle
    <3>6. QED
      BY <2>3, <3>4, <3>5
  <2>8. QED
    BY <2>6, <2>7
<1>5. QED
  BY <1>3, <1>4

\* Only the definition comes before the review.
LEMMA BeforeReview ==
    ASSUME NEW stage \in Stages, getNextStage(stage) = Review
    PROVE  stage = "definition"
<1>1. Position(stage) \in 1..8 /\ Position(stage) + 1 = 6
  BY NextStage, StageOrder DEF Review, NoStage
<1>2. QED
  BY <1>1, Later, StageOrder DEF Feature

LEMMA StoriesKeepOrder ==
    ASSUME IInv, Ordered, NEW p \in Requests,
           storiesRead(p) \/ \E list \in StoryLists : postStories(p, list)
    PROVE  Ordered'
<1>1. /\ TypeOK /\ TypeOK' /\ KeepsRegistrations
      /\ storyList \in Nat /\ storyIndex \in Nat
      /\ row.storyList \in Nat /\ row.storyIndex \in Nat
  <2>1. IInv' /\ KeepsRegistrations
    BY MovingSteps, RequestSteps, Registering DEF Next, StoryList
  <2>2. QED
    BY <2>1, StoredNumbers DEF IInv
<1>2. FeatureSessions'
  BY <1>1, FeaturesStay DEF Ordered
<1>3. ASSUME NEW list \in StoryLists, postStories(p, list)
      PROVE  Ordered'
  <2>1. /\ UNCHANGED <<present, activeSkill, active, completedStages, row, sess,
                       storiesPage, validated, rewound, outdated, passedOver>>
        /\ storyList' = list /\ storyIndex' = 0 /\ list \in Nat /\ list # 0
        /\ adrift' = (adrift \/ getNextStage(activeSkill) # Review
                              \/ ~Complete(activeSkill, 0))
    BY <1>3 DEF postStories
  <2>2. Lasting
    BY <2>1, SameLasts
  <2>3. adrift' \/ DefinitionIsDone
    BY <1>1, <2>1, BeforeReview DEF TypeOK, DefinitionIsDone
  <2>4. DefinitionIsDone => DefinitionIsDone'
    BY <2>1 DEF DefinitionIsDone, Complete
  <2> DEFINE new == [pc |-> "stories", sid |-> 0, skill |-> FirstStage,
                     stale |-> FALSE, own |-> "stored"]
  <2>5. req' = [req EXCEPT ![p] = new] /\ new.pc = "stories"
    BY <1>3 DEF postStories, Begins
  <2> HIDE DEF new
  <2>6. req'[p].pc = "stories" /\ \A q \in Requests : q # p => req'[q] = req[q]
    BY <2>5, BegunRequest
  <2>7. ASSUME Base
        PROVE  Base'
    <3>1. EarlierComplete' /\ SettledIsRecorded'
      BY <2>1, <2>7 DEF Base, EarlierComplete, SettledIsRecorded, Recorded, Complete
    <3>2. ASSUME NEW q \in Requests
          PROVE  UpToDate(q)'
      <4>1. CASE q = p
        BY <2>1, <2>3, <2>4, <2>6, <4>1 DEF UpToDate, Confirming
      <4>2. CASE q # p
        <5>1. req'[q] = req[q] /\ UpToDate(q)
          BY <2>6, <2>7, <4>2 DEF Base
        <5>2. Fresh(q)' => Fresh(q)
          BY <5>1 DEF Fresh, Busy
        <5>3. Complete(sess[req[q].sid].skill, sess[req[q].sid].story)
                => NowComplete(sess[req[q].sid].skill, sess[req[q].sid].story)
          BY <2>2 DEF Lasting
        <5>4. QED
          BY <2>1, <2>4, <5>1, <5>2, <5>3
          DEF UpToDate, Recorded, Complete, NowComplete
      <4>3. QED
        BY <4>1, <4>2
    <3>3. QED
      BY <3>1, <3>2 DEF Base
  <2>8. ASSUME Cycle
        PROVE  Cycle'
    <3>1. ASSUME InCycle
          PROVE  NowAt(list, 0) /\ NowAt(row.storyList, row.storyIndex) /\ NowAt(1, 0)
      <4>1. NowAt(row.storyList, row.storyIndex) /\ NowAt(1, 0)
        BY <1>1, <2>1, <2>2, <2>8, <3>1, PlaceStays DEF Cycle
      <4>2. \A story \in 1..list : ~(story <= 0)
        BY <2>1
      <4>3. QED
        BY <2>1, <4>1, <4>2 DEF NowAt
    <3>2. QED
      BY <2>1, <2>8, <3>1, CycleNow DEF Cycle, InCycle
  <2>9. QED
    BY <1>2, <2>1, <2>7, <2>8 DEF Ordered
<1>4. CASE storiesRead(p)
  <2>1. /\ Activate(Review, storyList, storyIndex) /\ Moves({p}) /\ MovedBy(p)
        /\ UNCHANGED <<present, completedStages, validated>>
        /\ outdated' = (outdated \/ req[p].stale) /\ req[p].pc = "stories"
        /\ present => passedOver' = passedOver \cup Unfinished
        /\ ~present => UNCHANGED <<rewound, adrift, passedOver>>
    BY <1>1, <1>4 DEF storiesRead, MovedBy, StoriesBegin, TypeOK
  <2>2. CASE ~present
    BY <1>1, <2>1, <2>2, GoneStays DEF Activate
  <2>3. CASE present
    <3>1. SUFFICES ASSUME ~outdated'
                   PROVE  Base' /\ Cycle'
      BY <1>2 DEF Ordered
    <3>2. Base /\ Fresh(p) /\ storyIndex = 0 /\ storyList # 0
      BY <2>1, <3>1 DEF Ordered, Base, UpToDate, Fresh, Busy
    <3>3. Review \in Stages /\ Review \notin PerStory /\ Review # DefinitionOfReady
      BY StageNames, StageOrder DEF Feature, Review, DefinitionOfReady
    <3>4. activeSkill' = Review
      BY <1>1, <2>1, <2>3, <3>3, Activated
    <3>5. EarlierComplete'
      <4>1. SUFFICES ASSUME NEW stage \in Feature,
                            Position(FirstStage) <= Position(stage),
                            Position(stage) < Position(Review)
                     PROVE  stage \in passedOver' \/ Complete(stage, 0)
        BY <2>1, <3>4 DEF EarlierComplete, Complete
      <4>2. stage \in Stages /\ isStrictlyLaterStage(stage, Review)
        BY <3>3, <4>1, Later DEF Feature
      <4>3. QED
        BY <2>1, <2>3, <4>1, <4>2 DEF Unfinished
    <3>6. Base'
      BY <1>1, <2>1, <2>3, <3>3, <3>5, BaseActivated
    <3>7. Cycle'
      BY <1>1, <2>1, <2>3, <3>2, <3>3, CycleActivated
    <3>8. QED
      BY <3>6, <3>7
  <2>4. QED
    BY <2>2, <2>3
<1>5. QED
  BY <1>3, <1>4

LEMMA CreatingKeepsOrder ==
    ASSUME IInv, Ordered, NEW p \in Requests, resumeCreates(p)
    PROVE  Ordered'
<1>1. /\ TypeOK /\ TypeOK' /\ KeepsRegistrations
      /\ storyList \in Nat /\ storyIndex \in Nat /\ activeSkill \in Stages
  <2>1. IInv' /\ KeepsRegistrations
    BY MovingSteps, Registering DEF Next, Resumption
  <2>2. storyList \in Nat /\ storyIndex \in Nat /\ activeSkill \in Stages
    BY DEF IInv, TypeOK
  <2>3. QED
    BY <2>1, <2>2 DEF IInv
<1>2. /\ Activate(req[p].skill, storyList, storyIndex) /\ Moves({p}) /\ MovedBy(p)
      /\ UNCHANGED <<present, completedStages, validated, rewound, adrift, passedOver>>
      /\ outdated' = (outdated \/ req[p].stale) /\ req[p].pc = "resume"
  BY DEF resumeCreates, MovedBy, formVars
<1>3. CASE ~present
  BY <1>1, <1>2, <1>3, GoneStays DEF Activate
<1>4. CASE present
  <2>1. FeatureSessions' /\ Lasting
    BY <1>1, <1>2, FeaturesStay, SameLasts DEF Ordered
  <2>2. SUFFICES ASSUME ~outdated'
                 PROVE  Base' /\ (rewound \/ Cycle')
    BY <1>2, <2>1 DEF Ordered
  <2>3. /\ Base /\ (rewound \/ Cycle) /\ Fresh(p)
        /\ Activate(activeSkill, storyList, storyIndex)
    BY <1>2, <2>2 DEF Ordered, Base, UpToDate, Fresh, Busy
  <2>4. activeSkill' = activeSkill
    BY <1>1, <1>4, <2>3, Activated
  <2>5. Position(activeSkill) \in 1..8
    BY <1>1, StageOrder
  <2>6. EarlierComplete'
    BY <1>1, <1>2, <2>1, <2>3, <2>4, <2>5, EarlierMoves DEF Base
  <2>7. Base'
    BY <1>1, <1>2, <1>4, <2>3, <2>6, BaseActivated
  <2>8. ASSUME Cycle
        PROVE  Cycle'
    <3>1. ASSUME activeSkill \in PerStory
          PROVE  /\ \A story \in 1..storyList : story <= storyIndex => NowSigned(story)
                 /\ activeSkill = DefinitionOfReady =>
                       /\ NowComplete(TestPlan, 1)
                       /\ storyIndex < storyList => NowComplete(TestPlan, storyIndex + 1)
      <4>1. CycleAt(storyList, storyIndex) /\ CycleAt(1, 0)
        BY <2>8, <3>1 DEF Cycle, InCycle
      <4>2. activeSkill = DefinitionOfReady => Complete(TestPlan, 0 + 1)
        BY <4>1 DEF CycleAt
      <4>3. QED
        BY <1>2, <2>1, <4>1, <4>2 DEF CycleAt, Signed, NowSigned, Lasting
    <3>2. QED
      BY <1>1, <1>4, <2>3, <2>8, <3>1, CycleActivated
      DEF Cycle, InCycle, PerStory
  <2>9. QED
    BY <2>3, <2>7, <2>8
<1>5. QED
  BY <1>3, <1>4

LEMMA RegressingKeepsOrder ==
    ASSUME IInv, Ordered, NEW target \in Stages, regress(target)
    PROVE  Ordered'
<1>1. /\ KeepsRegistrations /\ activeSkill \in Stages
      /\ storyList \in Nat /\ storyIndex \in Nat
  <2>1. KeepsRegistrations
    BY Registering DEF Next
  <2>2. QED
    BY <2>1 DEF IInv, TypeOK
<1>2. /\ Position(target) \in 1..8 /\ Position(activeSkill) \in 1..8
      /\ Position(target) < Position(activeSkill)
  BY <1>1, StageOrder, Later DEF regress
<1>3. /\ activeSkill' = target /\ active' = 0 /\ Moves({})
      /\ UNCHANGED <<present, storyList, storyIndex, sess, outdated>>
      /\ passedOver' = passedOver \ ({target} \cup getDownstreamStages(target))
      /\ rewound' = (rewound \/ (storyIndex > 0 /\ target \in {Review, TestPlan}))
      /\ row'.storyList = storyList /\ row'.storyIndex = storyIndex
  BY DEF regress, StoredAsIs, Stored
<1>4. FeatureSessions'
  BY <1>1, FeaturesStay DEF Ordered
<1>5. ASSUME Base
      PROVE  Base'
  <2>1. ASSUME NEW stage \in Feature, Position(FirstStage) <= Position(stage),
               Position(stage) < Position(target)
        PROVE  stage \in passedOver' \/ NowComplete(stage, 0)
    <3>1. stage \in Stages /\ Position(stage) \in 1..8
      BY StageOrder DEF Feature
    <3>2. stage \in passedOver \/ Complete(stage, 0)
      BY <1>2, <1>5, <2>1, <3>1 DEF Base, EarlierComplete
    <3>3. stage \notin {target} \cup getDownstreamStages(target)
      BY <2>1, <3>1, <1>2, Later DEF isStrictlyLaterStage
    <3>4. \A e \in completedStages : e.skill = stage => e \in completedStages'
      BY <3>3 DEF regress
    <3>5. QED
      BY <1>3, <3>2, <3>3, <3>4 DEF Complete, NowComplete
  <2>2. EarlierComplete'
    BY <1>3, <2>1 DEF EarlierComplete, Complete, NowComplete
  <2>3. SettledIsRecorded'
    BY <1>3 DEF SettledIsRecorded
  <2>4. QED
    BY <1>3, <2>2, <2>3, MovedRequests DEF Base
<1>6. ASSUME Cycle, ~rewound'
      PROVE  Cycle'
  <2>1. target \in {Review, TestPlan} => storyIndex = 0
    <3>1. ~(storyIndex > 0 /\ target \in {Review, TestPlan})
      BY <1>3, <1>6, Zenon
    <3>2. QED
      BY <1>1, <3>1
  <2>2. target # DefinitionOfReady
    BY <1>2, StageOrder
  <2>3. ASSUME target \in {Review, TestPlan}
        PROVE  InCycle
    BY <1>1, <1>2, <2>3, StageOrder, Later DEF InCycle
  <2>4. InCycle' => target = TestPlan
    BY <1>3, <2>2 DEF InCycle, PerStory
  <2>5. \A list \in Nat : NowAt(list, 0)
    <3>1. \A list \in Nat : \A story \in 1..list : ~(story <= 0)
      OBVIOUS
    <3>2. QED
      BY <1>3, <2>2, <3>1 DEF NowAt
  <2>6. QED
    BY <1>1, <1>3, <1>6, <2>1, <2>3, <2>4, <2>5, CycleNow DEF Cycle, InCycle
<1>7. QED
  BY <1>3, <1>4, <1>5, <1>6 DEF Ordered

LEMMA RestartingKeepsOrder ==
    ASSUME IInv, Ordered, NEW wiped \in BOOLEAN, restart(wiped)
    PROVE  Ordered'
<1>1. /\ TypeOK /\ KeepsRegistrations
      /\ storyList \in Nat /\ storyIndex \in Nat
      /\ row.storyList \in Nat /\ row.storyIndex \in Nat
      /\ active # 0 => active \in DOMAIN sess
  <2>1. KeepsRegistrations
    BY Registering DEF Next
  <2>2. active # 0 => active \in DOMAIN sess
    BY SessionsAreNumbered DEF IInv
  <2>3. QED
    BY <2>1, <2>2, StoredNumbers DEF IInv
<1>2. /\ UNCHANGED <<present, activeSkill, active, completedStages, row, storiesPage,
                     validated, rewound, outdated, adrift, passedOver>>
      /\ storyList' = row.storyList /\ storyIndex' = row.storyIndex
      /\ req' = [q \in Requests |-> Idle]
  BY DEF restart, ghostVars
<1>3. Lasting
  BY <1>2, SameLasts
<1>4. FeatureSessions'
  BY <1>1, FeaturesStay DEF Ordered
<1>5. ASSUME Base
      PROVE  Base'
  <2>1. EarlierComplete'
    BY <1>2, <1>5 DEF Base, EarlierComplete, Complete
  <2>2. \A s \in DOMAIN sess : sess'[s].stageDone = sess[s].stageDone
    <3>1. PICK copied : sess' = [s \in DOMAIN sess |->
                                   [sess[s] EXCEPT !.live = @ /\ ~wiped,
                                                   !.kept = @ \/ s \in copied]]
      BY DEF restart
    <3>2. QED
      BY <1>1, <3>1, IsSession DEF Session
  <2>3. SettledIsRecorded'
    BY <1>1, <1>2, <1>3, <1>5, <2>2, SettledStays DEF Base
  <2>4. \A q \in Requests : UpToDate(q)'
    BY <1>2, EndedIsUpToDate
  <2>5. QED
    BY <2>1, <2>3, <2>4 DEF Base
<1>6. ASSUME Cycle
      PROVE  Cycle'
  <2>1. InCycle => NowAt(row.storyList, row.storyIndex) /\ NowAt(1, 0)
    BY <1>1, <1>2, <1>3, <1>6, PlaceStays DEF Cycle
  <2>2. QED
    BY <1>2, <1>6, <2>1, CycleNow DEF Cycle, InCycle
<1>7. QED
  BY <1>2, <1>4, <1>5, <1>6 DEF Ordered

LEMMA OrderedNext == IInv /\ Ordered /\ [Next]_vars => Ordered'
<1> SUFFICES ASSUME IInv, Ordered, [Next]_vars PROVE Ordered'
  OBVIOUS
<1>1. ASSUME NEW p \in Requests, Confirmation(p)
      PROVE  Ordered'
  BY <1>1, ConfirmationsKeepOrder, SavedKeepsOrder, CommittedKeepsOrder,
     NextKeepsOrder, DefinitionKeepsOrder, SignedOffKeepsOrder
  DEF Confirmation
<1>2. ASSUME NEW p \in Requests, StoryList(p) \/ Resumption(p)
      PROVE  Ordered'
  BY <1>2, StoriesKeepOrder, ResumesKeepOrder, CreatingKeepsOrder
  DEF StoryList, Resumption
<1>3. QED
  BY <1>1, <1>2, TurnsKeepOrder, OthersKeepOrder, RegressingKeepsOrder,
     RestartingKeepsOrder
  DEF Next

(***************************************************************************)
(* The journey stands at a stage only if every earlier one is complete,    *)
(* each stage of a story for that story, for any story lists and any       *)
(* number of requests, failures, reopened stages, deletions and restarts   *)
(* (handlePostGateConfirm, setActiveSession, regressToStage).  Exempt are  *)
(* the stages that were open when a stories form began the review          *)
(* (handlePostStories has no stage guard), and all that comes after a      *)
(* request moved the journey from where it no longer was, or, until the    *)
(* next list, after a regression dropped signed-off stories.               *)
(***************************************************************************)
THEOREM StagesInOrder == Spec => []NoStageSkipped
<1>1. IInv /\ Ordered => NoStageSkipped
  BY OrderedSuffices DEF IInv
<1>2. QED
  BY <1>1, IInvInit, IInvNext, OrderedInit, OrderedNext, PTL DEF Spec

(***************************************************************************)
(* A story is left behind only once its definition of ready was accepted   *)
(* by the validator and is complete, although advanceToNextStory does not  *)
(* write the row, a restart goes back to what the row has, and a stories   *)
(* form may set the index back at any time; unless a request moved the     *)
(* journey from where it no longer was, or a regression dropped signed-off *)
(* stories since the last list.                                            *)
(***************************************************************************)
THEOREM StoriesSignedOff == Spec => []LeftBehindSignedOff
<1>1. IInv /\ Ordered => LeftBehindSignedOff
  BY OrderedSuffices DEF IInv
<1>2. QED
  BY <1>1, IInvInit, IInvNext, OrderedInit, OrderedNext, PTL DEF Spec

-------------------------------------------------------------------------------
(***************************************************************************)
(* The refinement.  Unless a stories form was sent from elsewhere and its  *)
(* review has not begun, the row lags behind the story index only once     *)
(* every story is left behind, and a restart leads back to the story the   *)
(* active session is about, whatever a regression has dropped (Placed).    *)
(***************************************************************************)
ListIsStored == activeSkill = Review \/ InCycle => row.storyList = storyList
IndexIsStored == InCycle => row.storyIndex = storyIndex \/ storyIndex >= storyList

SessionOfStory ==
    InCycle /\ active # 0 /\ row.storyIndex < storyList
       => sess[active].story = row.storyIndex + 1

Placed == outdated \/ adrift \/ (ListIsStored /\ IndexIsStored /\ SessionOfStory)

LEMMA PlacedInit == Init => Placed
BY DEF Init, Placed, ListIsStored, IndexIsStored, SessionOfStory

LEMMA PlacedStays ==
    ASSUME TypeOK, Placed, KeepsRegistrations,
           UNCHANGED <<activeSkill, active, storyList, storyIndex>>,
           UNCHANGED row \/ StoredAsIs, outdated => outdated', adrift => adrift'
    PROVE  Placed'
<1> SUFFICES ASSUME ~outdated', ~adrift'
             PROVE  ListIsStored' /\ IndexIsStored' /\ SessionOfStory'
  BY DEF Placed
<1>1. /\ active # 0 => active \in DOMAIN sess
      /\ storyList \in Nat /\ storyIndex \in Nat /\ row.storyIndex \in Nat
  <2>1. active # 0 => active \in DOMAIN sess
    BY SessionsAreNumbered
  <2>2. QED
    BY <2>1 DEF TypeOK
<1>2. /\ row'.storyList = row.storyList \/ row'.storyList = storyList
      /\ row'.storyIndex = row.storyIndex \/ row'.storyIndex = storyIndex
  BY DEF StoredAsIs, Stored
<1>3. ListIsStored /\ IndexIsStored /\ SessionOfStory
  BY DEF Placed
<1>4. ListIsStored' /\ IndexIsStored'
  BY <1>2, <1>3 DEF ListIsStored, IndexIsStored, InCycle
<1>5. SessionOfStory'
  <2>1. SUFFICES ASSUME InCycle, active # 0, row'.storyIndex < storyList
                 PROVE  sess[active].story = row'.storyIndex + 1
    BY <1>1 DEF SessionOfStory, InCycle, KeepsRegistrations
  <2>2. row'.storyIndex = row.storyIndex
    BY <1>1, <1>2, <1>3, <2>1 DEF IndexIsStored
  <2>3. QED
    BY <1>3, <2>1, <2>2 DEF SessionOfStory
<1>6. QED
  BY <1>4, <1>5

LEMMA PlacedActivated ==
    ASSUME IInv, present, NEW skill \in Stages, NEW list \in Nat, NEW index \in Nat,
           Activate(skill, list, index)
    PROVE  Placed'
<1>1. /\ activeSkill' = skill /\ storyList' = list /\ storyIndex' = index
      /\ row'.storyList = list /\ row'.storyIndex = index
      /\ sess'[active'].story = StoryAt(skill, list, index)
  BY Activated
<1>2. ListIsStored' /\ IndexIsStored'
  BY <1>1 DEF ListIsStored, IndexIsStored
<1>3. SessionOfStory'
  BY <1>1 DEF SessionOfStory, InCycle, StoryAt
<1>4. QED
  BY <1>2, <1>3 DEF Placed

\* The steps that leave the journey where it is, whoever takes them.
Staying ==
    \/ \E s \in DOMAIN sess : Turn(s)
    \/ \E p \in Requests :
          \/ confirm(p) \/ confirmFails(p) \/ confirmGone(p) \/ confirmThrows(p)
          \/ \E valid \in BOOLEAN : confirmSaved(p, valid) \/ confirmCommitted(p, valid)
          \/ confirmUnparsed(p) \/ resume(p) \/ resumeRestores(p)
    \/ \E e \in completedStages : reopen(e)
    \/ delete
    \/ UNCHANGED vars

LEMMA StayingSteps ==
    ASSUME IInv, Staying
    PROVE  /\ Stays
           /\ UNCHANGED complete
           /\ ~present' => UNCHANGED <<completedStages, row>>
<1> TypeOK /\ KeepsRegistrations
  BY Registering DEF IInv, Staying, Next, Confirmation, Resumption
<1>1. ASSUME NEW s \in DOMAIN sess, Turn(s)
      PROVE  /\ Lasting
             /\ UNCHANGED <<present, activeSkill, active, storyList, storyIndex,
                            complete, ghostVars>>
             /\ UNCHANGED row \/ StoredAsIs
             /\ ~present' => UNCHANGED <<completedStages, row>>
  <2>1. CASE finish(s)
    <3>1. Lasting /\ (UNCHANGED row \/ StoredAsIs)
      BY <2>1, SameLasts, CompletingLasts DEF finish
    <3>2. QED
      BY <2>1, <3>1 DEF finish
  <2>2. CASE finishUncommitted(s) \/ reload(s)
    <3>1. finishUncommitted(s) => UNCHANGED <<journeyVars, ghostVars>>
      BY Zenon DEF finishUncommitted
    <3>2. UNCHANGED <<present, activeSkill, active, completedStages, storyList,
                      storyIndex, complete, row, ghostVars>>
      BY <2>2, <3>1 DEF journeyVars, reload
    <3>3. QED
      BY <3>2, SameLasts
  <2>3. QED
    BY <1>1, <2>1, <2>2 DEF Turn
<1>2. ASSUME NEW p \in Requests,
             \/ confirm(p) \/ confirmFails(p) \/ confirmGone(p) \/ confirmThrows(p)
             \/ confirmUnparsed(p) \/ resume(p) \/ resumeRestores(p)
      PROVE  /\ UNCHANGED <<journeyVars, ghostVars>>
             /\ Lasting
  <2>1. UNCHANGED <<journeyVars, ghostVars>>
    BY <1>2 DEF confirm, confirmFails, confirmGone, confirmThrows, confirmUnparsed,
                resume, resumeRestores
  <2>2. QED
    BY <2>1, SameLasts DEF journeyVars
<1>3. ASSUME NEW p \in Requests, NEW valid \in BOOLEAN,
             confirmSaved(p, valid) \/ confirmCommitted(p, valid)
      PROVE  /\ Lasting
             /\ UNCHANGED <<present, activeSkill, active, storyList, storyIndex,
                            complete, rewound, adrift, passedOver>>
             /\ UNCHANGED row \/ StoredAsIs
             /\ ~present' => UNCHANGED <<completedStages, row>>
             /\ validated \subseteq validated'
             /\ outdated => outdated'
  <2>1. CASE confirmSaved(p, valid)
    <3>1. UNCHANGED <<journeyVars, rewound, outdated, adrift, passedOver>>
      BY <2>1 DEF confirmSaved, formVars
    <3>2. validated \subseteq validated'
      BY <2>1 DEF confirmSaved, Validate
    <3>3. QED
      BY <3>1, <3>2, SameLasts DEF journeyVars
  <2>2. CASE confirmCommitted(p, valid)
    <3>1. Lasting /\ (UNCHANGED row \/ StoredAsIs)
      BY <2>2, SameLasts, CompletingLasts DEF confirmCommitted
    <3>2. validated \subseteq validated'
      BY <2>2 DEF confirmCommitted, Validate
    <3>3. QED
      BY <2>2, <3>1, <3>2 DEF confirmCommitted, formVars
  <2>3. QED
    BY <1>3, <2>1, <2>2
<1>4. ASSUME NEW e \in completedStages, reopen(e)
      PROVE  /\ Lasting
             /\ UNCHANGED <<present, activeSkill, active, storyList, storyIndex,
                            complete, ghostVars>>
             /\ StoredAsIs
             /\ present'
  <2>1. Lasting
    BY <1>4, ReopeningLasts
  <2>2. QED
    BY <1>4, <2>1 DEF reopen
<1>5. ASSUME delete \/ UNCHANGED vars
      PROVE  /\ Lasting
             /\ UNCHANGED <<activeSkill, active, completedStages, storyList, storyIndex,
                            complete, row, ghostVars>>
             /\ present' => present
  <2>1. /\ UNCHANGED <<activeSkill, active, completedStages, storyList, storyIndex,
                       complete, row, ghostVars>>
        /\ present' => present
    BY <1>5 DEF delete, vars, ghostVars
  <2>2. QED
    BY <2>1, SameLasts
<1>6. QED
  BY <1>1, <1>2, <1>3, <1>4, <1>5 DEF Staying, Stays, journeyVars, ghostVars

LEMMA PlacedNext == IInv /\ Ordered /\ Placed /\ [Next]_vars => Placed'
<1> SUFFICES ASSUME IInv, Ordered, Placed, [Next]_vars PROVE Placed'
  OBVIOUS
<1>1. /\ TypeOK /\ KeepsRegistrations
      /\ storyList \in Nat /\ storyIndex \in Nat
      /\ Review \in Stages /\ TestPlan \in Stages
      /\ StoryLists \subseteq Nat
  BY Registering, StageNames DEF IInv, TypeOK
<1>2. CASE Staying
  BY <1>1, <1>2, StayingSteps, PlacedStays DEF Stays
\* A session is registered, unless the journey is gone.
<1>3. ASSUME NEW skill \in Stages, NEW list \in Nat, NEW index \in Nat,
             Activate(skill, list, index), outdated => outdated',
             ~present => (adrift => adrift')
      PROVE  Placed'
  <2>1. CASE present
    BY <1>3, <2>1, PlacedActivated
  <2>2. CASE ~present
    BY <1>1, <1>3, <2>2, PlacedStays DEF Activate
  <2>3. QED
    BY <2>1, <2>2
<1>4. ASSUME NEW p \in Requests, confirmNext(p)
      PROVE  Placed'
  <2> DEFINE next == getNextStage(sess[req[p].sid].skill)
  <2>1. next \in Stages
    BY <1>4, StageNames DEF confirmNext
  <2>2. Activate(next, storyList, storyIndex) /\ (outdated => outdated') /\ UNCHANGED adrift
    BY <1>4 DEF confirmNext, MovedBy, formVars
  <2> HIDE DEF next
  <2>3. QED
    BY <1>1, <1>3, <2>1, <2>2
<1>5. ASSUME NEW p \in Requests, NEW list \in StoryLists, confirmDefinition(p, list)
      PROVE  Placed'
  BY <1>1, <1>3, <1>5 DEF confirmDefinition, MovedBy, StoriesBegin
<1>6. ASSUME NEW p \in Requests, storiesRead(p)
      PROVE  Placed'
  BY <1>1, <1>3, <1>6 DEF storiesRead, MovedBy, StoriesBegin
<1>7. ASSUME NEW p \in Requests, resumeCreates(p)
      PROVE  Placed'
  <2>1. req[p].skill \in Stages
    BY <1>1 DEF TypeOK, Request
  <2>2. QED
    BY <1>1, <1>3, <1>7, <2>1 DEF resumeCreates, MovedBy, formVars
<1>8. ASSUME NEW p \in Requests, confirmSignedOff(p)
      PROVE  Placed'
  <2>1. (outdated => outdated') /\ UNCHANGED adrift
    BY <1>8 DEF confirmSignedOff, MovedBy, formVars
  <2>2. CASE storyIndex + 1 < storyList /\ present
    BY <1>1, <1>3, <1>8, <2>1, <2>2 DEF confirmSignedOff
  <2>3. CASE ~present
    BY <1>1, <1>8, <2>1, <2>3, PlacedStays DEF confirmSignedOff
  <2>4. CASE ~(storyIndex + 1 < storyList) /\ present
    <3>1. /\ UNCHANGED <<activeSkill, active, storyList, row, sess>>
          /\ storyIndex' = storyIndex + 1 /\ storyIndex' >= storyList'
      BY <1>1, <1>8, <2>4 DEF confirmSignedOff
    <3>2. QED
      BY <2>1, <3>1
      DEF Placed, ListIsStored, IndexIsStored, SessionOfStory, InCycle
  <2>5. QED
    BY <2>2, <2>3, <2>4
<1>9. ASSUME NEW p \in Requests, NEW list \in StoryLists, postStories(p, list)
      PROVE  Placed'
  <2>1. /\ UNCHANGED activeSkill
        /\ adrift' = (adrift \/ getNextStage(activeSkill) # Review
                              \/ ~Complete(activeSkill, 0))
    BY <1>9 DEF postStories
  <2>2. ~adrift' => activeSkill = "definition"
    BY <1>1, <2>1, BeforeReview DEF TypeOK
  <2>3. "definition" # Review /\ "definition" \notin PerStory
    BY DEF PerStory, Review, TestPlan, DefinitionOfReady
  <2>4. QED
    BY <2>1, <2>2, <2>3
    DEF Placed, ListIsStored, IndexIsStored, SessionOfStory, InCycle
<1>10. ASSUME NEW target \in Stages, regress(target)
       PROVE  Placed'
  <2>1. /\ active' = 0 /\ row'.storyList = storyList' /\ row'.storyIndex = storyIndex'
    BY <1>10 DEF regress, StoredAsIs, Stored
  <2>2. QED
    BY <2>1 DEF Placed, ListIsStored, IndexIsStored, SessionOfStory
<1>11. ASSUME NEW wiped \in BOOLEAN, restart(wiped)
       PROVE  Placed'
  <2>1. /\ UNCHANGED <<activeSkill, active, row, outdated, adrift>>
        /\ storyList' = row.storyList /\ storyIndex' = row.storyIndex
    BY <1>11, Zenon DEF restart, ghostVars
  <2>2. active # 0 => active \in DOMAIN sess
    BY <1>1, SessionsAreNumbered
  <2>3. ~outdated' => ListIsStored' /\ IndexIsStored'
    BY <2>1 DEF ListIsStored, IndexIsStored
  <2>4. ASSUME ~outdated, ~adrift, InCycle, active # 0, row.storyIndex < row.storyList
        PROVE  sess'[active].story = row.storyIndex + 1
    <3>1. row.storyList = storyList
      BY <2>4 DEF Placed, ListIsStored
    <3>2. sess[active].story = row.storyIndex + 1
      BY <2>4, <3>1 DEF Placed, SessionOfStory
    <3>3. QED
      BY <1>1, <2>2, <2>4, <3>2 DEF KeepsRegistrations
  <2>5. ~outdated' /\ ~adrift' => SessionOfStory'
    BY <2>1, <2>4 DEF SessionOfStory, InCycle
  <2>6. QED
    BY <2>3, <2>5 DEF Placed
<1>12. QED
  BY <1>2, <1>4, <1>5, <1>6, <1>7, <1>8, <1>9, <1>10, <1>11
  DEF Next, Confirmation, StoryList, Resumption, Staying

\* The story the journey stands at.
StoryHere(story) ==
    activeSkill \in PerStory /\ storyIndex < storyList => story = storyIndex + 1

\* Whatever has been regressed, what a gate-confirm has completed is the stage
\* of the story the journey stands at.
LEMMA ConfirmedHere ==
    ASSUME IInv, Base, Placed, ~outdated, present, NEW p \in Requests, Fresh(p),
           req[p].pc = "state"
    PROVE  \E story \in Nat :
              /\ Complete(activeSkill, story)
              /\ adrift \/ StoryHere(story)
              /\ activeSkill = DefinitionOfReady => story \in validated
<1>1. /\ storyIndex \in Nat /\ storyList \in Nat /\ row.storyIndex \in Nat
      /\ active \in DOMAIN sess /\ active # 0
  BY Confirmed DEF IInv, TypeOK
<1>2. sess[active].story \in Nat
  BY <1>1, IsSession DEF IInv, Session
<1>3. adrift \/ StoryHere(sess[active].story)
  BY <1>1 DEF Placed, IndexIsStored, SessionOfStory, StoryHere, InCycle
<1>4. QED
  BY <1>2, <1>3, Confirmed

-------------------------------------------------------------------------------
(***************************************************************************)
(* The stages of the abstract progress are these stages.                   *)
(***************************************************************************)
LEMMA SameStages ==
    /\ Progress!Stages = Stages
    /\ Progress!Review = Review /\ Progress!TestPlan = TestPlan
    /\ Progress!DefinitionOfReady = DefinitionOfReady /\ Progress!NoStage = NoStage
    /\ \A s : /\ Progress!getNextStage(s) = getNextStage(s)
              /\ Progress!getDownstreamStages(s) = getDownstreamStages(s)
    /\ \A s, t : Progress!isStrictlyLaterStage(s, t) <=> isStrictlyLaterStage(s, t)
<1>1. /\ Progress!Review = Review /\ Progress!TestPlan = TestPlan
      /\ Progress!DefinitionOfReady = DefinitionOfReady /\ Progress!NoStage = NoStage
      /\ Progress!STAGE_SEQUENCE = STAGE_SEQUENCE
  BY DEF Progress!Review, Review, Progress!TestPlan, TestPlan, Progress!NoStage, NoStage,
         Progress!DefinitionOfReady, DefinitionOfReady, Progress!STAGE_SEQUENCE,
         STAGE_SEQUENCE
<1>2. Progress!Stages = Stages
  BY <1>1 DEF Progress!Stages, Stages
<1>3. \A s : Progress!Position(s) = Position(s)
  BY <1>1 DEF Progress!Position, Position
<1>4. \A s : Progress!isKnownStage(s) <=> isKnownStage(s)
  BY <1>2 DEF Progress!isKnownStage, isKnownStage
<1>5. \A s : Progress!getNextStage(s) = getNextStage(s)
  BY <1>1, <1>3, <1>4 DEF Progress!getNextStage, getNextStage
<1>6. \A s : Progress!getDownstreamStages(s) = getDownstreamStages(s)
  BY <1>2, <1>3, <1>4 DEF Progress!getDownstreamStages, getDownstreamStages
<1>7. \A s, t : Progress!isStrictlyLaterStage(s, t) <=> isStrictlyLaterStage(s, t)
  BY <1>6 DEF Progress!isStrictlyLaterStage, isStrictlyLaterStage
<1>8. QED
  BY <1>1, <1>2, <1>5, <1>6, <1>7

LEMMA PassedHere ==
    ASSUME NEW story, Complete(activeSkill, story), adrift \/ StoryHere(story),
           activeSkill = DefinitionOfReady => story \in validated
    PROVE  Progress!Passed
<1>1. PICK e \in completedStages : e.skill = activeSkill /\ e.story = story
  BY DEF Complete
<1> DEFINE pair == [skill |-> e.skill, story |-> e.story]
<1>2. pair \in {[skill |-> f.skill, story |-> f.story] : f \in completedStages}
  OBVIOUS
<1>3. pair.skill = activeSkill /\ pair.story = story
  BY <1>1
<1> HIDE DEF pair
<1>4. adrift \/ Progress!StoryOf(activeSkill) \in {0, story}
  BY SameStages DEF Progress!StoryOf, StoryHere, PerStory
<1>5. QED
  BY <1>2, <1>3, <1>4, SameStages DEF Progress!Passed

\* What is complete lasts, without the sessions too.
LEMMA DoneLasts ==
    ASSUME TypeOK, Lasting
    PROVE  {[skill |-> e.skill, story |-> e.story] : e \in completedStages} \subseteq
           {[skill |-> e.skill, story |-> e.story] : e \in completedStages'}
<1> SUFFICES ASSUME NEW e \in completedStages
             PROVE  \E f \in completedStages' :
                       [skill |-> e.skill, story |-> e.story]
                          = [skill |-> f.skill, story |-> f.story]
  OBVIOUS
<1>1. Complete(e.skill, e.story)
  BY DEF Complete
<1>2. PICK f \in completedStages' : f.skill = e.skill /\ f.story = e.story
  BY <1>1 DEF Lasting, NowComplete
<1>3. QED
  BY <1>2

\* A step of a journey that stays in the store: the row stays or has all of it.
LEMMA ProgressHere ==
    ASSUME present = TRUE, present' = TRUE, UNCHANGED outdated,
           \/ UNCHANGED row
           \/ row' = [storyList |-> storyList', storyIndex |-> storyIndex',
                      complete |-> complete'],
           \/ Progress!Record
           \/ Progress!Advance
           \/ \E list \in StoryLists \cup {storyList} : Progress!NewStories(list)
           \/ \E list \in StoryLists : Progress!Submit(list)
           \/ Progress!BeginReview
           \/ Progress!NextStory
           \/ Progress!LastStory
           \/ \E target \in Stages : Progress!Regress(target)
    PROVE  Progress!Next
BY SameStages DEF Progress!Next

\* A step of a journey that is gone, or goes.
LEMMA ProgressGone ==
    ASSUME present' = FALSE, validated \subseteq validated',
           UNCHANGED <<activeSkill, completedStages, storyList, storyIndex, complete,
                       row, adrift, outdated>>
    PROVE  Progress!Next
BY DEF Progress!Next

LEMMA ProgressInit == Init => Progress!Init
BY DEF Init, Progress!Init

\* The session of an activation is not seen.
LEMMA SeenActivated ==
    ASSUME IInv, present, NEW skill \in Stages, NEW list \in Nat, NEW index \in Nat,
           Activate(skill, list, index), UNCHANGED <<present, complete>>
    PROVE  /\ present = TRUE /\ present' = TRUE
           /\ activeSkill' = skill /\ storyList' = list /\ storyIndex' = index
           /\ row' = [storyList |-> storyList', storyIndex |-> storyIndex',
                      complete |-> complete']
BY DEF IInv, TypeOK, Activate, Stored

LEMMA SeenStaying ==
    ASSUME IInv, IInv', ~outdated', Staying
    PROVE  Progress!Next
<1>1. /\ Stays /\ UNCHANGED complete /\ present \in BOOLEAN /\ present' \in BOOLEAN
      /\ ~present' => UNCHANGED <<completedStages, row>>
      /\ outdated' = FALSE /\ outdated = FALSE /\ TypeOK
  BY StayingSteps DEF IInv, TypeOK, Stays
<1>2. CASE ~present'
  BY <1>1, <1>2, ProgressGone DEF Stays
<1>3. CASE present'
  <2>1. Progress!Record
    BY <1>1, DoneLasts DEF Stays, Progress!Record
  <2>2. \/ UNCHANGED row
        \/ row' = [storyList |-> storyList', storyIndex |-> storyIndex',
                   complete |-> complete']
    BY <1>1 DEF Stays, StoredAsIs, Stored
  <2>3. present = TRUE /\ present' = TRUE
    BY <1>1, <1>3 DEF Stays
  <2>4. QED
    BY <1>1, <2>1, <2>2, <2>3, ProgressHere
<1>4. QED
  BY <1>2, <1>3

LEMMA SeenNext ==
    ASSUME IInv, Base, Placed, ~outdated, ~outdated', NEW p \in Requests, confirmNext(p)
    PROVE  Progress!Next
<1> DEFINE next == getNextStage(sess[req[p].sid].skill)
<1>1. /\ storyList \in Nat /\ storyIndex \in Nat /\ present \in BOOLEAN
      /\ outdated' = FALSE /\ outdated = FALSE
  BY DEF IInv, TypeOK, confirmNext, MovedBy
<1>2. /\ Activate(next, storyList, storyIndex) /\ next \notin {NoStage, Review}
      /\ UNCHANGED <<present, completedStages, complete, validated, adrift>>
      /\ req[p].pc = "state" /\ Fresh(p)
  BY DEF confirmNext, MovedBy, Fresh, Busy, formVars
<1>3. next = getNextStage(activeSkill) /\ next \in Stages
  BY <1>2, Confirmed, StageNames
<1> HIDE DEF next
<1>4. CASE ~present
  BY <1>1, <1>2, <1>4, ProgressGone DEF Activate
<1>5. CASE present
  <2>1. /\ present = TRUE /\ present' = TRUE
        /\ activeSkill' = next /\ storyList' = storyList /\ storyIndex' = storyIndex
        /\ row' = [storyList |-> storyList', storyIndex |-> storyIndex',
                   complete |-> complete']
    BY <1>1, <1>2, <1>3, <1>5, SeenActivated
  <2>2. Progress!Passed
    BY <1>2, <1>5, ConfirmedHere, PassedHere
  <2>3. Progress!Advance
    BY <1>2, <1>3, <2>1, <2>2, SameStages DEF Progress!Advance
  <2>4. QED
    BY <1>1, <2>1, <2>3, ProgressHere
<1>6. QED
  BY <1>4, <1>5

LEMMA SeenSignedOff ==
    ASSUME IInv, Base, Placed, ~outdated, ~outdated', NEW p \in Requests,
           confirmSignedOff(p)
    PROVE  Progress!Next
<1>1. /\ storyList \in Nat /\ storyIndex \in Nat /\ present \in BOOLEAN
      /\ TestPlan \in Stages /\ outdated' = FALSE /\ outdated = FALSE
  <2>1. outdated' = (outdated \/ req[p].stale)
    BY DEF confirmSignedOff, MovedBy
  <2>2. outdated \in BOOLEAN /\ present \in BOOLEAN
    BY DEF IInv, TypeOK
  <2>3. storyList \in Nat /\ storyIndex \in Nat
    BY StoredNumbers DEF IInv
  <2>4. QED
    BY <2>1, <2>2, <2>3, StageNames
<1>2. /\ UNCHANGED <<present, completedStages, validated, adrift>>
      /\ req[p].pc = "state" /\ Fresh(p)
      /\ sess[req[p].sid].skill = DefinitionOfReady
  BY DEF confirmSignedOff, MovedBy, Fresh, Busy, formVars
<1>3. activeSkill = DefinitionOfReady
  BY <1>2, Confirmed
<1>4. CASE ~present
  <2>1. UNCHANGED <<activeSkill, storyList, storyIndex, row>>
    BY <1>4 DEF confirmSignedOff
  <2>2. UNCHANGED complete
    BY <1>4 DEF confirmSignedOff, IInv, TypeOK
  <2>3. QED
    BY <1>1, <1>2, <1>4, <2>1, <2>2, ProgressGone
<1>5. present => Progress!Passed
  BY <1>2, ConfirmedHere, PassedHere
<1>6. CASE present /\ storyIndex + 1 < storyList
  <2>1. Activate(TestPlan, storyList, storyIndex + 1) /\ UNCHANGED complete
    BY <1>6 DEF confirmSignedOff
  <2>2. storyIndex + 1 \in Nat
    BY <1>1
  <2>3. /\ present = TRUE /\ present' = TRUE
        /\ activeSkill' = TestPlan /\ storyList' = storyList
        /\ storyIndex' = storyIndex + 1
        /\ row' = [storyList |-> storyList', storyIndex |-> storyIndex',
                   complete |-> complete']
    BY <1>1, <1>2, <1>6, <2>1, <2>2, SeenActivated
  <2>4. Progress!NextStory
    BY <1>2, <1>3, <1>5, <1>6, <2>1, <2>3, SameStages DEF Progress!NextStory
  <2>5. QED
    BY <1>1, <2>3, <2>4, ProgressHere
<1>7. CASE present /\ ~(storyIndex + 1 < storyList)
  <2>1. /\ present = TRUE /\ present' = TRUE
        /\ UNCHANGED <<activeSkill, storyList, row>>
        /\ storyIndex' = storyIndex + 1 /\ complete' = TRUE
    BY <1>1, <1>2, <1>7 DEF confirmSignedOff
  <2>2. storyIndex + 1 >= storyList
    BY <1>1, <1>7
  <2> DEFINE stories == [storyList |-> storyList, storyIndex |-> storyIndex,
                         complete |-> complete]
  <2>3. stories' = [stories EXCEPT !.storyIndex = @ + 1, !.complete = TRUE]
    <3>1. [stories EXCEPT !.storyIndex = @ + 1]
             = [storyList |-> storyList, storyIndex |-> storyIndex + 1,
                complete |-> complete]
      OBVIOUS
    <3>2. [[storyList |-> storyList, storyIndex |-> storyIndex + 1,
            complete |-> complete] EXCEPT !.complete = TRUE]
             = [storyList |-> storyList, storyIndex |-> storyIndex + 1,
                complete |-> TRUE]
      <4>1. \A x : [[storyList |-> storyList, storyIndex |-> storyIndex + 1,
                     complete |-> complete] EXCEPT !.complete = x]
                      = [storyList |-> storyList, storyIndex |-> storyIndex + 1,
                         complete |-> x]
        OBVIOUS
      <4>2. QED
        BY <4>1, Zenon
    <3>3. stories' = [storyList |-> storyList, storyIndex |-> storyIndex + 1,
                      complete |-> TRUE]
      BY <2>1
    <3>4. QED
      BY <3>1, <3>2, <3>3, Zenon
  <2>4. Progress!LastStory
    BY <1>2, <1>3, <1>5, <1>7, <2>1, <2>2, <2>3, SameStages DEF Progress!LastStory
  <2>5. QED
    BY <1>1, <2>1, <2>4, ProgressHere
<1>8. QED
  BY <1>4, <1>6, <1>7

LEMMA DefinitionPassed ==
    ASSUME DefinitionIsDone, present
    PROVE  activeSkill = "definition" /\ Progress!Passed
<1>1. activeSkill = "definition" /\ Complete(activeSkill, 0)
  BY DEF DefinitionIsDone
<1>2. StoryHere(0) /\ activeSkill # DefinitionOfReady
  BY <1>1, StageOrder DEF StoryHere, Feature, PerStory
<1>3. Progress!Passed
  BY <1>1, <1>2, PassedHere
<1>4. QED
  BY <1>1, <1>3

LEMMA NewList ==
    ASSUME NEW list, storyList' = list, storyIndex' = 0,
           UNCHANGED <<complete, completedStages, validated>>
    PROVE  /\ /\ activeSkill = "definition" /\ Progress!Passed
              /\ \/ activeSkill' = Review /\ adrift' = FALSE
                 \/ UNCHANGED <<activeSkill, adrift>>
              => Progress!NewStories(list)
           /\ UNCHANGED activeSkill /\ adrift' => Progress!Submit(list)
<1> DEFINE stories == [storyList |-> storyList, storyIndex |-> storyIndex,
                       complete |-> complete]
           listed == [storyList |-> list, storyIndex |-> storyIndex,
                      complete |-> complete]
<1>1. [stories EXCEPT !.storyList = list] = listed
  OBVIOUS
<1>2. [listed EXCEPT !.storyIndex = 0]
         = [storyList |-> list, storyIndex |-> 0, complete |-> complete]
  OBVIOUS
<1>3. stories' = [storyList |-> list, storyIndex |-> 0, complete |-> complete]
  OBVIOUS
<1>4. stories' = [stories EXCEPT !.storyList = list, !.storyIndex = 0]
  BY <1>1, <1>2, <1>3, Zenon
<1>5. QED
  BY <1>4, SameStages DEF Progress!NewStories, Progress!Submit

LEMMA SeenDefinition ==
    ASSUME IInv, Ordered, Base, ~outdated, ~outdated', NEW p \in Requests,
           NEW list \in StoryLists, confirmDefinition(p, list)
    PROVE  Progress!Next
<1>1. /\ list \in Nat /\ present \in BOOLEAN /\ Review \in Stages
      /\ outdated' = FALSE /\ outdated = FALSE
  BY StageNames DEF IInv, TypeOK, confirmDefinition, MovedBy
<1>2. /\ Activate(Review, list, 0)
      /\ UNCHANGED <<present, completedStages, complete, validated>>
      /\ adrift' = (adrift /\ ~present)
      /\ req[p].pc = "state" /\ Fresh(p)
      /\ getNextStage(sess[req[p].sid].skill) = Review
  BY DEF confirmDefinition, MovedBy, StoriesBegin, Fresh, Busy
<1>3. DefinitionIsDone
  BY <1>2, AtDefinition DEF Ordered, Base
<1>4. CASE ~present
  BY <1>1, <1>2, <1>4, ProgressGone DEF Activate, IInv, TypeOK
<1>5. CASE present
  <2>1. /\ present = TRUE /\ present' = TRUE
        /\ activeSkill' = Review /\ storyList' = list /\ storyIndex' = 0
        /\ row' = [storyList |-> storyList', storyIndex |-> storyIndex',
                   complete |-> complete']
    BY <1>1, <1>2, <1>5, SeenActivated
  <2>2. activeSkill = "definition" /\ Progress!Passed
    BY <1>3, <1>5, DefinitionPassed
  <2>3. Progress!NewStories(list)
    BY <1>2, <1>5, <2>1, <2>2, NewList
  <2>4. QED
    BY <1>1, <2>1, <2>3, ProgressHere
<1>6. QED
  BY <1>4, <1>5

LEMMA SeenStories ==
    ASSUME IInv, Base, ~outdated, ~outdated', NEW p \in Requests, StoryList(p)
    PROVE  Progress!Next
<1>1. /\ storyList \in Nat /\ storyIndex \in Nat /\ present \in BOOLEAN
      /\ Review \in Stages /\ outdated = FALSE /\ adrift \in BOOLEAN
      /\ activeSkill \in Stages
  BY StageNames DEF IInv, TypeOK
<1>2. DefinitionIsDone /\ present => activeSkill = "definition" /\ Progress!Passed
  BY DefinitionPassed
<1>3. ASSUME NEW list \in StoryLists, postStories(p, list)
      PROVE  Progress!Next
  <2>1. /\ present = TRUE /\ present' = TRUE /\ outdated' = FALSE
        /\ adrift' = (adrift \/ getNextStage(activeSkill) # Review
                             \/ ~Complete(activeSkill, 0))
        /\ UNCHANGED <<activeSkill, completedStages, complete, row, validated>>
        /\ storyList' = list /\ storyIndex' = 0
    BY <1>1, <1>3 DEF postStories, Begins
  <2>2. CASE adrift'
    <3>1. Progress!Submit(list)
      BY <2>1, <2>2, NewList
    <3>2. QED
      BY <1>1, <2>1, <3>1, ProgressHere
  <2>3. CASE ~adrift'
    <3>1. activeSkill = "definition" /\ Progress!Passed /\ UNCHANGED adrift
      BY <1>1, <1>2, <2>1, <2>3, BeforeReview DEF DefinitionIsDone
    <3>2. Progress!NewStories(list)
      BY <2>1, <3>1, NewList
    <3>3. QED
      BY <1>1, <2>1, <3>2, ProgressHere
  <2>4. QED
    BY <2>2, <2>3
<1>4. CASE storiesRead(p)
  <2>1. /\ Activate(Review, storyList, storyIndex)
        /\ UNCHANGED <<present, completedStages, complete, validated>>
        /\ adrift' = (adrift /\ ~present)
        /\ req[p].pc = "stories" /\ Fresh(p) /\ outdated' = FALSE
    BY <1>1, <1>4 DEF storiesRead, MovedBy, StoriesBegin, Fresh, Busy
  <2>2. (adrift \/ DefinitionIsDone) /\ storyIndex = 0
    BY <2>1 DEF Base, UpToDate
  <2>3. CASE ~present
    BY <1>1, <2>1, <2>3, ProgressGone DEF Activate
  <2>4. CASE present
    <3>1. /\ present = TRUE /\ present' = TRUE
          /\ activeSkill' = Review /\ storyList' = storyList /\ storyIndex' = storyIndex
          /\ row' = [storyList |-> storyList', storyIndex |-> storyIndex',
                     complete |-> complete']
      BY <1>1, <2>1, <2>4, SeenActivated
    <3>2. CASE adrift
      <4>1. Progress!BeginReview
        BY <2>1, <2>2, <3>1, <3>2, SameStages DEF Progress!BeginReview
      <4>2. QED
        BY <1>1, <2>1, <3>1, <4>1, ProgressHere
    <3>3. CASE ~adrift
      <4>1. Progress!NewStories(storyList)
        BY <1>2, <2>1, <2>2, <2>4, <3>1, <3>3, NewList
      <4>2. QED
        BY <1>1, <2>1, <3>1, <4>1, ProgressHere
    <3>4. QED
      BY <3>2, <3>3
  <2>5. QED
    BY <2>3, <2>4
<1>5. QED
  BY <1>3, <1>4 DEF StoryList

\* A new session for the stage the journey is at.
LEMMA SeenCreates ==
    ASSUME IInv, Base, ~outdated, ~outdated', NEW p \in Requests, resumeCreates(p)
    PROVE  Progress!Next
<1>1. /\ storyList \in Nat /\ storyIndex \in Nat /\ present \in BOOLEAN
      /\ activeSkill \in Stages /\ outdated' = FALSE /\ outdated = FALSE
  BY DEF IInv, TypeOK, resumeCreates, MovedBy
<1>2. /\ Activate(req[p].skill, storyList, storyIndex)
      /\ UNCHANGED <<present, completedStages, complete, validated, adrift>>
      /\ req[p].pc = "resume" /\ Fresh(p)
  BY DEF resumeCreates, MovedBy, Fresh, Busy, formVars
<1>3. req[p].skill = activeSkill
  BY <1>2 DEF Base, UpToDate
<1>4. CASE ~present
  BY <1>1, <1>2, <1>4, ProgressGone DEF Activate
<1>5. CASE present
  <2>1. /\ present = TRUE /\ present' = TRUE
        /\ activeSkill' = activeSkill /\ storyList' = storyList
        /\ storyIndex' = storyIndex
        /\ row' = [storyList |-> storyList', storyIndex |-> storyIndex',
                   complete |-> complete']
    BY <1>1, <1>2, <1>3, <1>5, SeenActivated
  <2>2. Progress!Record
    BY <1>2, <2>1 DEF Progress!Record
  <2>3. QED
    BY <1>1, <2>1, <2>2, ProgressHere
<1>6. QED
  BY <1>4, <1>5

LEMMA SeenRegress ==
    ASSUME IInv, NEW target \in Stages, regress(target)
    PROVE  Progress!Next
<1>1. /\ present = TRUE /\ present' = TRUE /\ activeSkill' = target
      /\ UNCHANGED <<storyList, storyIndex, complete, outdated>>
      /\ validated' = {} /\ adrift' = FALSE /\ target \in CompletedSkills
      /\ isStrictlyLaterStage(target, activeSkill)
      /\ row' = [storyList |-> storyList', storyIndex |-> storyIndex',
                 complete |-> complete']
  BY DEF IInv, TypeOK, regress, StoredAsIs, Stored
<1> DEFINE invalid == {target} \cup getDownstreamStages(target)
           pairs(entries) == {[skill |-> e.skill, story |-> e.story] : e \in entries}
<1>2. completedStages' = {e \in completedStages : e.skill \notin invalid}
  BY DEF regress
<1> HIDE DEF invalid
<1>3. pairs(completedStages') = {e \in pairs(completedStages) : e.skill \notin invalid}
  BY <1>2
<1>4. \E e \in pairs(completedStages) : e.skill = target
  <2>1. PICK e \in completedStages : e.skill = target
    BY <1>1 DEF CompletedSkills
  <2>2. [skill |-> e.skill, story |-> e.story] \in pairs(completedStages)
    OBVIOUS
  <2>3. QED
    BY <2>1, <2>2
<1>5. Progress!Regress(target)
  BY <1>1, <1>3, <1>4, SameStages DEF Progress!Regress, invalid
<1>6. QED
  BY <1>1, <1>5, ProgressHere

LEMMA SeenRestart ==
    ASSUME IInv, NEW wiped \in BOOLEAN, restart(wiped)
    PROVE  Progress!Next
<1>1. /\ present /\ storyList' = row.storyList /\ storyIndex' = row.storyIndex
      /\ complete' = row.complete
      /\ UNCHANGED <<present, activeSkill, completedStages, row, validated, adrift,
                     outdated>>
  BY Zenon DEF restart, ghostVars
<1>2. row = [storyList |-> row.storyList, storyIndex |-> row.storyIndex,
             complete |-> row.complete]
  BY DEF IInv, TypeOK
<1>3. Progress!Restart
  BY <1>1, <1>2 DEF Progress!Restart
<1>4. QED
  BY <1>1, <1>3 DEF Progress!Next

\* Every step of the routes is a step of the progress, or not seen.
LEMMA ProgressStep ==
    ASSUME IInv, IInv', Ordered, Placed, [Next]_vars
    PROVE  Progress!Next
<1>1. CASE outdated'
  BY <1>1 DEF Progress!Next
<1>2. CASE ~outdated'
  <2>1. CASE Staying
    BY <1>2, <2>1, SeenStaying
  <2>2. ASSUME NEW target \in Stages, regress(target)
        PROVE  Progress!Next
    BY <2>2, SeenRegress
  <2>3. ASSUME NEW wiped \in BOOLEAN, restart(wiped)
        PROVE  Progress!Next
    BY <2>3, SeenRestart
  <2>4. ASSUME NEW p \in Requests,
               \/ confirmNext(p) \/ confirmSignedOff(p) \/ StoryList(p)
               \/ resumeCreates(p) \/ \E list \in StoryLists : confirmDefinition(p, list)
        PROVE  Progress!Next
    <3>1. ~outdated
      BY <1>2, <2>4
      DEF confirmNext, confirmSignedOff, StoryList, postStories, storiesRead,
          resumeCreates, confirmDefinition, MovedBy
    <3>2. Base
      BY <3>1 DEF Ordered
    <3>3. QED
      BY <1>2, <2>4, <3>1, <3>2, SeenNext, SeenSignedOff, SeenStories, SeenCreates,
         SeenDefinition
  <2>5. QED
    BY <2>1, <2>2, <2>3, <2>4 DEF Next, Confirmation, Resumption, Staying
<1>3. QED
  BY <1>1, <1>2

(***************************************************************************)
(* Whatever the requests, their awaits and the failures between them, what *)
(* is seen of a journey is one stage or one story at a time, each left     *)
(* when it is complete, or the review of a list submitted elsewhere, for   *)
(* any story lists and any number of requests; nothing is promised once a  *)
(* request has moved the journey from where it no longer was.              *)
(***************************************************************************)
THEOREM FlowImplementsProgress == Spec => ImplementsProgress
<1>1. IInv /\ IInv' /\ Ordered /\ Placed /\ [Next]_vars
        => [Progress!Next]_(Progress!vars)
  BY ProgressStep
<1>2. QED
  BY <1>1, ProgressInit, IInvInit, IInvNext, OrderedInit, OrderedNext, PlacedInit,
     PlacedNext, PTL
  DEF Spec, ImplementsProgress, Progress!Spec
===============================================================================
