--------------------------- MODULE StateSyncProofs ---------------------------
(***************************************************************************)
(* Proofs about StateSync, for any requests, processes, stories and stages *)
(* and any number of restarts.                                             *)
(***************************************************************************)
EXTENDS StateSync, SequenceTheorems, TLAPS

(***************************************************************************)
(* The latest known stage of a set of skill names.                         *)
(***************************************************************************)

\* The eight stages by position.
LEMMA StageSequence ==
    /\ Len(STAGE_SEQUENCE) = 8
    /\ DOMAIN STAGE_SEQUENCE = 1 .. 8
    /\ \A i, j \in 1 .. 8 : STAGE_SEQUENCE[i] = STAGE_SEQUENCE[j] => i = j
BY DEF STAGE_SEQUENCE

\* Every stage has its one position.
LEMMA PositionOfStage ==
    ASSUME NEW i \in 1 .. 8
    PROVE  Position(STAGE_SEQUENCE[i]) = i
BY StageSequence DEF Position

\* getLatestKnownStage returns a stage or none.
LEMMA LatestKnownStage ==
    ASSUME NEW S
    PROVE  getLatestKnownStage(S) \in Stages \cup {NoStage}
<1> DEFINE known == S \cap Stages
           In(i) == STAGE_SEQUENCE[i] \in known
<1>1. CASE known = {}
  BY <1>1 DEF getLatestKnownStage
<1>2. CASE known # {}
  <2>1. PICK i \in 1 .. 8 : In(i) /\ \A j \in 1 .. 8 : In(j) => j <= i
    <3>1. \E i \in 1 .. 8 : In(i)
      BY <1>2, StageSequence DEF Stages
    <3> HIDE DEF In
    <3>2. QED
      BY <3>1
  <2>2. \A t \in known : Position(t) <= Position(STAGE_SEQUENCE[i])
    BY <2>1, StageSequence, PositionOfStage DEF Stages
  <2>3. \E s \in known : \A t \in known : Position(t) <= Position(s)
    BY <2>1, <2>2
  <2>4. getLatestKnownStage(S) = CHOOSE s \in known : \A t \in known : Position(t) <= Position(s)
    BY <1>2 DEF getLatestKnownStage
  <2>5. (CHOOSE s \in known : \A t \in known : Position(t) <= Position(s)) \in known
    BY <2>3
  <2>6. QED
    BY <2>4, <2>5
<1>3. QED
  BY <1>1, <1>2
(***************************************************************************)
(* The pure part of a write.                                               *)
(***************************************************************************)

\* What is computed from a file is one, and takes no story out of it.
LEMMA AppliedType ==
    ASSUME NEW content \in Content, NEW call \in Call
    PROVE  /\ Applied(content, call) \in Content
           /\ \A s \in Stories : content.stories[s] # Absent =>
                 Applied(content, call).stories[s] # Absent
<1>1. ASSUME call.story # NoStory, call.stage # NoStage
      PROVE  StoryAfter(content, call) \in Story
  <2>1. call.story \in Stories /\ call.stage \in StateStages
    BY <1>1 DEF Call
  <2>2. content.stories[call.story] # Absent => content.stories[call.story] \in Story
    BY <2>1 DEF Content
  <2>3. QED
    BY <2>1, <2>2 DEF StoryAfter, Story
<1>2. Applied(content, call).stories \in [Stories -> Story \cup {Absent}]
  BY <1>1 DEF Applied, Content, Call
<1>3. Applied(content, call).stage \in StateStages \cup {NoStage, Absent}
  BY DEF Applied, Content, Call
<1>4. Applied(content, call) \in Content
  BY <1>2, <1>3 DEF Applied, Content
<1>5. ASSUME NEW s \in Stories, content.stories[s] # Absent
      PROVE  Applied(content, call).stories[s] # Absent
  BY <1>1, <1>5, AbsentAssumption DEF Applied, Content, Call
<1>6. QED
  BY <1>4, <1>5

\* A request and a process at rest are well typed.
LEMMA RestingType ==
    /\ \A pc \in {"unsent", "gap", "find", "mark", "ended"} \cup Writing :
          Resting(pc) \in Request
    /\ \A pc \in {"idle", "resolve", "answered", "update", "mark", "ended"} :
          Idle(pc) \in Process
<1>1. Empty \in Content
  BY DEF Empty, Content
<1>2. [story |-> NoStory, stage |-> NoStage] \in Call
  BY DEF Call
<1>3. (CHOOSE s \in Stories : TRUE) \in Stories /\ (CHOOSE g \in Skills : TRUE) \in Skills
  BY NonEmptyAssumption
<1>4. \A pc \in {"unsent", "gap", "find", "mark", "ended"} \cup Writing :
          Resting(pc) \in Request
  BY <1>1, <1>2 DEF Resting, Request, MaxAttempts
<1>5. \A pc \in {"idle", "resolve", "answered", "update", "mark", "ended"} :
          Idle(pc) \in Process
  BY <1>3 DEF Idle, Process
<1>6. QED
  BY <1>4, <1>5
(***************************************************************************)
(* Typing.  The marker of a story is only moved while the checkout has the *)
(* story; git keeps it there because a story never leaves the hub.         *)
(***************************************************************************)
Has(content, s) == content.stories[s] # Absent

StoryStays ==
    /\ \A s \in Stories : Has(origin, s) => Has(hub, s) /\ Has(local, s)
    /\ \A c \in Clis : cli[c].pc \in {"resolve", "answered", "update", "mark"} =>
          Has(local, cli[c].story)

Typed == TypeOK /\ StoryStays

\* What a request's step makes of its record.
LEMMA RequestSteps ==
    ASSUME NEW q \in Request
    PROVE  /\ \A content \in Content, pc \in {"log", "put"} :
                 [q EXCEPT !.base = content, !.pc = pc] \in Request
           /\ [q EXCEPT !.pc = "put", !.logged = @ + 1] \in Request
           /\ \A pc \in {"find", "mark"} : [q EXCEPT !.pc = pc, !.base = Empty] \in Request
           /\ q.attempt < MaxAttempts =>
                 [q EXCEPT !.attempt = @ + 1, !.pc = "fetch", !.base = Empty] \in Request
           /\ \A pc \in {"gap", "ended"} :
                 [Resting(pc) EXCEPT !.call = q.call] \in Request
<1>1. Empty \in Content
  BY DEF Empty, Content
<1>2. \A content \in Content, pc \in {"log", "put"} :
         [q EXCEPT !.base = content, !.pc = pc] \in Request
  BY DEF Request, Writing
<1>3. [q EXCEPT !.pc = "put", !.logged = @ + 1] \in Request
  <2>1. \A n \in Nat : [q EXCEPT !.pc = "put", !.logged = n] \in Request
    BY DEF Request, Writing
  <2>2. q.logged + 1 \in Nat
    BY DEF Request
  <2>3. QED
    BY <2>1, <2>2
<1>4. \A pc \in {"find", "mark"} : [q EXCEPT !.pc = pc, !.base = Empty] \in Request
  BY <1>1 DEF Request
<1>5. q.attempt < MaxAttempts =>
         [q EXCEPT !.attempt = @ + 1, !.pc = "fetch", !.base = Empty] \in Request
  <2>1. \A n \in 1 .. MaxAttempts :
           [q EXCEPT !.attempt = n, !.pc = "fetch", !.base = Empty] \in Request
    BY <1>1 DEF Request, Writing
  <2>2. q.attempt < MaxAttempts => q.attempt + 1 \in 1 .. MaxAttempts
    BY DEF Request, MaxAttempts
  <2>3. QED
    BY <2>1, <2>2
<1>6. \A pc \in {"gap", "ended"} : [Resting(pc) EXCEPT !.call = q.call] \in Request
  BY RestingType DEF Request
<1>7. QED
  BY <1>2, <1>3, <1>4, <1>5, <1>6

\* A call begins with its gap, if it replays one.
LEMMA CallingType ==
    ASSUME NEW call \in Call, NEW gap \in Nat \cup {Absent}
    PROVE  [Resting("fetch") EXCEPT !.call = call, !.gap = gap] \in Request
<1>1. Resting("fetch") \in Request
  BY RestingType DEF Writing
<1>2. QED
  BY <1>1 DEF Request, Writing

\* Closing a gap keeps the log's type and the other gaps.
LEMMA ClosingGap ==
    ASSUME NEW log \in Seq(Gap), NEW i \in Nat \cup {Absent}
    PROVE  LET after == [log EXCEPT ![i].open = FALSE]
           IN  /\ after \in Seq(Gap)
               /\ DOMAIN after = DOMAIN log
               /\ \A j \in DOMAIN log :
                     /\ after[j].call = log[j].call
                     /\ j # i => after[j] = log[j]
<1> DEFINE after == [log EXCEPT ![i].open = FALSE]
<1>1. log \in [1 .. Len(log) -> Gap] /\ Len(log) \in Nat
  OBVIOUS
<1>2. after \in [1 .. Len(log) -> Gap]
  BY <1>1 DEF Gap
<1>3. after \in Seq(Gap)
  BY <1>1, <1>2
<1>4. \A j \in DOMAIN log : after[j].call = log[j].call /\ (j # i => after[j] = log[j])
  BY <1>1 DEF Gap
<1>5. QED
  BY <1>1, <1>2, <1>3, <1>4

LEMMA TypedInit == Init => Typed
<1> SUFFICES ASSUME Init PROVE Typed
  OBVIOUS
<1>1. hub \in Content
  BY DEF Init, Content, Story, StateStages, Empty
<1>2. \A r \in Requests : req[r] \in Request
  BY RestingType DEF Init
<1>3. \A c \in Clis : cli[c] \in Process /\ cli[c].pc = "idle"
  BY RestingType DEF Init, Idle
<1>4. TypeOK
  BY <1>1, <1>2, <1>3, EmptySeq DEF Init, TypeOK
<1>5. StoryStays
  BY <1>3 DEF Init, StoryStays, Has
<1>6. QED
  BY <1>4, <1>5 DEF Typed
\* No step breaks the types.
LEMMA TypedStep ==
    ASSUME Typed, [Next]_vars
    PROVE  Typed'
<1> USE DEF Typed
<1>1. ASSUME NEW r \in Requests, confirm(r)
      PROVE  Typed'
  <2>1. PICK skill \in Skills, story \in Stories \cup {NoStory} :
           /\ completed' = completed \cup {skill}
           /\ Calls(r, [story |-> story, stage |-> Reported(skill)], Absent)
    BY <1>1 DEF confirm
  <2>2. [story |-> story, stage |-> Reported(skill)] \in Call
    BY DEF Reported, Call, StateStages
  <2>3. req' \in [Requests -> Request]
    BY <2>1, <2>2, CallingType DEF TypeOK, Calls
  <2>4. completed' \in SUBSET Stages
    BY <2>1, SkillsAssumption DEF TypeOK
  <2>5. QED
    BY <1>1, <2>3, <2>4 DEF confirm, TypeOK, StoryStays, Has, hubVars, checkoutVars
<1>2. ASSUME NEW r \in Requests, fetched(r) \/ conflictLogged(r) \/ putConflicts(r) \/ writeFails(r)
      PROVE  Typed'
  <2>1. req[r] \in Request /\ hub \in Content
    BY DEF TypeOK
  <2>2. Throws(r) => req' \in [Requests -> Request]
    BY <2>1, RequestSteps DEF Throws, TypeOK
  <2>3. req' \in [Requests -> Request]
    <3>1. CASE fetched(r)
      BY <3>1, <2>1, RequestSteps DEF TypeOK, fetched
    <3>2. CASE conflictLogged(r)
      BY <3>2, <2>1, RequestSteps DEF TypeOK, conflictLogged
    <3>3. CASE putConflicts(r)
      BY <3>3, <2>1, <2>2, RequestSteps DEF TypeOK, putConflicts
    <3>4. CASE writeFails(r)
      BY <3>4, <2>2 DEF writeFails
    <3>5. QED
      BY <1>2, <3>1, <3>2, <3>3, <3>4
  <2>4. QED
    BY <1>2, <2>3 DEF fetched, conflictLogged, putConflicts, writeFails,
       TypeOK, StoryStays, Has, hubVars, checkoutVars, journeyVars
<1>3. ASSUME NEW r \in Requests, put(r)
      PROVE  Typed'
  <2>1. req[r] \in Request /\ req[r].call \in Call /\ hub \in Content
    BY DEF TypeOK, Request
  <2>2. /\ hub' \in Content
        /\ \A s \in Stories : Has(hub, s) => Has(hub', s)
    BY <1>3, <2>1, AppliedType DEF put, Puts, Has
  <2>3. req' \in [Requests -> Request]
    BY <1>3, <2>1, RequestSteps DEF put, Puts, Throws, TypeOK
  <2>4. written' \in SUBSET Nat
    BY <1>3 DEF put, Puts, TypeOK
  <2>5. TypeOK'
    BY <1>3, <2>2, <2>3, <2>4 DEF put, Puts, TypeOK, checkoutVars, journeyVars
  <2>6. StoryStays'
    BY <1>3, <2>2 DEF put, Puts, StoryStays, Has, checkoutVars
  <2>7. QED
    BY <2>5, <2>6
<1>4. ASSUME NEW r \in Requests, gapLogged(r) \/ find(r) \/ findFails(r) \/ marked(r)
      PROVE  Typed'
  <2>1. req[r] \in Request
    BY DEF TypeOK
  <2>2. Ends(r) => req' \in [Requests -> Request]
    BY RestingType DEF Ends, TypeOK
  <2>3. \A i \in DOMAIN gaps : gaps[i].call \in Call /\ i \in Nat
    <3>1. gaps \in [1 .. Len(gaps) -> Gap] /\ Len(gaps) \in Nat
      BY DEF TypeOK
    <3>2. QED
      BY <3>1 DEF Gap
  <2>4. req' \in [Requests -> Request]
    <3>1. CASE find(r) /\ ~Ends(r)
      <4>1. PICK i \in DOMAIN gaps : Calls(r, gaps[i].call, i)
        BY <3>1 DEF find, OpenGaps
      <4>2. QED
        BY <2>3, <4>1, CallingType DEF Calls, TypeOK
    <3>2. QED
      BY <1>4, <2>2, <3>1 DEF gapLogged, findFails, marked
  <2>5. gaps' \in Seq(Gap)
    <3>1. CASE gapLogged(r)
      <4>1. [call |-> req[r].call, open |-> TRUE] \in Gap
        BY <2>1 DEF Request, Gap
      <4>2. QED
        BY <3>1, <4>1, AppendProperties DEF gapLogged, TypeOK
    <3>2. CASE marked(r)
      BY <3>2, <2>1, ClosingGap DEF marked, TypeOK, Request
    <3>3. CASE find(r) \/ findFails(r)
      BY <3>3 DEF find, findFails, TypeOK
    <3>4. QED
      BY <1>4, <3>1, <3>2, <3>3
  <2>6. QED
    BY <1>4, <2>4, <2>5 DEF gapLogged, find, findFails, marked,
       TypeOK, StoryStays, Has, hubVars, checkoutVars, journeyVars
<1>5. ASSUME NEW c \in Clis, gateAdvance(c)
      PROVE  Typed'
  <2>1. PICK s \in Stories, g \in Skills :
          /\ local' = [local EXCEPT !.stories[s] =
                 IF @ = Absent THEN [stage |-> g, marker |-> NoStage]
                               ELSE [@ EXCEPT !.stage = g]]
          /\ cli' = [cli EXCEPT ![c] = [Idle("resolve") EXCEPT !.story = s, !.stage = g]]
    BY <1>5 DEF gateAdvance
  <2> DEFINE new == IF local.stories[s] = Absent THEN [stage |-> g, marker |-> NoStage]
                    ELSE [local.stories[s] EXCEPT !.stage = g]
  <2>2. new \in Story /\ new # Absent
    <3>1. local.stories[s] # Absent => local.stories[s] \in Story
      BY DEF TypeOK, Content
    <3>2. new \in Story
      BY <3>1 DEF Story, StateStages
    <3>3. QED
      BY <3>2, AbsentAssumption
  <2>3. local' \in Content /\ \A t \in Stories : Has(local', t) <=> t = s \/ Has(local, t)
    <3>1. local' = [local EXCEPT !.stories[s] = new]
      BY <2>1
    <3> HIDE DEF new
    <3>2. QED
      BY <2>2, <3>1 DEF TypeOK, Content, Has
  <2>4. [Idle("resolve") EXCEPT !.story = s, !.stage = g] \in Process
    <3>1. Idle("resolve") \in Process
      BY RestingType
    <3>2. QED
      BY <3>1 DEF Process
  <2>5. TypeOK'
    BY <1>5, <2>1, <2>3, <2>4 DEF gateAdvance, TypeOK, hubVars, journeyVars
  <2>6. StoryStays'
    <3>1. cli'[c].story = s
      BY <2>1 DEF TypeOK, Idle
    <3>2. \A d \in Clis : d # c => cli'[d] = cli[d]
      BY <2>1 DEF TypeOK
    <3>3. QED
      BY <1>5, <2>3, <3>1, <3>2 DEF gateAdvance, StoryStays, Has, hubVars
  <2>7. QED
    BY <2>5, <2>6
<1>6. ASSUME NEW c \in Clis, syncEnds(c) \/ resolved(c) \/ compare(c) \/ updated(c)
      PROVE  Typed'
  <2>1. cli[c] \in Process
    BY DEF TypeOK
  <2>2. getLatestKnownStage(completed) \in Stages \cup {NoStage}
    BY LatestKnownStage
  <2>3. cli' \in [Clis -> Process]
    <3>1. Idle("ended") \in Process
      BY RestingType
    <3>2. \A l \in Stages \cup {NoStage} : [cli[c] EXCEPT !.pc = "answered", !.latest = l] \in Process
      BY <2>1 DEF Process
    <3>3. [cli[c] EXCEPT !.pc = "update", !.latest = NoStage] \in Process
      BY <2>1 DEF Process
    <3>4. [cli[c] EXCEPT !.pc = "mark"] \in Process
      BY <2>1 DEF Process
    <3>5. QED
      BY <1>6, <2>2, <3>1, <3>2, <3>3, <3>4 DEF TypeOK, syncEnds, resolved, compare, updated
  <2>4. completed' \in SUBSET Stages
    BY <1>6, <2>1, SkillsAssumption DEF TypeOK, Process, syncEnds, resolved, compare, updated, journeyVars
  <2>5. \A d \in Clis : \/ cli'[d].pc = "ended"
                        \/ /\ cli'[d].story = cli[d].story
                           /\ cli'[d].pc # "idle" => cli[d].pc \in {cli'[d].pc, "resolve", "answered", "update"}
    <3>1. Idle("ended").pc = "ended"
      BY DEF Idle
    <3>2. CASE syncEnds(c)
      BY <3>1, <3>2 DEF TypeOK, syncEnds
    <3>3. CASE resolved(c)
      BY <3>3, <2>1 DEF TypeOK, Process, resolved
    <3>4. CASE compare(c)
      BY <3>1, <3>4, <2>1 DEF TypeOK, Process, compare
    <3>5. CASE updated(c)
      BY <3>1, <3>5, <2>1 DEF TypeOK, Process, updated
    <3>6. QED
      BY <1>6, <3>2, <3>3, <3>4, <3>5
  <2>6. TypeOK'
    BY <1>6, <2>3, <2>4 DEF TypeOK, syncEnds, resolved, compare, updated,
       hubVars, checkoutVars, journeyVars
  <2>7. StoryStays'
    BY <1>6, <2>5 DEF StoryStays, Has, syncEnds, resolved, compare, updated,
       hubVars, checkoutVars, journeyVars
  <2>8. QED
    BY <2>6, <2>7
<1>7. ASSUME NEW c \in Clis, mark(c)
      PROVE  Typed'
  <2>1. cli[c] \in Process
    BY DEF TypeOK
  <2> DEFINE s == cli[c].story
             new == [local.stories[s] EXCEPT !.marker = cli[c].stage]
  <2>2. s \in Stories /\ cli[c].stage \in StateStages /\ Has(local, s)
    BY <1>7, <2>1 DEF Process, StateStages, mark, StoryStays
  <2>3. local.stories[s] \in Story
    BY <2>2 DEF TypeOK, Content, Has
  <2>4. new \in Story /\ new # Absent
    <3>1. new \in Story
      BY <2>2, <2>3 DEF Story
    <3>2. QED
      BY <3>1, AbsentAssumption
  <2>5. local' = [local EXCEPT !.stories[s] = new]
    BY <1>7 DEF mark
  <2>6. local' \in Content /\ \A t \in Stories : Has(local, t) => Has(local', t)
    <3> HIDE DEF new
    <3>1. QED
      BY <2>2, <2>4, <2>5 DEF TypeOK, Content, Has
  <2>7. cli' \in [Clis -> Process] /\ cli'[c].pc = "ended" /\ \A d \in Clis : d # c => cli'[d] = cli[d]
    <3>1. Idle("ended") \in Process /\ Idle("ended").pc = "ended"
      BY RestingType DEF Idle
    <3>2. QED
      BY <1>7, <3>1 DEF TypeOK, mark
  <2>8. TypeOK'
    BY <1>7, <2>6, <2>7 DEF TypeOK, mark, hubVars, journeyVars
  <2>9. StoryStays'
    <3>1. \A d \in Clis : cli'[d].pc \in {"resolve", "answered", "update", "mark"} =>
             d # c /\ Has(local, cli'[d].story) /\ cli'[d].story \in Stories
      BY <2>7 DEF StoryStays, TypeOK, Process
    <3> HIDE DEF s, new
    <3>2. \A d \in Clis : cli'[d].pc \in {"resolve", "answered", "update", "mark"} =>
             Has(local', cli'[d].story)
      BY <2>6, <3>1
    <3>3. \A t \in Stories : Has(origin, t) => Has(hub, t) /\ Has(local', t)
      BY <2>6 DEF StoryStays
    <3>4. hub' = hub /\ origin' = origin
      BY <1>7 DEF mark, hubVars
    <3>5. QED
      BY <3>2, <3>3, <3>4 DEF StoryStays, Has
  <2>10. QED
    BY <2>8, <2>9
<1>8. CASE restart
  <2>1. req' \in [Requests -> Request]
    BY <1>8, RestingType DEF restart, TypeOK
  <2>2. crashes' \in Nat
    BY <1>8 DEF restart, TypeOK
  <2>3. QED
    BY <1>8, <2>1, <2>2 DEF restart, TypeOK, StoryStays, Has, hubVars, checkoutVars, journeyVars
<1>9. CASE delete
  BY <1>9 DEF delete, TypeOK, StoryStays, Has, hubVars, checkoutVars
<1>10. CASE gitPush
  BY <1>10 DEF gitPush, TypeOK, StoryStays, Has, journeyVars
<1>11. CASE gitPull
  <2>1. \A s \in Stories : Merged(local.stories[s], origin.stories[s], hub.stories[s])
                              \in Story \cup {Absent}
    BY DEF Merged, TypeOK, Content
  <2>2. Merged(local.stage, origin.stage, hub.stage) \in StateStages \cup {NoStage, Absent}
    BY DEF Merged, TypeOK, Content
  <2>3. local' \in Content
    BY <1>11, <2>1, <2>2 DEF gitPull, Content
  <2>4. \A s \in Stories : /\ Has(local, s) => Has(local', s)
                           /\ Has(hub, s) => Has(local', s)
    BY <1>11 DEF gitPull, Merged, Has, StoryStays
  <2>5. TypeOK'
    BY <1>11, <2>3 DEF gitPull, TypeOK, hubVars, journeyVars
  <2>6. StoryStays'
    BY <1>11, <2>4 DEF gitPull, StoryStays, Has, hubVars, TypeOK, Process
  <2>7. QED
    BY <2>5, <2>6
<1>12. CASE regress
  BY <1>12 DEF regress, TypeOK, StoryStays, Has, hubVars, checkoutVars
<1>13. CASE UNCHANGED vars
  BY <1>13 DEF vars, TypeOK, StoryStays, Has
<1>14. QED
  BY <1>1, <1>2, <1>3, <1>4, <1>5, <1>6, <1>7, <1>8, <1>9, <1>10, <1>11, <1>12,
     <1>13
  DEF Next
\* Every variable keeps its type, for any requests, processes and stages.
THEOREM TypeCorrect == Spec => []TypeOK
<1>1. Typed /\ [Next]_vars => Typed'
  BY TypedStep
<1>2. Typed => TypeOK
  BY DEF Typed
<1>3. QED
  BY TypedInit, <1>1, <1>2, PTL DEF Spec

(***************************************************************************)
(* The inductive invariant.                                                *)
(***************************************************************************)

\* A request that is about to log a conflict has logged none.
LogsOnce ==
    \A r \in Requests : /\ req[r].logged \in {0, 1}
                        /\ req[r].pc = "log" => req[r].logged = 0

\* A replay carries the call of the gap it will close, and has written it by
\* the time it closes it.
ReplaysItsGap ==
    \A r \in Requests :
        /\ req[r].pc \in Writing /\ req[r].gap # Absent =>
              /\ req[r].gap \in DOMAIN gaps
              /\ gaps[req[r].gap].call = req[r].call
        /\ req[r].pc = "mark" =>
              req[r].gap \in DOMAIN gaps /\ req[r].gap \in written

IInv == Typed /\ LogsOnce /\ ReplaysItsGap /\ ClosedGapsWereWritten /\ MarksWerePushed

LEMMA IInvInit == Init => IInv
<1> SUFFICES ASSUME Init PROVE IInv
  OBVIOUS
<1>1. \A r \in Requests : req[r].pc = "unsent" /\ req[r].logged = 0
  BY DEF Init, Resting
<1>2. \A c \in Clis : cli[c].pc = "idle"
  BY DEF Init, Idle
<1>3. LogsOnce /\ ReplaysItsGap
  BY <1>1 DEF LogsOnce, ReplaysItsGap, Writing
<1>4. ClosedGapsWereWritten
  BY DEF Init, ClosedGapsWereWritten
<1>5. MarksWerePushed
  BY <1>2 DEF MarksWerePushed
<1>6. QED
  BY TypedInit, <1>3, <1>4, <1>5 DEF IInv

\* Where the requests' records come from, action by action.
LEMMA RestingFields ==
    \A pc : /\ Resting(pc).pc = pc
            /\ Resting(pc).logged = 0
            /\ Resting(pc).gap = Absent
BY DEF Resting

\* A retry keeps its count, every other new call starts one.
LEMMA LogsOnceStep ==
    ASSUME Typed, LogsOnce, [Next]_vars
    PROVE  LogsOnce'
<1> USE RestingFields
<1>1. req \in [Requests -> Request]
  BY DEF Typed, TypeOK
<1>2. ASSUME NEW r \in Requests, NEW pc, NEW call, NEW gap, pc # "log",
             req' = [req EXCEPT ![r] = [Resting(pc) EXCEPT !.call = call, !.gap = gap]]
      PROVE  LogsOnce'
  BY <1>1, <1>2 DEF LogsOnce, Resting
<1>3. ASSUME NEW r \in Requests, Ends(r) PROVE LogsOnce'
  BY <1>1, <1>3 DEF LogsOnce, Ends
<1>4. ASSUME NEW r \in Requests, NEW call, NEW gap, Calls(r, call, gap) PROVE LogsOnce'
  BY <1>2, <1>4 DEF Calls
<1>5. ASSUME NEW r \in Requests, Throws(r) PROVE LogsOnce'
  BY <1>1, <1>5 DEF LogsOnce, Throws
<1>6. ASSUME NEW r \in Requests,
             confirm(r) \/ find(r) \/ findFails(r) \/ marked(r) \/ gapLogged(r) \/ writeFails(r)
      PROVE  LogsOnce'
  BY <1>3, <1>4, <1>5, <1>6 DEF confirm, find, findFails, marked, gapLogged, writeFails
<1>7. ASSUME NEW r \in Requests, fetched(r) PROVE LogsOnce'
  BY <1>1, <1>7 DEF LogsOnce, fetched, Request
<1>8. ASSUME NEW r \in Requests, conflictLogged(r) PROVE LogsOnce'
  BY <1>1, <1>8 DEF LogsOnce, conflictLogged, Request
<1>9. ASSUME NEW r \in Requests, put(r) PROVE LogsOnce'
  BY <1>1, <1>5, <1>9 DEF LogsOnce, put, Puts, Request
<1>10. ASSUME NEW r \in Requests, putConflicts(r) PROVE LogsOnce'
  BY <1>1, <1>5, <1>10 DEF LogsOnce, putConflicts, Request
<1>11. CASE restart
  BY <1>1, <1>11 DEF LogsOnce, restart
<1>12. CASE UNCHANGED req
  BY <1>12 DEF LogsOnce
<1>13. QED
  BY <1>6, <1>7, <1>8, <1>9, <1>10, <1>11, <1>12
  DEF Next, vars, gateAdvance, syncEnds, resolved, compare, updated, mark,
      delete, regress, gitPush, gitPull
\* The log of gaps only grows, a gap keeps its call, and what is written of it
\* stays so.
LEMMA GapsStay ==
    ASSUME Typed, [Next]_vars
    PROVE  /\ DOMAIN gaps \subseteq DOMAIN gaps'
           /\ \A i \in DOMAIN gaps : gaps'[i].call = gaps[i].call
           /\ written \subseteq written'
<1> DEFINE Stay == /\ DOMAIN gaps \subseteq DOMAIN gaps'
                   /\ \A i \in DOMAIN gaps : gaps'[i].call = gaps[i].call
<1>1. gaps \in Seq(Gap) /\ req \in [Requests -> Request]
  BY DEF Typed, TypeOK
<1>2. ASSUME NEW r \in Requests, gapLogged(r), gaps' # gaps
      PROVE  Stay
  <2>1. [call |-> req[r].call, open |-> TRUE] \in Gap
    BY <1>1 DEF Request, Gap
  <2>2. gaps' = Append(gaps, [call |-> req[r].call, open |-> TRUE])
    BY <1>2 DEF gapLogged
  <2>3. QED
    BY <1>1, <2>1, <2>2, AppendProperties
<1>3. ASSUME NEW r \in Requests, marked(r), gaps' # gaps
      PROVE  Stay
  <2>1. req[r].gap \in Nat \cup {Absent}
    BY <1>1 DEF Request
  <2>2. gaps' = [gaps EXCEPT ![req[r].gap].open = FALSE]
    BY <1>3 DEF marked
  <2>3. DOMAIN gaps' = DOMAIN gaps
    BY <1>1, <2>1, <2>2, ClosingGap
  <2>4. \A i \in DOMAIN gaps : gaps'[i].call = gaps[i].call
    BY <1>1, <2>1, <2>2, ClosingGap
  <2>5. QED
    BY <2>3, <2>4
<1>4. gaps' # gaps => \E r \in Requests : gapLogged(r) \/ marked(r)
  BY DEF Next, vars, confirm, fetched, conflictLogged, put, Puts, putConflicts,
     writeFails, find, findFails, gateAdvance, syncEnds, resolved, compare,
     updated, mark, restart, delete, regress, gitPush, gitPull
<1>5. written \subseteq written'
  BY DEF Next, vars, hubVars, confirm, fetched, conflictLogged, put, Puts,
     putConflicts, writeFails, gapLogged, find, findFails, marked, gateAdvance,
     syncEnds, resolved, compare, updated, mark, restart, delete, regress, gitPush, gitPull
<1>6. QED
  BY <1>2, <1>3, <1>4, <1>5

\* A replay keeps to its gap.
LEMMA ReplaysItsGapStep ==
    ASSUME Typed, ReplaysItsGap, [Next]_vars
    PROVE  ReplaysItsGap'
<1> DEFINE Keeps(q) ==
              /\ q.pc \in Writing /\ q.gap # Absent =>
                    q.gap \in DOMAIN gaps /\ gaps[q.gap].call = q.call
              /\ q.pc = "mark" => q.gap \in DOMAIN gaps /\ q.gap \in written'
<1>1. req \in [Requests -> Request]
  BY DEF Typed, TypeOK
<1>2. \A r \in Requests : Keeps(req[r])
  BY GapsStay DEF ReplaysItsGap
<1>3. \A call : \A pc \in {"unsent", "gap", "find", "ended"} :
         Keeps([Resting(pc) EXCEPT !.call = call]) /\ Keeps(Resting(pc))
  BY DEF Resting, Writing
<1>4. ASSUME NEW r \in Requests, Ends(r) PROVE \A q \in Requests : Keeps(req'[q])
  BY <1>1, <1>2, <1>3, <1>4 DEF Ends
<1>5. ASSUME NEW r \in Requests, Throws(r) PROVE \A q \in Requests : Keeps(req'[q])
  <2>1. PICK pc \in {"gap", "ended"} :
           req' = [req EXCEPT ![r] = [Resting(pc) EXCEPT !.call = req[r].call]]
    BY <1>5 DEF Throws
  <2>2. Keeps([Resting(pc) EXCEPT !.call = req[r].call])
    BY <1>3
  <2> HIDE DEF Keeps
  <2>3. QED
    BY <1>1, <1>2, <2>1, <2>2
<1>6. ASSUME NEW r \in Requests, NEW call, Calls(r, call, Absent)
      PROVE  \A q \in Requests : Keeps(req'[q])
  BY <1>1, <1>2, <1>6 DEF Calls, Resting
<1>7. ASSUME NEW r \in Requests, find(r) PROVE \A q \in Requests : Keeps(req'[q])
  <2>1. ASSUME NEW i \in DOMAIN gaps, Calls(r, gaps[i].call, i)
        PROVE  \A q \in Requests : Keeps(req'[q])
    BY <1>1, <1>2, <2>1 DEF Calls, Resting
  <2>2. QED
    BY <1>4, <1>7, <2>1 DEF find, OpenGaps
<1>8. ASSUME NEW r \in Requests, fetched(r) \/ conflictLogged(r)
      PROVE  \A q \in Requests : Keeps(req'[q])
  BY <1>1, <1>2, <1>8 DEF fetched, conflictLogged, Writing, Request
<1>9. ASSUME NEW r \in Requests, put(r) PROVE \A q \in Requests : Keeps(req'[q])
  <2>1. req[r].gap # Absent => req[r].gap \in DOMAIN gaps /\ req[r].gap \in written'
    BY <1>2, <1>9 DEF put, Puts, Writing
  <2>2. CASE req' = [req EXCEPT ![r].pc = IF req[r].gap = Absent THEN "find" ELSE "mark",
                               ![r].base = Empty]
    BY <1>1, <1>2, <2>1, <2>2 DEF Writing, Request
  <2>3. QED
    BY <1>5, <1>9, <2>2 DEF put, Puts
<1>10. ASSUME NEW r \in Requests, putConflicts(r) PROVE \A q \in Requests : Keeps(req'[q])
  <2>1. CASE req' = [req EXCEPT ![r].attempt = @ + 1, ![r].pc = "fetch", ![r].base = Empty]
    BY <1>1, <1>2, <1>10, <2>1 DEF putConflicts, Writing, Request
  <2>2. QED
    BY <1>5, <1>10, <2>1 DEF putConflicts
<1>11. ASSUME restart PROVE \A q \in Requests : Keeps(req'[q])
  <2>1. \A q \in Requests : req'[q] = req[q] \/ req'[q] = Resting("ended")
    BY <1>11 DEF restart
  <2>2. Keeps(Resting("ended"))
    BY <1>3
  <2> HIDE DEF Keeps
  <2>3. QED
    BY <1>2, <2>1, <2>2
<1>12. \A q \in Requests : Keeps(req'[q])
  <2>1. CASE UNCHANGED req
    BY <1>2, <2>1
  <2> HIDE DEF Keeps
  <2>2. ASSUME NEW r \in Requests, confirm(r) PROVE \A q \in Requests : Keeps(req'[q])
    BY <1>6, <2>2 DEF confirm
  <2>3. ASSUME NEW r \in Requests, writeFails(r) PROVE \A q \in Requests : Keeps(req'[q])
    BY <1>5, <2>3 DEF writeFails
  <2>4. ASSUME NEW r \in Requests, gapLogged(r) \/ findFails(r) \/ marked(r)
        PROVE  \A q \in Requests : Keeps(req'[q])
    BY <1>4, <2>4 DEF gapLogged, findFails, marked
  <2>5. UNCHANGED req \/ restart \/ \E r \in Requests :
           \/ confirm(r) \/ fetched(r) \/ conflictLogged(r) \/ put(r)
           \/ putConflicts(r) \/ writeFails(r) \/ gapLogged(r)
           \/ find(r) \/ findFails(r) \/ marked(r)
    BY DEF Next, vars, gateAdvance, syncEnds, resolved, compare, updated, mark,
       delete, regress, gitPush, gitPull
  <2>6. QED
    BY <1>7, <1>8, <1>9, <1>10, <1>11, <2>1, <2>2, <2>3, <2>4, <2>5
<1>13. QED
  BY <1>12, GapsStay DEF ReplaysItsGap, Writing

\* A gap that closes has been written.
LEMMA ClosedGapsStep ==
    ASSUME Typed, ReplaysItsGap, ClosedGapsWereWritten, [Next]_vars
    PROVE  ClosedGapsWereWritten'
<1>1. gaps \in Seq(Gap) /\ req \in [Requests -> Request]
  BY DEF Typed, TypeOK
<1>2. ASSUME NEW r \in Requests, gapLogged(r), gaps' # gaps
      PROVE  ClosedGapsWereWritten'
  <2>1. [call |-> req[r].call, open |-> TRUE] \in Gap
    BY <1>1 DEF Request, Gap
  <2>2. gaps' = Append(gaps, [call |-> req[r].call, open |-> TRUE])
    BY <1>2 DEF gapLogged
  <2>3. \A i \in DOMAIN gaps' : ~gaps'[i].open => i \in DOMAIN gaps /\ gaps'[i] = gaps[i]
    <3>1. DOMAIN gaps' = 1 .. (Len(gaps) + 1) /\ DOMAIN gaps = 1 .. Len(gaps) /\ Len(gaps) \in Nat
      BY <1>1, <2>1, <2>2, AppendProperties
    <3>2. gaps'[Len(gaps) + 1].open
      BY <1>1, <2>1, <2>2, AppendProperties
    <3>3. \A i \in 1 .. Len(gaps) : gaps'[i] = gaps[i]
      BY <1>1, <2>1, <2>2, AppendProperties
    <3>4. \A i \in 1 .. (Len(gaps) + 1) : i \in 1 .. Len(gaps) \/ i = Len(gaps) + 1
      BY <3>1
    <3>5. QED
      BY <3>1, <3>2, <3>3, <3>4
  <2>4. QED
    BY <2>3, GapsStay DEF ClosedGapsWereWritten
<1>3. ASSUME NEW r \in Requests, marked(r), gaps' # gaps
      PROVE  ClosedGapsWereWritten'
  <2>1. req[r].gap \in Nat \cup {Absent} /\ req[r].gap \in written
    BY <1>1, <1>3 DEF Request, marked, ReplaysItsGap
  <2>2. /\ DOMAIN gaps' = DOMAIN gaps
        /\ \A i \in DOMAIN gaps : i # req[r].gap => gaps'[i] = gaps[i]
    BY <1>1, <1>3, <2>1, ClosingGap DEF marked
  <2>3. QED
    BY <2>1, <2>2, GapsStay DEF ClosedGapsWereWritten
<1>4. gaps' # gaps => \E r \in Requests : gapLogged(r) \/ marked(r)
  BY DEF Next, vars, confirm, fetched, conflictLogged, put, Puts, putConflicts,
     writeFails, find, findFails, gateAdvance, syncEnds, resolved, compare,
     updated, mark, restart, delete, regress, gitPush, gitPull
<1>5. CASE UNCHANGED gaps
  BY <1>5, GapsStay DEF ClosedGapsWereWritten
<1>6. QED
  BY <1>2, <1>3, <1>4, <1>5

\* The CLI's push completes the stage before its marker moves.
LEMMA MarksStep ==
    ASSUME Typed, MarksWerePushed, [Next]_vars
    PROVE  MarksWerePushed'
<1>1. cli \in [Clis -> Process]
  BY DEF Typed, TypeOK
<1>2. ASSUME NEW c \in Clis, updated(c) PROVE MarksWerePushed'
  <2>1. \A d \in Clis : cli'[d].pc = "mark" =>
           cli'[d].stage = cli[d].stage /\ (d = c \/ cli[d].pc = "mark")
    <3>1. Idle("ended").pc = "ended"
      BY DEF Idle
    <3>2. QED
      BY <1>1, <1>2, <3>1 DEF updated, Process
  <2>2. /\ UNCHANGED <<exists, regressed>>
        /\ exists => completed' = completed \cup {cli[c].stage}
    BY <1>2 DEF updated
  <2>3. QED
    BY <2>1, <2>2 DEF MarksWerePushed
<1>3. ASSUME NEW c \in Clis,
             gateAdvance(c) \/ syncEnds(c) \/ resolved(c) \/ compare(c) \/ mark(c)
      PROVE  MarksWerePushed'
  <2>1. \A d \in Clis : cli'[d].pc = "mark" => cli'[d] = cli[d]
    <3>1. Idle("ended").pc = "ended" /\ \A s, g : [Idle("resolve") EXCEPT !.story = s, !.stage = g].pc = "resolve"
      BY DEF Idle
    <3>2. CASE gateAdvance(c)
      BY <1>1, <3>1, <3>2 DEF gateAdvance
    <3>3. CASE syncEnds(c) \/ mark(c)
      BY <1>1, <3>1, <3>3 DEF syncEnds, mark
    <3>4. CASE resolved(c)
      BY <1>1, <3>4 DEF resolved, Process
    <3>5. CASE compare(c)
      BY <1>1, <3>1, <3>5 DEF compare, Process
    <3>6. QED
      BY <1>3, <3>2, <3>3, <3>4, <3>5
  <2>2. QED
    BY <1>3, <2>1 DEF MarksWerePushed, gateAdvance, syncEnds, resolved, compare,
       mark, journeyVars
<1>4. CASE /\ UNCHANGED <<cli, exists>>
           /\ completed \cup regressed \subseteq completed' \cup regressed'
  BY <1>4 DEF MarksWerePushed
<1>5. CASE delete
  BY <1>5 DEF delete, MarksWerePushed
<1>6. regress => completed \cup regressed = completed' \cup regressed'
  BY DEF regress
<1>7. CASE regress
  BY <1>4, <1>6, <1>7 DEF regress
<1>8. QED
  BY <1>2, <1>3, <1>4, <1>5, <1>7
  DEF Next, vars, journeyVars, confirm, fetched, conflictLogged, put, Puts,
      putConflicts, writeFails, gapLogged, find, findFails, marked, restart,
      gitPush, gitPull
LEMMA IInvStep == IInv /\ [Next]_vars => IInv'
BY TypedStep, LogsOnceStep, ReplaysItsGapStep, ClosedGapsStep, MarksStep DEF IInv

\* However a write is retried, it logs one conflict row at most.
THEOREM OneConflictRow == Spec => []ConflictLoggedOnce
<1>1. IInv => ConflictLoggedOnce
  BY DEF IInv, LogsOnce, ConflictLoggedOnce
<1>2. QED
  BY IInvInit, IInvStep, <1>1, PTL DEF Spec

\* A closed gap's own update has been put, whatever else the requests did and
\* wherever the server stopped.
THEOREM GapsCloseTruly == Spec => []ClosedGapsWereWritten
<1>1. IInv => ClosedGapsWereWritten
  BY DEF IInv
<1>2. QED
  BY IInvInit, IInvStep, <1>1, PTL DEF Spec

\* The CLI's marker moves only for a stage the journey has, or had when it was
\* regressed or deleted.
THEOREM MarkersFollowPushes == Spec => []MarksWerePushed
<1>1. IInv => MarksWerePushed
  BY DEF IInv
<1>2. QED
  BY IInvInit, IInvStep, <1>1, PTL DEF Spec

\* What writes the hub: the sha check makes every put a write to the content
\* it was computed from.
LEMMA HubWriters ==
    ASSUME [Next]_vars, hub' # hub
    PROVE  \/ hub' = local /\ origin = hub
           \/ \E r \in Requests : hub' = Applied(hub, req[r].call)
BY DEF Next, vars, hubVars, confirm, fetched, conflictLogged, put, Puts,
   putConflicts, writeFails, gapLogged, find, findFails, marked, gateAdvance,
   syncEnds, resolved, compare, updated, mark, restart, delete, regress, gitPush, gitPull

\* No writer's update is lost under another's.
THEOREM UpdatesNotLost == Spec => NoLostUpdate
<1>1. [Next]_vars => [hub' # hub =>
         \/ hub' = local /\ origin = hub
         \/ \E r \in Requests : hub' = Applied(hub, req[r].call)]_hub
  BY HubWriters
<1>2. QED
  BY <1>1, PTL DEF Spec, NoLostUpdate

\* One write to a story the file moved by itself.
LEMMA AppliedKeepsMoved ==
    ASSUME NEW content \in Content, NEW call \in Call, NEW s \in Stories,
           content.stories[s] # Absent,
           content.stories[s].stage # content.stories[s].marker
    PROVE  Applied(content, call).stories[s].stage
              \in {content.stories[s].stage, content.stories[s].marker}
<1>1. CASE call.story = s /\ call.stage # NoStage
  <2>1. content.stories[s] \in Story /\ s # NoStory
    BY NamesAssumption DEF Content
  <2>2. Applied(content, call).stories[s] = StoryAfter(content, call)
    BY <1>1, <2>1 DEF Applied, Content
  <2>3. StoryAfter(content, call).stage
          = IF Conflicting(content, call) THEN content.stories[s].stage ELSE call.stage
    BY <1>1 DEF StoryAfter
  <2>4. ~Conflicting(content, call) =>
           call.stage \in {content.stories[s].stage, content.stories[s].marker}
    BY <1>1, <2>1 DEF Conflicting, detectConflict
  <2>5. QED
    BY <2>2, <2>3, <2>4
<1>2. CASE ~(call.story = s /\ call.stage # NoStage)
  BY <1>2 DEF Applied, Content
<1>3. QED
  BY <1>1, <1>2

\* A conflict never costs pipeline-state.json its stage.
THEOREM FileStageWins == Spec => PipelineStateWins
<1>1. Typed /\ [Next]_vars =>
        [\A s \in Stories :
         /\ hub' # local
         /\ hub.stories[s] # Absent /\ hub.stories[s].stage # hub.stories[s].marker
         => hub'.stories[s].stage \in {hub.stories[s].stage, hub.stories[s].marker}]_hub
  <2> SUFFICES ASSUME Typed, [Next]_vars, hub' # hub, hub' # local, NEW s \in Stories,
                      hub.stories[s] # Absent,
                      hub.stories[s].stage # hub.stories[s].marker
               PROVE  hub'.stories[s].stage \in {hub.stories[s].stage, hub.stories[s].marker}
    OBVIOUS
  <2>1. PICK r \in Requests : hub' = Applied(hub, req[r].call)
    BY HubWriters
  <2>2. hub \in Content /\ req[r].call \in Call
    BY DEF Typed, TypeOK, Request
  <2>3. QED
    BY <2>1, <2>2, AppliedKeepsMoved
<1>2. Typed /\ [Next]_vars => Typed'
  BY TypedStep
<1>3. QED
  BY TypedInit, <1>1, <1>2, PTL DEF Spec, PipelineStateWins
==============================================================================
