------------------------------- MODULE StateSync -------------------------------
(***************************************************************************)
(* One feature's pipeline-state.json on GitHub and the journey of the same *)
(* slug: the state write each gate-confirm makes through the Contents API  *)
(* (fetch with its sha, apply, put, three attempts), the sync_log gaps it  *)
(* leaves and replays, and the CLI's gate-advance, which writes a checkout *)
(* and then pushes the stage to the journey over HTTP.                     *)
(*                                                                         *)
(* A blob is its own sha: a put succeeds when the file still has the       *)
(* content it was computed from.  A story is its stage and the marker of   *)
(* the last agreed stage.  The feature-level fields, written alike, are    *)
(* one: stage.  Left out: enum validation, the other story fields, epics   *)
(* (a lookup), authorship, and the stage gate-confirm moves to next.       *)
(*                                                                         *)
(* Gate-confirm takes the story name from journey.stories, which nothing   *)
(* fills, so today it names no story; the story-level half of the writer   *)
(* is modelled as its interface and its tests have it.                     *)
(***************************************************************************)
EXTENDS JourneyStages, FiniteSets

CONSTANTS
    Requests,   \* gate-confirms of the journey
    Clis,       \* gate-advance processes in one checkout
    Stories,    \* story names
    NoStory,    \* the null a request passes when it names no story
    Skills,     \* stages gate-confirm and gate-advance may be about
    Absent,     \* no feature, no such story, no gap
    MaxCrashes  \* bound: server restarts

ASSUME SkillsAssumption == Skills \subseteq Stages
ASSUME NamesAssumption == NoStory \notin Stories
ASSUME NonEmptyAssumption == Stories # {} /\ Skills # {}

StateStages == Skills \cup {"branch-complete"}
Story == [stage : StateStages, marker : StateStages \cup {NoStage}]

ASSUME AbsentAssumption == Absent \notin Nat \cup Story

Content == [stage : StateStages \cup {NoStage, Absent},
            stories : [Stories -> Story \cup {Absent}]]
Call == [story : Stories \cup {NoStory}, stage : StateStages \cup {NoStage}]

MaxAttempts == 3

VARIABLES
    hub,        \* the file on GitHub
    local,      \* the checkout's file
    origin,     \* the hub content the checkout was last level with
    completed,  \* skill names of the journey's completedStages
    exists,     \* the journey is in the map
    gaps,       \* sync_log's gap rows, oldest first
    req,        \* the requests' progress
    cli,        \* the gate-advance processes' progress
    crashes

\* Observations: the gaps whose update has been written since, and the stages
\* a regression took back.
VARIABLES written, regressed

hubVars == <<hub, written>>
checkoutVars == <<local, origin>>
journeyVars == <<completed, exists, regressed>>
vars == <<hub, local, origin, completed, exists, gaps, req, cli, crashes,
          written, regressed>>

Writing == {"fetch", "log", "put"}

Gap == [call : Call, open : BOOLEAN]
Request == [pc      : {"unsent", "gap", "find", "mark", "ended"} \cup Writing,
            call    : Call,               \* the write under way
            gap     : Nat \cup {Absent},  \* the gap it replays
            attempt : 1 .. MaxAttempts,
            logged  : Nat,                \* conflict rows it has logged
            base    : Content]            \* what it fetched
Process == [pc     : {"idle", "resolve", "answered", "update", "mark", "ended"},
            story  : Stories,
            stage  : Skills,
            latest : Stages \cup {NoStage}]  \* the journey's, as resolved

TypeOK ==
    /\ hub \in Content /\ local \in Content /\ origin \in Content
    /\ completed \in SUBSET Stages
    /\ exists \in BOOLEAN
    /\ gaps \in Seq(Gap)
    /\ req \in [Requests -> Request]
    /\ cli \in [Clis -> Process]
    /\ crashes \in Nat
    /\ written \in SUBSET Nat
    /\ regressed \in SUBSET Stages

Empty == [stage |-> Absent, stories |-> [s \in Stories |-> Absent]]

\* A request and a process that are not at work.
Resting(pc) ==
    [pc |-> pc, call |-> [story |-> NoStory, stage |-> NoStage],
     gap |-> Absent, attempt |-> 1, logged |-> 0, base |-> Empty]
Idle(pc) ==
    [pc |-> pc, story |-> CHOOSE s \in Stories : TRUE,
     stage |-> CHOOSE g \in Skills : TRUE, latest |-> NoStage]

\* The stage gate-confirm reports: none for discovery, the inner loop's first
\* for a sign-off.
Reported(skill) ==
    CASE skill = "discovery" -> NoStage
      [] skill = "definition-of-ready" -> "branch-complete"
      [] OTHER -> skill

\* The feature is there with no story yet, or one the CLI advanced before.
Init ==
    /\ \E stories \in [Stories -> {Absent} \cup [stage : Skills, marker : {NoStage}]],
          stage \in {Absent, NoStage} :
          /\ stage = Absent => stories = Empty.stories
          /\ hub = [stage |-> stage, stories |-> stories]
    /\ local = hub
    /\ origin = hub
    /\ completed = {}
    /\ exists = TRUE
    /\ gaps = <<>>
    /\ req = [r \in Requests |-> Resting("unsent")]
    /\ cli = [c \in Clis |-> Idle("idle")]
    /\ crashes = 0
    /\ written = {}
    /\ regressed = {}

(***************************************************************************)
(* Conflicts and the pure part of a write.                                 *)
(***************************************************************************)

\* Mutant: the journey's side is compared the wrong way round.
detectConflictSwapped(marker, pipelineState, journey) ==
    /\ pipelineState # journey
    /\ pipelineState # marker
    /\ journey = marker

\* Both sides moved away from the marker, to different stages.
detectConflict(marker, pipelineState, journey) ==
    /\ pipelineState # journey
    /\ pipelineState # marker
    /\ journey # marker

Conflicting(content, call) ==
    /\ call.story # NoStory /\ call.stage # NoStage
    /\ content.stories[call.story] # Absent
    /\ detectConflict(content.stories[call.story].marker,
                      content.stories[call.story].stage, call.stage)

\* A new story gets no marker; in a conflict the file keeps its stage.
StoryAfter(content, call) ==
    IF content.stories[call.story] = Absent
    THEN [stage |-> call.stage, marker |-> NoStage]
    ELSE LET agreed == IF Conflicting(content, call)
                       THEN content.stories[call.story].stage ELSE call.stage
         IN  [stage |-> agreed, marker |-> agreed]

\* The feature-level stage is written whatever becomes of the story's.
Applied(content, call) ==
    [stage |-> IF call.stage # NoStage THEN call.stage
               ELSE IF content.stage = Absent THEN NoStage ELSE content.stage,
     stories |-> IF call.story = NoStory \/ call.stage = NoStage
                 THEN content.stories
                 ELSE [content.stories EXCEPT ![call.story] =
                         StoryAfter(content, call)]]

(***************************************************************************)
(* Gate-confirm's state write, its gap and the replay of an earlier one.   *)
(***************************************************************************)
Ends(r) == req' = [req EXCEPT ![r] = Resting("ended")]

Calls(r, call, gap) ==
    req' = [req EXCEPT ![r] = [Resting("fetch") EXCEPT !.call = call, !.gap = gap]]

\* completeStage, then the write; the story is the request's own.
confirm(r) ==
    /\ req[r].pc = "unsent"
    /\ exists
    /\ \E skill \in Skills, story \in Stories \cup {NoStory} :
          /\ completed' = completed \cup {skill}
          /\ Calls(r, [story |-> story, stage |-> Reported(skill)], Absent)
    /\ UNCHANGED <<exists, regressed, gaps, cli, crashes, hubVars, checkoutVars>>

\* Mutant: a conflict is logged again on every attempt.
fetchedForgetful(r) ==
    /\ req[r].pc = "fetch"
    /\ req' = [req EXCEPT ![r].base = hub,
                          ![r].pc = IF Conflicting(hub, req[r].call)
                                    THEN "log" ELSE "put"]
    /\ UNCHANGED <<cli, crashes, hubVars, checkoutVars, journeyVars, gaps>>

\* The sha and the blob it names.
fetched(r) ==
    /\ req[r].pc = "fetch"
    /\ req' = [req EXCEPT ![r].base = hub,
                          ![r].pc = IF Conflicting(hub, req[r].call)
                                       /\ req[r].logged = 0
                                    THEN "log" ELSE "put"]
    /\ UNCHANGED <<cli, crashes, hubVars, checkoutVars, journeyVars, gaps>>

conflictLogged(r) ==
    /\ req[r].pc = "log"
    /\ req' = [req EXCEPT ![r].pc = "put", ![r].logged = @ + 1]
    /\ UNCHANGED <<gaps, cli, crashes, hubVars, checkoutVars, journeyVars>>

\* The writer threw: the request logs a gap, a replay leaves its gap open.
Throws(r) ==
    req' = [req EXCEPT ![r] = [Resting(IF req[r].gap = Absent THEN "gap" ELSE "ended")
                                 EXCEPT !.call = req[r].call]]

Puts(r) ==
    /\ hub' = Applied(req[r].base, req[r].call)
    /\ written' = written \cup {i \in DOMAIN gaps : gaps[i].call = req[r].call}
    /\ \/ req' = [req EXCEPT ![r].pc = IF req[r].gap = Absent THEN "find" ELSE "mark",
                              ![r].base = Empty]
       \/ Throws(r)
    /\ UNCHANGED <<cli, crashes, checkoutVars, journeyVars, gaps>>

\* Mutant: the put carries no sha.
putUnconditionally(r) ==
    /\ req[r].pc = "put"
    /\ Puts(r)

\* The put takes effect; its answer may still be lost.
put(r) ==
    /\ req[r].pc = "put"
    /\ hub = req[r].base
    /\ Puts(r)

\* 409: the file changed since it was fetched.
putConflicts(r) ==
    /\ req[r].pc = "put"
    /\ hub # req[r].base
    /\ IF req[r].attempt < MaxAttempts
       THEN req' = [req EXCEPT ![r].attempt = @ + 1, ![r].pc = "fetch",
                               ![r].base = Empty]
       ELSE Throws(r)
    /\ UNCHANGED <<cli, crashes, hubVars, checkoutVars, journeyVars, gaps>>

\* No token or repository, an identity, fetch, put or conflict-log error.
writeFails(r) ==
    /\ req[r].pc \in Writing
    /\ Throws(r)
    /\ UNCHANGED <<cli, crashes, hubVars, checkoutVars, journeyVars, gaps>>

\* The gap's INSERT; its failure is only printed.
gapLogged(r) ==
    /\ req[r].pc = "gap"
    /\ \/ gaps' = Append(gaps, [call |-> req[r].call, open |-> TRUE])
       \/ UNCHANGED gaps
    /\ Ends(r)
    /\ UNCHANGED <<cli, crashes, hubVars, checkoutVars, journeyVars>>

OpenGaps == {i \in DOMAIN gaps : gaps[i].open}

\* Only the newest open gap is looked at.
Newest(i) == i \in OpenGaps /\ \A j \in OpenGaps : j <= i

\* Mutant: a gap is replayed with the calling request's own update.
findOwn(r) ==
    /\ req[r].pc = "find"
    /\ \/ OpenGaps = {} /\ Ends(r)
       \/ \E i \in OpenGaps :
             /\ Newest(i)
             /\ IF gaps[i].call.story = NoStory
                THEN Ends(r) ELSE Calls(r, req[r].call, i)
    /\ UNCHANGED <<cli, crashes, hubVars, checkoutVars, journeyVars, gaps>>

\* reconcile: the gap is replayed with what it stored, if it names a story.
find(r) ==
    /\ req[r].pc = "find"
    /\ \/ OpenGaps = {} /\ Ends(r)
       \/ \E i \in OpenGaps :
             /\ Newest(i)
             /\ IF gaps[i].call.story = NoStory
                THEN Ends(r) ELSE Calls(r, gaps[i].call, i)
    /\ UNCHANGED <<cli, crashes, hubVars, checkoutVars, journeyVars, gaps>>

\* markGapResolved, or its failure.
marked(r) ==
    /\ req[r].pc = "mark"
    /\ \/ gaps' = [gaps EXCEPT ![req[r].gap].open = FALSE]
       \/ UNCHANGED gaps
    /\ Ends(r)
    /\ UNCHANGED <<cli, crashes, hubVars, checkoutVars, journeyVars>>

\* A failed lookup of the open gap is only printed.
findFails(r) ==
    /\ req[r].pc = "find"
    /\ OpenGaps # {}
    /\ Ends(r)
    /\ UNCHANGED <<cli, crashes, hubVars, checkoutVars, journeyVars, gaps>>

\* A restart loses the requests under way, and what they had not logged.
restart ==
    /\ crashes < MaxCrashes
    /\ crashes' = crashes + 1
    /\ \E r \in Requests : req[r].pc \notin {"unsent", "ended"}
    /\ req' = [r \in Requests |-> IF req[r].pc = "unsent" THEN req[r]
                                  ELSE Resting("ended")]
    /\ UNCHANGED <<cli, hubVars, checkoutVars, journeyVars, gaps>>

\* handlePostJourneyDelete, for what it means here.
delete ==
    /\ exists
    /\ exists' = FALSE
    /\ completed' = {}
    /\ UNCHANGED <<regressed, req, cli, crashes, hubVars, checkoutVars, gaps>>

\* handlePostJourneyRegress to any stage some later one of which may be active.
regress ==
    /\ exists
    /\ \E target \in completed :
          LET downstream == getDownstreamStages(target)
              invalidated == {target} \cup downstream
          IN  /\ downstream # {}
              /\ completed' = completed \ invalidated
              /\ regressed' = regressed \cup (completed \cap invalidated)
    /\ UNCHANGED <<exists, req, cli, crashes, hubVars, checkoutVars, gaps>>

(***************************************************************************)
(* gate-advance: the checkout's file, then the journey, then the marker.   *)
(***************************************************************************)

\* The artefact is valid and the operator's fields set the gate's stage.
gateAdvance(c) ==
    /\ cli[c].pc = "idle"
    /\ local.stage # Absent
    /\ \E s \in Stories, g \in Skills :
          /\ local' = [local EXCEPT !.stories[s] =
                 IF @ = Absent THEN [stage |-> g, marker |-> NoStage]
                               ELSE [@ EXCEPT !.stage = g]]
          /\ cli' = [cli EXCEPT ![c] = [Idle("resolve") EXCEPT !.story = s, !.stage = g]]
    /\ UNCHANGED <<origin, req, crashes, hubVars, journeyVars, gaps>>

\* No sync configured, no journey, a repository mismatch or an HTTP error.
syncEnds(c) ==
    /\ cli[c].pc \in {"resolve", "update"}
    /\ cli' = [cli EXCEPT ![c] = Idle("ended")]
    /\ UNCHANGED <<req, crashes, hubVars, checkoutVars, journeyVars, gaps>>

resolved(c) ==
    /\ cli[c].pc = "resolve"
    /\ exists
    /\ cli' = [cli EXCEPT ![c].pc = "answered",
                          ![c].latest = getLatestKnownStage(completed)]
    /\ UNCHANGED <<req, crashes, hubVars, checkoutVars, journeyVars, gaps>>

\* There is a marker, and the journey moved from it to something else.
Diverged(c) ==
    LET marker == local.stories[cli[c].story].marker
    IN  marker # NoStage /\ detectConflict(marker, cli[c].stage, cli[c].latest)

\* Mutant: a conflict is reported and the marker advanced all the same.
compareLax(c) ==
    /\ cli[c].pc = "answered"
    /\ cli' = [cli EXCEPT ![c].pc = IF Diverged(c) THEN "mark" ELSE "update",
                          ![c].latest = NoStage]
    /\ UNCHANGED <<req, crashes, hubVars, checkoutVars, journeyVars, gaps>>

\* A journey that moved elsewhere is left alone, and the conflict logged.
compare(c) ==
    /\ cli[c].pc = "answered"
    /\ cli' = [cli EXCEPT ![c] = IF Diverged(c) THEN Idle("ended")
                                ELSE [@ EXCEPT !.pc = "update", !.latest = NoStage]]
    /\ UNCHANGED <<req, crashes, hubVars, checkoutVars, journeyVars, gaps>>

\* handleJourneySyncUpdate: not found is answered with 200 as well.  Its
\* answer may be lost.
updated(c) ==
    /\ cli[c].pc = "update"
    /\ IF exists
       THEN completed' = completed \cup {cli[c].stage}
       ELSE UNCHANGED completed
    /\ \/ cli' = [cli EXCEPT ![c].pc = "mark"]
       \/ cli' = [cli EXCEPT ![c] = Idle("ended")]
    /\ UNCHANGED <<exists, regressed, req, crashes, hubVars, checkoutVars, gaps>>

\* The second advance; no pull takes the story away.
mark(c) ==
    /\ cli[c].pc = "mark"
    /\ local' = [local EXCEPT !.stories[cli[c].story].marker = cli[c].stage]
    /\ cli' = [cli EXCEPT ![c] = Idle("ended")]
    /\ UNCHANGED <<origin, req, crashes, hubVars, journeyVars, gaps>>

(***************************************************************************)
(* git between the checkout and the hub.                                   *)
(***************************************************************************)
gitPush ==
    /\ origin = hub
    /\ local # hub
    /\ hub' = local
    /\ origin' = local
    /\ UNCHANGED <<local, written, journeyVars, req, cli, crashes, gaps>>

Merged(ours, base, theirs) == IF ours = base THEN theirs ELSE ours

\* A merge that keeps what was changed here.
gitPull ==
    /\ origin # hub
    /\ origin' = hub
    /\ local' = [stage |-> Merged(local.stage, origin.stage, hub.stage),
                 stories |-> [s \in Stories |->
                    Merged(local.stories[s], origin.stories[s], hub.stories[s])]]
    /\ UNCHANGED <<hubVars, journeyVars, req, cli, crashes, gaps>>

Next ==
    \/ \E r \in Requests :
          \/ confirm(r) \/ fetched(r) \/ conflictLogged(r) \/ put(r)
          \/ putConflicts(r) \/ writeFails(r) \/ gapLogged(r)
          \/ find(r) \/ findFails(r) \/ marked(r)
    \/ \E c \in Clis :
          \/ gateAdvance(c) \/ syncEnds(c) \/ resolved(c) \/ compare(c)
          \/ updated(c) \/ mark(c)
    \/ restart \/ delete \/ regress \/ gitPush \/ gitPull

Spec == Init /\ [][Next]_vars

(***************************************************************************)
(* Properties.                                                             *)
(***************************************************************************)

\* Every write of the web server is applied to the very content it replaces,
\* so no other writer's update is lost under it: what changes the hub is one
\* call applied to it, or a push of a checkout level with it.
NoLostUpdate ==
    [][hub' # hub =>
         \/ hub' = local /\ origin = hub
         \/ \E r \in Requests : hub' = Applied(hub, req[r].call)]_hub

\* A story stage that pipeline-state.json moved since the two sides last
\* agreed is not replaced by a stage the journey moved to on its own: a write
\* keeps it, or puts the agreed stage back.
PipelineStateWins ==
    [][\A s \in Stories :
         /\ hub' # local
         /\ hub.stories[s] # Absent /\ hub.stories[s].stage # hub.stories[s].marker
         => hub'.stories[s].stage \in {hub.stories[s].stage, hub.stories[s].marker}]_hub

\* A gap is closed only once the very update that failed has been written.
ClosedGapsWereWritten ==
    \A i \in DOMAIN gaps : ~gaps[i].open => i \in written

\* The retries of a write log one conflict at most.
ConflictLoggedOnce == \A r \in Requests : req[r].logged <= 1

\* gate-advance moves its marker only for a stage the journey has completed,
\* unless the journey was regressed or deleted under it.
MarksWerePushed ==
    \A c \in Clis : cli[c].pc = "mark" /\ exists =>
        cli[c].stage \in completed \cup regressed
================================================================================
