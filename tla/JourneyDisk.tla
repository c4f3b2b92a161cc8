----------------------------- MODULE JourneyDisk ------------------------------
(***************************************************************************)
(* The journey store without DATABASE_URL: the in-memory map, one JSON     *)
(* file per feature slug behind it, the reload at start, and the handlers  *)
(* of routes/journey.js that read the map and the file side by side.       *)
(*                                                                         *)
(* Every adapter call is synchronous, so each handler below is one step    *)
(* from its last await to its response.  A local file write is taken to    *)
(* succeed (the code ignores the error when it does not).                  *)
(***************************************************************************)
EXTENDS JourneyStages

CONSTANTS
    Journeys,     \* journey ids, each used at most once
    Slugs,        \* feature slugs: date plus name, so two journeys may share one
    Skills,       \* the stages requests may name
    NoFile,
    NotLoaded,    \* the map has no such journey
    MaxSessions,  \* bound: skill sessions opened
    MaxRestarts   \* bound: server restarts

ASSUME SkillsAssumption == Skills \subseteq Stages /\ "discovery" \in Skills
ASSUME BoundsAssumption == MaxSessions \in Nat /\ MaxRestarts \in Nat

VARIABLES
    memory,    \* the _journeys map
    file,      \* workspace/journeys/<slug>/journey.json
    sessions,  \* skill sessions, in the order they were opened; 0 is no session
    used,      \* ids handed out so far
    restarts

(***************************************************************************)
(* Observations, read by the properties only.                              *)
(***************************************************************************)
VARIABLES
    scope,     \* journeys whose owner and tenant have been set
    finished,  \* stages completed and not regressed since
    reloaded,  \* journeys the map has from a file, not from a request
    gone       \* journeys whose delete was acknowledged

vars == <<memory, file, sessions, used, restarts,
          scope, finished, reloaded, gone>>
ghosts == <<scope, finished, reloaded, gone>>

SessionIds == 0 .. MaxSessions
Stage == Skills \cup {NoStage}

Entry == [slug     : Slugs,
          skill    : Stage,
          session  : SessionIds,
          done     : SUBSET Skills,
          scoped   : BOOLEAN,
          complete : BOOLEAN]

\* The file of a journey: the object of the map as saveJourney wrote it, plus
\* the stages and currentStage that only updateStage writes.
File == [id       : Journeys,
         skill    : Stage,
         session  : SessionIds,
         done     : SUBSET Skills,
         scoped   : BOOLEAN,
         complete : BOOLEAN,
         stages   : [Skills -> {"none", "active", "complete"}],
         current  : Stage]

\* What stands for an absent entry or file is neither.
ASSUME AbsentAssumption == NotLoaded \notin Entry /\ NoFile \notin File

TypeOK ==
    /\ memory \in [Journeys -> Entry \cup {NotLoaded}]
    /\ file \in [Slugs -> File \cup {NoFile}]
    /\ sessions \in Seq([journey : Journeys, skill : Skills,
                         state : {"open", "done", "recorded", "evicted"}])
    /\ Len(sessions) <= MaxSessions
    /\ used \subseteq Journeys
    /\ restarts \in 0 .. MaxRestarts
    /\ scope \subseteq used
    /\ finished \in [Journeys -> SUBSET Skills]
    /\ reloaded \subseteq used
    /\ gone \subseteq used

Loaded == {j \in Journeys : memory[j] # NotLoaded}

Init ==
    /\ memory = [j \in Journeys |-> NotLoaded]
    /\ file = [s \in Slugs |-> NoFile]
    /\ sessions = <<>>
    /\ used = {}
    /\ restarts = 0
    /\ scope = {}
    /\ finished = [j \in Journeys |-> {}]
    /\ reloaded = {}
    /\ gone = {}

-------------------------------------------------------------------------------
(***************************************************************************)
(* The disk adapter.                                                       *)
(***************************************************************************)

NoStages == [s \in Skills |-> "none"]

\* The object of the map has neither stages nor currentStage, so saving it
\* drops what updateStage has put into the file.
saveJourney(j, m) ==
    [id |-> j, skill |-> m.skill, session |-> m.session, done |-> m.done,
     scoped |-> m.scoped, complete |-> m.complete,
     stages |-> NoStages, current |-> NoStage]

\* With status `complete' or `active'; null when there is no file.
updateStage(f, stage, status) ==
    IF f = NoFile THEN NoFile
    ELSE [f EXCEPT !.stages[stage] = status, !.current = stage]

\* Mutant: a reload without the owner and tenant fields.
loadUnscoped(f, slug) ==
    [slug |-> slug, skill |-> f.current, session |-> 0,
     done |-> {s \in Skills : f.stages[s] = "complete"},
     scoped |-> FALSE, complete |-> FALSE]

\* What loadAllFromDisk makes of a file.
loadedEntry(f, slug) ==
    [slug |-> slug, skill |-> f.current, session |-> 0,
     done |-> {s \in Skills : f.stages[s] = "complete"},
     scoped |-> f.scoped, complete |-> FALSE]

(***************************************************************************)
(* The store.  The journey is in the map and becomes m.                    *)
(***************************************************************************)

setAndSave(j, m) ==
    /\ memory' = [memory EXCEPT ![j] = m]
    /\ file' = [file EXCEPT ![m.slug] = saveJourney(j, m)]

openSession(j, skill) ==
    /\ Len(sessions) < MaxSessions
    /\ sessions' = Append(sessions,
                      [journey |-> j, skill |-> skill, state |-> "open"])

NewSession == Len(sessions) + 1

-------------------------------------------------------------------------------
(***************************************************************************)
(* Handlers.                                                               *)
(***************************************************************************)

\* A journey after createJourney and setJourneyFields with owner and tenant.
Created(slug) == [slug |-> slug, skill |-> NoStage, session |-> 0,
                  done |-> {}, scoped |-> TRUE, complete |-> FALSE]

\* POST /api/journey: createJourney, setJourneyFields(owner, tenant),
\* setActiveSession (which does not save), updateStage on the file.
handlePostJourney(j, slug, skill) ==
    /\ j \notin used
    /\ openSession(j, skill)
    /\ used' = used \cup {j}
    /\ memory' = [memory EXCEPT ![j] =
                    [Created(slug) EXCEPT !.skill = skill, !.session = NewSession]]
    /\ file' = [file EXCEPT ![slug] =
                  updateStage(saveJourney(j, Created(slug)), skill, "active")]
    /\ scope' = scope \cup {j}
    /\ UNCHANGED <<restarts, finished, reloaded, gone>>

\* The same for a new product, which goes through the reference modal first.
handlePostJourneyGrounded(j, slug) ==
    /\ j \notin used
    /\ used' = used \cup {j}
    /\ setAndSave(j, Created(slug))
    /\ scope' = scope \cup {j}
    /\ UNCHANGED <<sessions, restarts, finished, reloaded, gone>>

\* GET /api/journey/:journeyId/reference-modal/start, at any time: the skill is
\* the one chosen at creation, else discovery.
handleGetReferenceModalStart(j, skill) ==
    /\ j \in Loaded
    /\ openSession(j, skill)
    /\ memory' = [memory EXCEPT ![j].skill = skill, ![j].session = NewSession]
    /\ file' = [file EXCEPT ![memory[j].slug] = updateStage(@, skill, "active")]
    /\ UNCHANGED <<used, restarts, ghosts>>

\* The last turn of a session writes its artefact.
finishSession(i) ==
    /\ sessions[i].state = "open"
    /\ sessions' = [sessions EXCEPT ![i].state = "done"]
    /\ UNCHANGED <<memory, file, used, restarts, ghosts>>

\* The seven-day sweep of sessions.
evictSession(i) ==
    /\ sessions[i].state # "evicted"
    /\ sessions' = [sessions EXCEPT ![i].state = "evicted"]
    /\ UNCHANGED <<memory, file, used, restarts, ghosts>>

\* Mutant: the stage recorded with updateStage alone, as before the full save.
completeStageUnsaved(i) ==
    LET j == sessions[i].journey
        skill == sessions[i].skill
    IN  /\ sessions[i].state = "done"
        /\ j \in Loaded
        /\ sessions' = [sessions EXCEPT ![i].state = "recorded"]
        /\ memory' = [memory EXCEPT ![j].done = @ \cup {skill}]
        /\ file' = [file EXCEPT ![memory[j].slug] =
                      updateStage(@, skill, "complete")]
        /\ finished' = [finished EXCEPT ![j] = @ \cup {skill}]
        /\ UNCHANGED <<used, restarts, scope, reloaded, gone>>

\* The stage of a done session is recorded, by the turn that ended it or by
\* the gate-confirm that follows: updateStage, then a save over its result.
completeStage(i) ==
    LET j == sessions[i].journey
        skill == sessions[i].skill
    IN  /\ sessions[i].state = "done"
        /\ j \in Loaded
        /\ sessions' = [sessions EXCEPT ![i].state = "recorded"]
        /\ setAndSave(j, [memory[j] EXCEPT !.done = @ \cup {skill}])
        /\ finished' = [finished EXCEPT ![j] = @ \cup {skill}]
        /\ UNCHANGED <<used, restarts, scope, reloaded, gone>>

\* A turn that ends a session revising a completed stage records nothing new.
recordRevision(i) ==
    LET j == sessions[i].journey
    IN  /\ sessions[i].state = "done"
        /\ j \in Loaded
        /\ sessions[i].skill \in memory[j].done
        /\ sessions' = [sessions EXCEPT ![i].state = "recorded"]
        /\ UNCHANGED <<memory, file, used, restarts, ghosts>>

\* The end of a gate-confirm on the journey's active session: a session for the
\* next stage, or the end of the journey.  Neither reaches the file.  Story mode,
\* which repeats the last two stages for each story, is left out.
gateAdvance(j, i) ==
    LET next == getNextStage(sessions[i].skill)
    IN  /\ j \in Loaded
        /\ memory[j].session = i
        /\ sessions[i].state = "recorded"
        /\ \/ /\ next \in Skills
              /\ openSession(j, next)
              /\ memory' = [memory EXCEPT ![j].skill = next,
                                          ![j].session = NewSession]
           \/ /\ next = NoStage
              /\ ~memory[j].complete
              /\ memory' = [memory EXCEPT ![j].complete = TRUE]
              /\ UNCHANGED sessions
        /\ UNCHANGED <<file, used, restarts, ghosts>>

\* Any handler that sets fields this module does not tell apart (flags, display
\* name, side trips, reference files): the save matters.
setJourneyFields(j) ==
    /\ j \in Loaded
    /\ setAndSave(j, memory[j])
    /\ UNCHANGED <<sessions, used, restarts, ghosts>>

\* POST /api/journey/:journeyId/regress.
handlePostJourneyRegress(j, target) ==
    LET invalidated == {target} \cup getDownstreamStages(target)
    IN  /\ j \in Loaded
        /\ target \in memory[j].done
        /\ isStrictlyLaterStage(target, memory[j].skill)
        /\ setAndSave(j, [memory[j] EXCEPT !.done = @ \ invalidated,
                                           !.skill = target, !.session = 0])
        /\ finished' = [finished EXCEPT ![j] = @ \ invalidated]
        /\ UNCHANGED <<sessions, used, restarts, scope, reloaded, gone>>

-------------------------------------------------------------------------------
(***************************************************************************)
(* GET /journey/:featureSlug/resume.  In this mode the listing of journeys *)
(* IS the files, so the handler's `memJourney' is the file too; only when  *)
(* there is no file does it look at the map, and after that at             *)
(* pipeline-state.json.  An open active session is simply redirected to.   *)
(***************************************************************************)

LiveSession(i) == i # 0 /\ sessions[i].state = "open"

\* diskJourney.currentStage || 'discovery'
OrDiscovery(stage) == IF stage = NoStage THEN "discovery" ELSE stage

setActiveSession(j, skill) ==
    memory' = IF j \in Loaded
              THEN [memory EXCEPT ![j].skill = skill, ![j].session = NewSession]
              ELSE memory

resumeFromFile(slug) ==
    LET f == file[slug]
        stage == OrDiscovery(f.current)
    IN  /\ f # NoFile
        /\ ~LiveSession(f.session)
        /\ openSession(f.id, stage)
        /\ setActiveSession(f.id, stage)
        /\ file' = [file EXCEPT ![slug] = updateStage(@, stage, "active")]
        /\ UNCHANGED <<used, restarts, ghosts>>

resumeFromMap(slug, j) ==
    /\ file[slug] = NoFile
    /\ j \in Loaded
    /\ memory[j].slug = slug
    /\ ~LiveSession(memory[j].session)
    /\ openSession(j, OrDiscovery(memory[j].skill))
    /\ setActiveSession(j, OrDiscovery(memory[j].skill))
    /\ UNCHANGED <<file, used, restarts, ghosts>>

\* The stage a feature of pipeline-state.json is taken up at: the routing table
\* where it has an entry, else the stage itself.  A feature past the last stage
\* counts as at the last one; those routed to gates that are not skills
\* are left out.
backfillSkill(stage) ==
    IF stage \in {"ideate", "design", "definition-of-ready"} THEN stage
    ELSE IF stage = "benefit-metric" THEN "definition"
    ELSE getNextStage(stage)

\* backfillJourneyFromPipelineState, for a feature known to neither store.
resumeBackfilled(slug, j, stage) ==
    LET skill == backfillSkill(stage)
        done == {s \in Skills : ~isStrictlyLaterStage(stage, s)}
        m == [slug |-> slug, skill |-> skill, session |-> 0, done |-> done,
              scoped |-> FALSE, complete |-> FALSE]
    IN  /\ file[slug] = NoFile
        /\ \A k \in Loaded : memory[k].slug # slug
        /\ j \notin used
        /\ skill \in Skills
        /\ openSession(j, skill)
        /\ used' = used \cup {j}
        /\ memory' = [memory EXCEPT ![j] = [m EXCEPT !.session = NewSession]]
        /\ file' = [file EXCEPT ![slug] =
                      updateStage(saveJourney(j, m), skill, "active")]
        /\ finished' = [finished EXCEPT ![j] = done]
        /\ UNCHANGED <<restarts, scope, reloaded, gone>>

-------------------------------------------------------------------------------

\* Mutant: the delete of the map entry alone.
deleteJourneyInMemory(j) ==
    /\ j \in Loaded
    /\ memory' = [memory EXCEPT ![j] = NotLoaded]
    /\ gone' = gone \cup {j}
    /\ reloaded' = reloaded \ {j}
    /\ UNCHANGED <<file, sessions, used, restarts, scope, finished>>

\* DELETE /api/journey/:journeyId: the map entry, then the slug's directory.
deleteJourney(j) ==
    /\ j \in Loaded
    /\ memory' = [memory EXCEPT ![j] = NotLoaded]
    /\ file' = [file EXCEPT ![memory[j].slug] = NoFile]
    /\ gone' = gone \cup {j}
    /\ reloaded' = reloaded \ {j}
    /\ UNCHANGED <<sessions, used, restarts, scope, finished>>

\* The process starts again: loadAllFromDisk over an empty map.  Sessions have
\* files of their own and come back.
restart ==
    LET found == {file[s].id : s \in {t \in Slugs : file[t] # NoFile}}
        slugOf(j) == CHOOSE s \in Slugs : file[s] # NoFile /\ file[s].id = j
    IN  /\ restarts < MaxRestarts
        /\ restarts' = restarts + 1
        /\ memory' = [j \in Journeys |->
                        IF j \in found
                        THEN loadedEntry(file[slugOf(j)], slugOf(j))
                        ELSE NotLoaded]
        /\ reloaded' = found
        /\ UNCHANGED <<file, sessions, used, scope, finished, gone>>

-------------------------------------------------------------------------------

Next ==
    \/ \E j \in Journeys, slug \in Slugs, skill \in Skills \cap {"ideate", "discovery"} :
          \/ handlePostJourney(j, slug, skill)
          \/ handleGetReferenceModalStart(j, skill)
          \/ handlePostJourneyGrounded(j, slug)
    \/ \E i \in DOMAIN sessions :
          finishSession(i) \/ evictSession(i) \/ completeStage(i) \/ recordRevision(i)
    \/ \E j \in Journeys, i \in DOMAIN sessions : gateAdvance(j, i)
    \/ \E j \in Journeys : setJourneyFields(j) \/ deleteJourney(j)
    \/ \E j \in Journeys, target \in Skills : handlePostJourneyRegress(j, target)
    \/ \E slug \in Slugs : resumeFromFile(slug)
    \/ \E slug \in Slugs, j \in Journeys : resumeFromMap(slug, j)
    \/ \E slug \in Slugs, j \in Journeys, stage \in Skills :
          resumeBackfilled(slug, j, stage)
    \/ restart

Spec == Init /\ [][Next]_vars

-------------------------------------------------------------------------------
(***************************************************************************)
(* Properties.                                                             *)
(***************************************************************************)

\* Owner and tenant survive: a journey that was given them has them in the map
\* and in its file, whatever saves, stage updates and restarts came between
\* (the resume guard decides on these two records).
ScopeSurvives ==
    /\ \A j \in scope \cap Loaded : memory[j].scoped
    /\ \A s \in Slugs : file[s] # NoFile /\ file[s].id \in scope => file[s].scoped

\* The journey listing, which reads the files, shows each journey exactly the
\* completed stages the map has, until the server restarts.
ListingShowsProgress ==
    \A j \in Loaded \ reloaded :
        LET f == file[memory[j].slug]
        IN  f # NoFile /\ f.id = j => f.done = memory[j].done

\* An acknowledged delete is final: no save, resume or restart brings the
\* journey back.
DeletedStaysDeleted ==
    \A j \in gone :
        /\ j \notin Loaded
        /\ \A s \in Slugs : file[s] # NoFile => file[s].id # j

(***************************************************************************)
(* What the comments at journey.js:1754 and journey-store.js:597 promise   *)
(* and the code does not keep: TLC refutes both within a few steps.        *)
(***************************************************************************)

\* A resume goes on at the journey's current stage.
ResumeKeepsStage ==
    [][\A slug \in Slugs : resumeFromFile(slug) =>
          \A j \in Loaded :
              file[slug].id = j /\ memory[j].skill # NoStage =>
                  memory'[j].skill = memory[j].skill]_vars

\* A reload rebuilds the completed stages of every journey it loads.
CompletedSurviveRestart ==
    \A j \in reloaded \cap Loaded : finished[j] \subseteq memory[j].done
===============================================================================
