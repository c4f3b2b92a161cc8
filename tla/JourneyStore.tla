----------------------------- MODULE JourneyStore -----------------------------
(***************************************************************************)
(* The journey store of the web UI when DATABASE_URL is set: the in-memory *)
(* map every request reads and writes, the Postgres rows behind it, the    *)
(* fire-and-forget write chain between the two, the three-statement hard   *)
(* delete, and the reload at server start.                                 *)
(*                                                                         *)
(* A journey is a mutable object.  A queued save closes over the object,   *)
(* not over its value: what reaches the row is the object as it is when    *)
(* the save BEGINS.                                                        *)
(*                                                                         *)
(* A delete is accepted while the rows are still being read, and then      *)
(* undone when they are merged: the row comes back as another object.      *)
(*                                                                         *)
(* Left out: deleting a product, which deletes the rows of its journeys    *)
(* behind the store's back and leaves the map as it is.                    *)
(***************************************************************************)
EXTENDS JourneyStages, FiniteSets

CONSTANTS
    Journeys,    \* journey ids; each is used at most once, as a UUID is
    Skills,      \* the stage names requests may name
    Sessions,    \* skill-session ids
    None,        \* no row
    NoSession,   \* JavaScript's null or undefined session id
    NotDone,     \* the stage has no completedStages entry
    ChildTables, \* the tables whose rows reference a journey's row
    MaxRev,      \* bound: changes made to one journey
    MaxEarly,    \* bound: of these, before a delete the reload may undo
    MaxCrashes   \* bound: restarts of the server process

ASSUME SkillsAssumption == Skills \subseteq Stages
ASSUME SentinelAssumption ==
    /\ NoSession \notin Sessions
    /\ NotDone \notin Sessions \cup {NoSession}
ASSUME TablesAssumption == ChildTables \subseteq {"session_turns", "artefacts"}
ASSUME BoundsAssumption == {MaxRev, MaxEarly, MaxCrashes} \subseteq Nat

(***************************************************************************)
(* The fields of a journey that some property tells apart.                 *)
(*   rev       counts the changes made so far (not a field of the code),   *)
(*             those of fields that are not here among them                *)
(*   done      completedStages: for each skill, the sessionId of its first *)
(*             entry, the only one `find' and `some' ever look at          *)
(*   clarify   clarifyDone: a field outside the Postgres allowlist         *)
(***************************************************************************)
Content == [rev      : Nat,
            skill    : Skills \cup {NoStage},
            session  : Sessions \cup {NoSession},
            done     : [Skills -> Sessions \cup {NoSession, NotDone}],
            complete : BOOLEAN,
            clarify  : BOOLEAN]

ASSUME NoneAssumption == None \notin Content

VARIABLES
    server,    \* "loading": started, rows not read yet; "read": rows read, not
               \* merged yet; "up"; "blind": the read failed, serving regardless
    memory,    \* the keys of the _journeys map
    object,    \* the heap object of each journey, still held by queued saves
               \* after it left the map; Fresh once the process is gone
    pending,   \* saves of the journey's chain that have not begun
    orphan,    \* of these, the saves that hold the object a reload has
               \* replaced, and that object
    flight,    \* the values bound to the journey's INSERTs that are executing
    row,       \* the journeys table
    children,  \* the tables holding rows that reference the journey
    snapshot,  \* the rows loadAllFromPg has read
    deletion,  \* progress of the DELETE request
    used,      \* ids handed out so far
    crashes

(***************************************************************************)
(* Observations, read by the properties; an action reads one only to set   *)
(* another.                                                                *)
(***************************************************************************)
VARIABLES
    lost,       \* journeys of the map whose last settled save failed
    unsaved,    \* of these, changed in memory only since the last save began
    disturbed,  \* journeys whose delete met a child insert or a query error
    revived,    \* journeys the reload put back after a delete of them had been
                \* accepted
    gone        \* outcome of acknowledged deletes that were not undone so:
                \* "clean" when, as the row was deleted, no save of the journey
                \* was queued or executing and no reload had read the row

vars == <<server, memory, object, pending, orphan, flight, row, children,
          snapshot, deletion, used, crashes, lost, unsaved, disturbed, revived,
          gone>>

InProgress == {"turns", "artefacts", "row"}

\* Saves left in the chain that hold another object than the map does.
Orphan == [saves : Nat, object : Content]

TypeOK ==
    /\ server \in {"loading", "read", "up", "blind"}
    /\ memory \in SUBSET Journeys
    /\ object \in [Journeys -> Content]
    /\ pending \in [Journeys -> Nat]
    /\ orphan \in [Journeys -> Orphan]
    /\ flight \in [Journeys -> SUBSET Content]
    /\ row \in [Journeys -> Content \cup {None}]
    /\ children \in [Journeys -> SUBSET ChildTables]
    /\ snapshot \in [Journeys -> Content \cup {None}]
    /\ deletion \in [Journeys -> InProgress \cup {"none", "ok", "failed"}]
    /\ used \in SUBSET Journeys
    /\ crashes \in Nat
    /\ lost \in SUBSET Journeys
    /\ unsaved \in SUBSET Journeys
    /\ disturbed \in SUBSET Journeys
    /\ revived \in SUBSET Journeys
    /\ gone \in [Journeys -> {"no", "clean", "dirty"}]

\* The object literal of createJourney.
Fresh == [rev      |-> 0,
          skill    |-> NoStage,
          session  |-> NoSession,
          done     |-> [s \in Skills |-> NotDone],
          complete |-> FALSE,
          clarify  |-> FALSE]

NoOrphan == [saves |-> 0, object |-> Fresh]

\* The allowlist of the Postgres adapter: what a save writes of an object.
Sanitise(o) == [o EXCEPT !.clarify = FALSE]

Init ==
    /\ server = "loading"
    /\ memory = {}
    /\ object = [j \in Journeys |-> Fresh]
    /\ pending = [j \in Journeys |-> 0]
    /\ orphan = [j \in Journeys |-> NoOrphan]
    /\ flight = [j \in Journeys |-> {}]
    /\ row = [j \in Journeys |-> None]
    /\ children = [j \in Journeys |-> {}]
    /\ snapshot = [j \in Journeys |-> None]
    /\ deletion = [j \in Journeys |-> "none"]
    /\ used = {}
    /\ crashes = 0
    /\ lost = {}
    /\ unsaved = {}
    /\ disturbed = {}
    /\ revived = {}
    /\ gone = [j \in Journeys |-> "no"]

-------------------------------------------------------------------------------
(***************************************************************************)
(* Requests.  Every operation of the store is synchronous: it changes the  *)
(* object and queues at most one save before any other callback runs.      *)
(***************************************************************************)

pgWrite(j) ==
    /\ pending' = [pending EXCEPT ![j] = @ + 1]
    /\ UNCHANGED unsaved

\* Operations that change the object and call neither adapter.
memoryOnly(j) ==
    /\ unsaved' = unsaved \cup {j}
    /\ UNCHANGED pending

\* The journey is known and becomes o.
Change(j, o) ==
    /\ j \in memory
    /\ object[j].rev < MaxRev
    /\ object' = [object EXCEPT ![j] = [o EXCEPT !.rev = object[j].rev + 1]]
    /\ UNCHANGED <<server, memory, orphan, flight, row, children, snapshot,
                   deletion, used, crashes, lost, disturbed, revived, gone>>

createJourney(j) ==
    /\ j \notin used
    /\ used' = used \cup {j}
    /\ memory' = memory \cup {j}
    /\ object' = [object EXCEPT ![j] = Fresh]
    /\ pgWrite(j)
    /\ UNCHANGED <<server, orphan, flight, row, children, snapshot, deletion,
                   crashes, lost, disturbed, revived, gone>>

\* With { ownerId, tenantId }, as every creating handler does next.
setScope(j) ==
    /\ Change(j, object[j])
    /\ pgWrite(j)

\* With { clarifyDone: true }, when the clarify side trip returns.
setClarifyDone(j) ==
    /\ Change(j, [object[j] EXCEPT !.clarify = TRUE])
    /\ pgWrite(j)

\* Mutant: the forgotten _pgWrite.
setActiveSessionUnsaved(j, sessionId, skillName) ==
    /\ Change(j, [object[j] EXCEPT !.session = sessionId, !.skill = skillName])
    /\ UNCHANGED <<pending, unsaved>>

setActiveSession(j, sessionId, skillName) ==
    /\ Change(j, [object[j] EXCEPT !.session = sessionId, !.skill = skillName])
    /\ pgWrite(j)

completeStage(j, skillName, sessionId) ==
    /\ Change(j, [object[j] EXCEPT
                    !.done[skillName] = IF @ = NotDone THEN sessionId ELSE @])
    /\ pgWrite(j)

updateCompletedStageSessionId(j, skillName, sessionId) ==
    /\ object[j].done[skillName] # NotDone
    /\ Change(j, [object[j] EXCEPT !.done[skillName] = sessionId])
    /\ pgWrite(j)

\* Guarded, as its only caller guards it: the target is a completed stage
\* strictly before the active one.
regressToStage(j, target) ==
    LET invalidated == {target} \cup getDownstreamStages(target)
    IN  /\ object[j].done[target] # NotDone
        /\ isStrictlyLaterStage(target, object[j].skill)
        /\ Change(j, [object[j] EXCEPT
                        !.done = [s \in Skills |-> IF s \in invalidated
                                                   THEN NotDone ELSE @[s]],
                        !.skill = target,
                        !.session = NoSession])
        /\ pgWrite(j)

\* The story list and its index are not in Content: only the change counts.
setStoryList(j) ==
    /\ Change(j, object[j])
    /\ memoryOnly(j)

advanceToNextStory(j) ==
    /\ Change(j, object[j])
    /\ memoryOnly(j)

markJourneyComplete(j) ==
    /\ ~object[j].complete
    /\ Change(j, [object[j] EXCEPT !.complete = TRUE])
    /\ memoryOnly(j)

-------------------------------------------------------------------------------
(***************************************************************************)
(* The write chain of a journey: one INSERT at a time, begun when the one  *)
(* before it has settled; a rejected one is logged and forgotten.          *)
(***************************************************************************)

\* What the next save of the chain closes over.
Held(j) == IF orphan[j].saves > 0 THEN orphan[j].object ELSE object[j]

OneFewer(o) == IF o.saves > 1 THEN [o EXCEPT !.saves = o.saves - 1] ELSE NoOrphan

Begins(j, others) ==
    /\ flight' = [flight EXCEPT ![j] = others \cup {Sanitise(Held(j))}]
    /\ pending' = [pending EXCEPT ![j] = @ - 1]
    /\ orphan' = [orphan EXCEPT ![j] = OneFewer(@)]
    /\ unsaved' = unsaved \ {j}
    /\ UNCHANGED <<server, memory, object, row, children, snapshot, deletion,
                   used, crashes, lost, disturbed, revived, gone>>

\* Mutant: a save begun although none is queued.
saveStartUnqueued(j) ==
    /\ flight[j] = {}
    /\ Begins(j, {})

\* Mutant: independent writes, as before the chain was introduced.
saveStartUnchained(j) ==
    /\ pending[j] > 0
    /\ Begins(j, flight[j])

\* Mutant: one chain for all journeys.
saveStartGlobalChain(j) ==
    /\ \A k \in Journeys : flight[k] = {}
    /\ saveStartUnchained(j)

saveStart(j) ==
    /\ pending[j] > 0
    /\ flight[j] = {}
    /\ Begins(j, {})

saveCommit(j) ==
    \E q \in flight[j] :
        /\ row' = [row EXCEPT ![j] = q]
        /\ flight' = [flight EXCEPT ![j] = @ \ {q}]
        /\ lost' = lost \ {j}
        /\ UNCHANGED <<server, memory, object, pending, orphan, children,
                       snapshot, deletion, used, crashes, unsaved, disturbed,
                       revived, gone>>

\* The adapter reports an error, whether or not the database has committed.
saveFail(j) ==
    \E q \in flight[j] :
        /\ row' \in {row, [row EXCEPT ![j] = q]}
        /\ flight' = [flight EXCEPT ![j] = @ \ {q}]
        /\ lost' = lost \cup ({j} \cap memory)
        /\ UNCHANGED <<server, memory, object, pending, orphan, children,
                       snapshot, deletion, used, crashes, unsaved, disturbed,
                       revived, gone>>

\* saveArtefact and writeSessionTurns: an INSERT the foreign key on journeys
\* accepts only while the journey's row exists.  They are issued by skill
\* sessions, which know the id whether or not the map still has it.
saveChild(j, c) ==
    /\ row[j] # None
    /\ children' = [children EXCEPT ![j] = @ \cup {c}]
    /\ disturbed' = IF deletion[j] \in InProgress
                    THEN disturbed \cup {j} ELSE disturbed
    /\ UNCHANGED <<server, memory, object, pending, orphan, flight, row,
                   snapshot, deletion, used, crashes, lost, unsaved, revived,
                   gone>>

-------------------------------------------------------------------------------
(***************************************************************************)
(* DELETE /api/journey/:journeyId, at any time.  The handler answers 404   *)
(* for an id that is not in the map, so one request at most is past this   *)
(* point, unless the reload puts the journey back.  Bound: a request for   *)
(* such a journey comes after the answer to the first.                     *)
(***************************************************************************)

\* Mutant: the rows are deleted and the map entry is forgotten.
deleteJourneyRows(j) ==
    /\ j \in memory
    /\ deletion[j] \notin InProgress
    /\ server \in {"loading", "read"} => object[j].rev <= MaxEarly
    /\ deletion' = [deletion EXCEPT ![j] = "turns"]
    /\ disturbed' = disturbed \ {j}
    /\ UNCHANGED <<server, memory, object, pending, orphan, flight, row,
                   children, snapshot, used, crashes, lost, unsaved, revived,
                   gone>>

deleteJourney(j) ==
    /\ j \in memory
    /\ deletion[j] \notin InProgress
    /\ server \in {"loading", "read"} => object[j].rev <= MaxEarly
    /\ memory' = memory \ {j}
    /\ deletion' = [deletion EXCEPT ![j] = "turns"]
    /\ lost' = lost \ {j}
    /\ unsaved' = unsaved \ {j}
    /\ disturbed' = disturbed \ {j}
    /\ UNCHANGED <<server, object, pending, orphan, flight, row, children,
                   snapshot, used, crashes, revived, gone>>

\* Mutant: the delete before session_turns was known to reference journeys.
deleteTurnsForgotten(j) ==
    /\ deletion[j] = "turns"
    /\ deletion' = [deletion EXCEPT ![j] = "artefacts"]
    /\ UNCHANGED <<server, memory, object, pending, orphan, flight, row,
                   children, snapshot, used, crashes, lost, unsaved,
                   disturbed, revived, gone>>

deleteTurns(j) ==
    /\ deletion[j] = "turns"
    /\ children' = [children EXCEPT ![j] = @ \ {"session_turns"}]
    /\ deletion' = [deletion EXCEPT ![j] = "artefacts"]
    /\ UNCHANGED <<server, memory, object, pending, orphan, flight, row,
                   snapshot, used, crashes, lost, unsaved, disturbed, revived,
                   gone>>

deleteArtefacts(j) ==
    /\ deletion[j] = "artefacts"
    /\ children' = [children EXCEPT ![j] = @ \ {"artefacts"}]
    /\ deletion' = [deletion EXCEPT ![j] = "row"]
    /\ UNCHANGED <<server, memory, object, pending, orphan, flight, row,
                   snapshot, used, crashes, lost, unsaved, disturbed, revived,
                   gone>>

\* Nothing holds the journey that could write or load its row again.
NothingBehind(j) ==
    /\ pending[j] = 0
    /\ flight[j] = {}
    /\ snapshot[j] = None

\* The foreign keys refuse the last DELETE while a child row exists.
deleteRow(j) ==
    /\ deletion[j] = "row"
    /\ IF children[j] # {}
       THEN /\ deletion' = [deletion EXCEPT ![j] = "failed"]
            /\ UNCHANGED <<row, gone>>
       ELSE /\ deletion' = [deletion EXCEPT ![j] = "ok"]
            /\ row' = [row EXCEPT ![j] = None]
            /\ gone' = [gone EXCEPT ![j] =
                          IF j \in memory \cap revived THEN "no"
                          ELSE IF NothingBehind(j) THEN "clean" ELSE "dirty"]
    /\ UNCHANGED <<server, memory, object, pending, orphan, flight, children,
                   snapshot, used, crashes, lost, unsaved, disturbed,
                   revived>>

\* A statement reports an error, committed or not: the request fails where it
\* stands.
deleteError(j) ==
    /\ deletion[j] \in InProgress
    /\ \/ UNCHANGED <<row, children>>
       \/ /\ deletion[j] = "turns"
          /\ children' = [children EXCEPT ![j] = @ \ {"session_turns"}]
          /\ UNCHANGED row
       \/ /\ deletion[j] = "artefacts"
          /\ children' = [children EXCEPT ![j] = @ \ {"artefacts"}]
          /\ UNCHANGED row
       \/ /\ deletion[j] = "row"
          /\ children[j] = {}
          /\ row' = [row EXCEPT ![j] = None]
          /\ UNCHANGED children
    /\ deletion' = [deletion EXCEPT ![j] = "failed"]
    /\ disturbed' = disturbed \cup {j}
    /\ UNCHANGED <<server, memory, object, pending, orphan, flight, snapshot,
                   used, crashes, lost, unsaved, revived, gone>>

-------------------------------------------------------------------------------
(***************************************************************************)
(* The process stops: the map and the chains are gone, and each executing  *)
(* INSERT has either committed or not.                                     *)
(***************************************************************************)
crash ==
    /\ crashes < MaxCrashes
    /\ crashes' = crashes + 1
    /\ server' = "loading"
    /\ memory' = {}
    /\ object' = [j \in Journeys |-> Fresh]
    /\ pending' = [j \in Journeys |-> 0]
    /\ orphan' = [j \in Journeys |-> NoOrphan]
    /\ \E landed \in SUBSET {j \in Journeys : flight[j] # {}} :
          row' = [j \in Journeys |-> IF j \in landed
                                     THEN CHOOSE q \in flight[j] : TRUE
                                     ELSE row[j]]
    /\ flight' = [j \in Journeys |-> {}]
    /\ snapshot' = [j \in Journeys |-> None]
    /\ deletion' = [j \in Journeys |-> "none"]
    /\ lost' = {}
    /\ unsaved' = {}
    /\ disturbed' = {}
    /\ revived' = {}
    /\ UNCHANGED <<children, used, gone>>

\* loadAllFromPg, before its await ...
loadRead ==
    /\ server = "loading"
    /\ server' = "read"
    /\ snapshot' = row
    /\ UNCHANGED <<memory, object, pending, orphan, flight, row, children,
                   deletion, used, crashes, lost, unsaved, disturbed, revived,
                   gone>>

\* The journeys of the rows in loaded enter the map as new objects; saves
\* still queued for one of them hold the object it had before its delete.
Merges(loaded) ==
    LET undone == {j \in loaded \ memory : deletion[j] # "none"}
    IN  /\ server = "read"
        /\ server' = "up"
        /\ memory' = memory \cup loaded
        /\ object' = [j \in Journeys |-> IF j \in loaded THEN snapshot[j]
                                         ELSE object[j]]
        /\ orphan' = [j \in Journeys |->
                        IF j \in undone /\ pending[j] > 0
                        THEN [saves |-> pending[j], object |-> object[j]]
                        ELSE orphan[j]]
        /\ revived' = revived \cup undone
        /\ gone' = [j \in Journeys |-> IF j \in undone THEN "no" ELSE gone[j]]
        /\ snapshot' = [j \in Journeys |-> None]
        /\ UNCHANGED <<pending, flight, row, children, deletion, used, crashes,
                       lost, unsaved, disturbed>>

\* Mutant: every row read replaces what the map holds.
loadMergeAll == Merges({j \in Journeys : snapshot[j] # None})

\* ... and after it: rows of journeys already in the map are skipped.
loadMerge == Merges({j \in Journeys \ memory : snapshot[j] # None})

\* Mutant: a rejected SELECT taken for an empty table.
loadErrorIgnored ==
    /\ server = "loading"
    /\ server' = "up"
    /\ UNCHANGED <<memory, object, pending, orphan, flight, row, children,
                   snapshot, deletion, used, crashes, lost, unsaved,
                   disturbed, revived, gone>>

\* The SELECT is rejected: logged, and the server goes on with what it has.
loadError ==
    /\ server = "loading"
    /\ server' = "blind"
    /\ UNCHANGED <<memory, object, pending, orphan, flight, row, children,
                   snapshot, deletion, used, crashes, lost, unsaved,
                   disturbed, revived, gone>>

-------------------------------------------------------------------------------

Request(j) ==
    \/ createJourney(j)
    \/ setScope(j)
    \/ setClarifyDone(j)
    \/ \E skill \in Skills, sid \in Sessions : setActiveSession(j, sid, skill)
    \/ \E skill \in Skills, sid \in Sessions \cup {NoSession} :
          completeStage(j, skill, sid)
    \/ \E skill \in Skills, sid \in Sessions :
          updateCompletedStageSessionId(j, skill, sid)
    \/ \E skill \in Skills : regressToStage(j, skill)
    \/ setStoryList(j)
    \/ advanceToNextStory(j)
    \/ markJourneyComplete(j)
    \/ \E c \in ChildTables : saveChild(j, c)

Chain(j) == saveStart(j) \/ saveCommit(j) \/ saveFail(j)

Delete(j) ==
    \/ deleteJourney(j)
    \/ deleteTurns(j)
    \/ deleteArtefacts(j)
    \/ deleteRow(j)
    \/ deleteError(j)

Load == loadRead \/ loadMerge \/ loadError

Next ==
    \/ \E j \in Journeys : Request(j) \/ Chain(j) \/ Delete(j)
    \/ Load
    \/ crash

Spec == Init /\ [][Next]_vars

(***************************************************************************)
(* Fairness.  The event loop runs the callback of a settled promise, and a *)
(* query settles one way or the other; Stalled is the set of journeys      *)
(* whose INSERT may wait for ever (no statement timeout is set).  Nothing  *)
(* is assumed of users, of deletes or of crashes.                          *)
(***************************************************************************)
CONSTANT Stalled

FairSpec ==
    /\ Spec
    /\ \A j \in Journeys : WF_vars(saveStart(j))
    /\ \A j \in Journeys \ Stalled : WF_vars(saveCommit(j) \/ saveFail(j))

-------------------------------------------------------------------------------
(***************************************************************************)
(* Properties.                                                             *)
(***************************************************************************)

\* The per-journey chain of _pgWrite: an earlier write never lands after a
\* later one, whatever fails in between and across restarts, so a row is
\* never reverted (to a journey without its tenant, say).  A journey the
\* reload put back after its delete is another object, written in its turn.
WritesInOrder ==
    [][\A j \in Journeys \ revived :
          row[j] # None /\ row'[j] # None => row[j].rev <= row'[j].rev]_vars

\* The map a request reads is never older than the row behind it: the merge
\* of loadAllFromPg, which runs after an await while requests are served,
\* does not put an older version back, unless a delete had been accepted that
\* it undoes.
MemoryNeverBehindRow ==
    \A j \in Journeys \ revived : j \in memory /\ row[j] # None =>
        row[j].rev <= object[j].rev

\* When the chain of a journey has drained, the row is the journey, unless the
\* last save failed or the last changes went through one of the operations
\* that never save (story list, story index, completion), or the reload undid
\* its delete.
QuiescentRowMatches ==
    \A j \in memory \ revived :
        /\ pending[j] = 0
        /\ flight[j] = {}
        /\ j \notin lost
        /\ j \notin unsaved
        => row[j] = Sanitise(object[j])

\* A server whose load succeeded can resolve every stored journey, except one
\* whose delete it has accepted.
NoUnreachableRow ==
    \A j \in Journeys :
        server = "up" /\ row[j] # None /\ deletion[j] = "none" => j \in memory

\* The three DELETEs run children first, so the foreign keys stop a delete only
\* when an insert slipped in between them or a statement was rejected.
DeleteFailsOnlyIfDisturbed ==
    \A j \in Journeys : deletion[j] = "failed" => j \in disturbed

\* An acknowledged delete that found no save queued or executing, and no reload
\* about to merge the row, is final: the journey is in neither store again,
\* also after restarts.
CleanDeleteIsFinal ==
    \A j \in Journeys : gone[j] = "clean" =>
        row[j] = None /\ j \notin memory /\ children[j] = {}

\* What the delete story promises of every acknowledged delete: the journey is
\* "no longer resolvable afterward"; those the reload undid are not counted.
DeletedStaysDeleted ==
    \A j \in Journeys : gone[j] # "no" => j \notin memory

\* The write-behind store that requests are served from.
Store == INSTANCE WriteBehind WITH
    Versions <- Content,
    First <- Fresh,
    known <- used,
    live <- memory,
    version <- object,
    owed <- {j \in Journeys : pending[j] > 0},
    writing <- flight,
    stored <- row,
    deleting <- {j \in Journeys : deletion[j] \in InProgress},
    early <- {j \in Journeys : server \in {"loading", "read"}
                               /\ deletion[j] # "none"},
    undone <- revived,
    ready <- server \in {"up", "blind"}

\* The chains, the three statements of a delete and the two halves of the
\* reload implement it: a reload that requests overtake looks as if it had
\* happened at the merge, a delete as if at its answer, and a row is a version
\* the journey had, written alone and never after a later one.
ImplementsWriteBehind == Store!Spec

\* A journey that is in neither store, with nothing queued, executing or being
\* deleted, and not deleted under a reload, is gone for good, however its
\* delete ended: no later step, reload or restart brings it back.
DeparturesAreFinal == Store!DeparturesAreFinal

\* Every queued save is eventually begun, whatever earlier saves of the journey
\* did and whatever the chains of the other journeys are waiting for.
ChainDrains ==
    \A j \in Journeys \ Stalled : (pending[j] > 0) ~> (pending[j] = 0)
===============================================================================
