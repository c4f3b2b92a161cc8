------------------------------- MODULE SkillTurn -------------------------------
(***************************************************************************)
(* The turns of one skill session that belongs to a journey: the streamed  *)
(* endpoint the chat page calls, the JSON endpoint automation calls, the   *)
(* in-flight guard between requests, the charge, the completion of the     *)
(* stage when a turn produces the artefact or when gate-confirm finds it   *)
(* not completed, and the copies a restarted server restores from.         *)
(*                                                                         *)
(* A session is a mutable object: a request keeps the object it looked up  *)
(* across its awaits, whatever the store holds by then.  An object is      *)
(* named by the request that restored it, or Boot.                         *)
(*                                                                         *)
(* Abstracted: a turn is its role and the request it belongs to, an        *)
(* artefact is the request whose reply held it (an artefact streamed over  *)
(* several replies is that of the last), and a Redis write takes effect    *)
(* at once or never.  Completed stages survive a restart: how is           *)
(* JourneyStore's subject.  Left out: canvas, condition and assumption     *)
(* markers, git commits, metrics, the eviction of idle sessions, and what  *)
(* gate-confirm does once the stage is complete (StageFlow's subject).     *)
(***************************************************************************)
EXTENDS Naturals, Sequences, FiniteSets

CONSTANTS
    Requests,    \* HTTP requests, numbered in the order they arrive
    Attempts,    \* attempt ids the chat page makes up, one per logical turn
    NoAttempt,   \* a request that carries no attempt id
    Boot,        \* the object a server start loads from disk
    Nobody,      \* no object, no session copy, no artefact
    Earlier,     \* the artefact a reopened stage was completed with
    MaxCrashes   \* bound: restarts of the server process

ASSUME RequestsAssumption == Requests \subseteq Nat
ASSUME NamesAssumption ==
    /\ NoAttempt \notin Attempts
    /\ {Boot, Nobody, Earlier} \cap Requests = {}
    /\ Boot # Nobody /\ Nobody # Earlier

Objects == Requests \cup {Boot}
Artefacts == Requests \cup {Nobody, Earlier}
Turns == Seq([role : {"user", "assistant"}, by : Objects])

\* _lastAttempt: nothing yet, or an attempt and what is known of it.
Remembering ==
    [id : {NoAttempt}, status : {"none"}]
      \cup [id : Attempts, status : {"in-flight", "stale", "complete"}]

Session == [turns     : Turns,
            done      : BOOLEAN,
            content   : Artefacts,
            stageDone : BOOLEAN,       \* _stageDone
            step1     : BOOLEAN,       \* has a precomputedStep1 summary
            last      : Remembering]

ASSUME CopyAssumption == Nobody \notin Session

Streaming == {"model", "commit", "hook"}
Json == {"body", "executor"}
Confirming == {"confirm save", "confirm commit"}
Working == Streaming \cup Json \cup Confirming

VARIABLES
    current,   \* the session store's entry: an object or Nobody
    heap,      \* the session objects
    disk,      \* the session's file
    redis,     \* its compact copy
    busy,      \* the journey's turnInProgress
    active,    \* the session is the journey's active one, not a reopened one
    entries,   \* completedStages entries of this stage
    file,      \* the artefact in the working tree
    row,       \* the artefact's Postgres row
    saves,     \* saveArtefact calls that have not settled
    req,       \* the requests' progress
    crashes

(***************************************************************************)
(* Observations.                                                           *)
(***************************************************************************)
VARIABLES
    billed,      \* requests whose charge was applied
    forgotten,   \* attempts the session no longer vouches for
    overran,     \* a guard stopped covering a turn still running
    disturbed,   \* two requests worked on the session at once, a restart
                 \* interrupted one, or a write nobody waits for failed
    revised,     \* the session has produced a second artefact
    late,        \* requests that had found the stage open when another
                 \* request completed it
    astray       \* a second restore replaced the session, or Redis kept a copy
                 \* it was told to delete

sessionVars == <<current, heap, disk, redis>>
stageVars == <<busy, active, entries, file, row, saves>>
onceVars == <<late, astray>>
ghostVars == <<billed, forgotten, overran, disturbed, revised, onceVars>>
vars == <<current, heap, disk, redis, busy, active, entries, file, row, saves,
          req, crashes, billed, forgotten, overran, disturbed, revised, late, astray>>

TypeOK ==
    /\ current \in Objects \cup {Nobody}
    /\ heap \in [Objects -> Session]
    /\ disk \in Session \cup {Nobody}
    /\ redis \in Session \cup {Nobody}
    /\ busy \in BOOLEAN
    /\ active \in BOOLEAN
    /\ entries \in Nat
    /\ file \in Artefacts
    /\ row \in Artefacts
    /\ saves \in SUBSET Artefacts
    /\ req \in [Requests ->
                  [pc  : {"unsent", "restoring", "restored", "ended",
                          "unsaved"} \cup Working,
                   obj : Objects,
                   id  : Attempts \cup {NoAttempt},
                   art : Artefacts]]        \* what it produced, or confirms
    /\ crashes \in Nat
    /\ billed \in SUBSET Requests
    /\ forgotten \in SUBSET Attempts
    /\ overran \in BOOLEAN
    /\ disturbed \in BOOLEAN
    /\ revised \in BOOLEAN
    /\ late \in SUBSET Requests
    /\ astray \in BOOLEAN

Turn(role, r) == [role |-> role, by |-> r]

NoGuard == [id |-> NoAttempt, status |-> "none"]

\* Mutant: a session whose done flag is left undefined.
RegisteredUnset(reopened, step1) ==
    [turns |-> <<>>, done |-> Nobody, content |-> Nobody,
     stageDone |-> FALSE, step1 |-> step1, last |-> NoGuard]

\* A registered session; a stage that is reopened already has its entry.
Registered(reopened, step1) ==
    [turns |-> <<>>, done |-> FALSE,
     content |-> IF reopened THEN Earlier ELSE Nobody,
     stageDone |-> FALSE, step1 |-> step1, last |-> NoGuard]

\* The session was just registered, or has had its opening turn and the server
\* has since moved to a new machine.
Init ==
    /\ \E reopened, step1, moved \in BOOLEAN :
          LET new == Registered(reopened, step1)
          IN  /\ heap = [o \in Objects |-> new]
              /\ current = IF moved THEN Nobody ELSE Boot
              /\ redis = IF moved
                         THEN [new EXCEPT !.turns = <<Turn("assistant", Boot)>>]
                         ELSE Nobody
              /\ crashes = IF moved THEN 1 ELSE 0
              /\ entries = IF reopened THEN 1 ELSE 0
              /\ active = ~reopened
              /\ file = IF reopened /\ ~moved THEN Earlier ELSE Nobody
              /\ row = IF reopened THEN Earlier ELSE Nobody
    /\ disk = Nobody
    /\ busy = FALSE
    /\ saves = {}
    /\ req = [r \in Requests |-> [pc |-> "unsent", obj |-> Boot,
                                  id |-> NoAttempt, art |-> Nobody]]
    /\ billed = {}
    /\ forgotten = {}
    /\ overran = FALSE
    /\ disturbed = FALSE
    /\ revised = FALSE
    /\ late = {}
    /\ astray = FALSE

Last(s) == s[Len(s)]
Front(s) == SubSeq(s, 1, Len(s) - 1)

Workers(o) == {r \in Requests : req[r].pc \in Working /\ req[r].obj = o}

\* The request r of object o moves to pc, and the object becomes s.
Step(r, pc, s) ==
    /\ req' = [req EXCEPT ![r].pc = pc]
    /\ heap' = [heap EXCEPT ![req[r].obj] = s]

\* The request is answered; "unsaved" when its artefact could not be stored.
EndAs(r, pc) ==
    req' = [req EXCEPT ![r].pc = pc, ![r].obj = Boot, ![r].art = Nobody]
End(r) == EndAs(r, "ended")

-------------------------------------------------------------------------------
(***************************************************************************)
(* _getSessionOrRestore.  A session in the store is in hand at once.       *)
(***************************************************************************)
Arrives(r) ==
    /\ req[r].pc = "unsent"
    /\ \A q \in Requests : q < r => req[q].pc # "unsent"

Restorable == redis # Nobody /\ ~redis.done

\* The request has the session o in hand: found in the store, or restored.
Holds(r, o) ==
    \/ Arrives(r) /\ o = current /\ o # Nobody
    \/ req[r].pc = "restored" /\ o = req[r].obj

missing(r) ==
    /\ Arrives(r)
    /\ current = Nobody
    /\ IF Restorable THEN req' = [req EXCEPT ![r].pc = "restoring"]
       ELSE End(r)
    /\ UNCHANGED <<sessionVars, stageVars, crashes, ghostVars>>

\* registerHtmlSession makes a new object and mergeRedisSessionData fills it,
\* also when another request has restored the session in the meantime.
restore(r) ==
    /\ req[r].pc = "restoring"
    /\ redis # Nobody
    /\ heap' = [heap EXCEPT ![r] = [redis EXCEPT !.step1 = heap[Boot].step1]]
    /\ current' = r
    /\ req' = [req EXCEPT ![r].pc = "restored", ![r].obj = r]
    /\ disturbed' = (disturbed \/ current # Nobody)
    /\ overran' = (overran \/ current # Nobody)
    /\ forgotten' = IF current # Nobody THEN Attempts ELSE forgotten
    /\ astray' = (astray \/ current # Nobody)
    /\ UNCHANGED <<disk, redis, stageVars, crashes, billed, revised, late>>

\* Two concurrent restores: the copy was deleted by the turn of the first.
restoreGone(r) ==
    /\ req[r].pc = "restoring"
    /\ redis = Nobody
    /\ End(r)
    /\ UNCHANGED <<sessionVars, stageVars, crashes, ghostVars>>

-------------------------------------------------------------------------------
(***************************************************************************)
(* handlePostTurnStreamHtml up to the model call, one synchronous block:   *)
(* the attempt is remembered as complete; or some attempt is in flight; or *)
(* the turn is accepted, and then is a no-op, or is served the             *)
(* precomputed summary, or goes to the model.                              *)
(***************************************************************************)
\* Mutant: a finished attempt runs again.
RememberedNever(s, a) == FALSE

Remembered(s, a) == a # NoAttempt /\ s.last = [id |-> a, status |-> "complete"]

\* Mutant: the guard before it was broadened to every attempt.
InFlightSameAttempt(s, a) == s.last = [id |-> a, status |-> "in-flight"]

InFlight(s, a) == s.last.status = "in-flight"

Guard(s, a) == IF a = NoAttempt THEN s
               ELSE [s EXCEPT !.last = [id |-> a, status |-> "in-flight"]]

\* The attempt the session remembered until now is forgotten.
Supersedes(o, a) ==
    LET old == heap[o].last.id
    IN  forgotten' = IF a \in {NoAttempt, old} THEN forgotten
                     ELSE forgotten \cup ({old} \cap Attempts)

resumed(r, o, a) ==
    /\ Holds(r, o)
    /\ Remembered(heap[o], a)
    /\ End(r)
    /\ UNCHANGED <<sessionVars, stageVars, crashes, ghostVars>>

refused(r, o, a) ==
    /\ Holds(r, o)
    /\ ~Remembered(heap[o], a)
    /\ InFlight(heap[o], a)
    /\ End(r)
    /\ UNCHANGED <<sessionVars, stageVars, crashes, ghostVars>>

Accepted(r, o, a) ==
    /\ Holds(r, o)
    /\ ~Remembered(heap[o], a)
    /\ ~InFlight(heap[o], a)
    /\ Supersedes(o, a)

\* __init__ on a finished session: nothing runs, and the guard stays in flight.
initOnDone(r, o, a) ==
    /\ Accepted(r, o, a)
    /\ heap[o].done
    /\ End(r)
    /\ heap' = [heap EXCEPT ![o] = Guard(@, a)]
    /\ UNCHANGED <<current, disk, redis, stageVars, crashes, billed, overran,
                   disturbed, revised, onceVars>>

Unopened(s) == ~s.done /\ s.step1 /\ s.turns = <<>>

\* __init__ on a session with a summary: no model call.
initPrecomputed(r, o, a) ==
    /\ Accepted(r, o, a)
    /\ Unopened(heap[o])
    /\ End(r)
    /\ heap' = [heap EXCEPT ![o].turns = <<Turn("assistant", r)>>,
                            ![o].last = IF a = NoAttempt THEN @
                                        ELSE [id |-> a, status |-> "complete"]]
    /\ UNCHANGED <<current, disk, redis, stageVars, crashes, billed, overran,
                   disturbed, revised, onceVars>>

\* The request r begins to work on object o.
Enter(r, o) == disturbed' = (disturbed \/ Workers(o) \ {r} # {})

\* A turn for the model.  Only an opening __init__ adds no user turn.
streamTurn(r, o, a, init) ==
    LET s == Guard(heap[o], a)
    IN  /\ Accepted(r, o, a)
        /\ init => ~s.done /\ ~Unopened(s)
        /\ req' = [req EXCEPT ![r].pc = "model", ![r].obj = o, ![r].id = a]
        /\ heap' = [heap EXCEPT ![o] =
                      IF init /\ s.turns = <<>> THEN s
                      ELSE [s EXCEPT !.turns = Append(@, Turn("user", r))]]
        /\ Enter(r, o)
        /\ UNCHANGED <<current, disk, redis, stageVars, crashes, billed, overran,
                       revised, onceVars>>

-------------------------------------------------------------------------------
(***************************************************************************)
(* The model answers.                                                      *)
(***************************************************************************)

\* Mutant: the user turn of a failed call stays in the history.
modelErrorDangling(r) ==
    /\ req[r].pc = "model"
    /\ End(r)
    /\ UNCHANGED <<sessionVars, stageVars, crashes, ghostVars>>

\* The call failed twice, or after its first chunk.  The guard stays in flight.
modelError(r) ==
    LET s == heap[req[r].obj]
    IN  /\ req[r].pc = "model"
        /\ End(r)
        /\ heap' = [heap EXCEPT ![req[r].obj].turns =
                      IF @ # <<>> /\ Last(@).role = "user"
                      THEN Front(@) ELSE @]
        /\ UNCHANGED <<current, disk, redis, stageVars, crashes, ghostVars>>

\* The reply is empty: the last turn goes, whatever it is.
modelEmpty(r) ==
    /\ req[r].pc = "model"
    /\ End(r)
    /\ heap' = [heap EXCEPT ![req[r].obj].turns =
                  IF @ # <<>> THEN Front(@) ELSE @]
    /\ UNCHANGED <<current, disk, redis, stageVars, crashes, ghostVars>>

-------------------------------------------------------------------------------
(***************************************************************************)
(* The model replies: the charge, whose errors are swallowed; then, for an *)
(* artefact, the file, and for the session's first one the commit, the     *)
(* completed stage and the row.  The charge is awaited, but nothing else   *)
(* reads or writes what it touches: it is one step with what follows.      *)
(***************************************************************************)

\* adjustBalance is applied, or fails and is forgotten.  Only charges of named
\* attempts are told apart.
Charge(r) == \/ UNCHANGED billed
             \/ req[r].id # NoAttempt /\ billed' = billed \cup {r}

Produced(s, r) == [s EXCEPT !.done = TRUE, !.content = r]

Produce(r) == revised' = (revised \/ heap[req[r].obj].content \in Requests)

\* The synchronous tail of a streamed turn, entered with the object at s: the
\* assistant turn, both copies as they are while the attempt is still in
\* flight, and only then the attempt's completion.
Finish(r, s, done) ==
    LET a      == req[r].id
        answer == [s EXCEPT !.turns = Append(@, Turn("assistant", r))]
    IN  /\ End(r)
        /\ heap' = [heap EXCEPT ![req[r].obj] =
                      IF a = NoAttempt THEN answer
                      ELSE [answer EXCEPT !.last = [id |-> a,
                                                    status |-> "complete"]]]
        /\ disk' = answer
        /\ \/ /\ redis' = IF done THEN Nobody ELSE answer
              /\ UNCHANGED <<disturbed, astray>>
           \/ /\ disturbed' = TRUE
              /\ astray' = (astray \/ done)
              /\ UNCHANGED redis
        /\ forgotten' = IF a \in {NoAttempt, s.last.id} THEN forgotten
                        ELSE forgotten \cup ({s.last.id} \cap Attempts)
        /\ UNCHANGED <<current, crashes>>

\* No artefact: the turn is over.
replyText(r) ==
    /\ req[r].pc = "model"
    /\ Charge(r)
    /\ Finish(r, heap[req[r].obj], FALSE)
    /\ UNCHANGED <<stageVars, overran, revised, late>>

\* The file cannot be written: the turn ends there, and its user turn stays.
replyUnsaved(r) ==
    /\ req[r].pc = "model"
    /\ Charge(r)
    /\ Produce(r)
    /\ EndAs(r, "unsaved")
    /\ heap' = [heap EXCEPT ![req[r].obj] = Produced(@, r)]
    /\ UNCHANGED <<current, disk, redis, stageVars, crashes, forgotten,
                   overran, disturbed, onceVars>>

\* The session's first artefact on disk.  What happens next depends on the
\* stage's completedStages entry, looked for before any await.
replyFirst(r) ==
    LET s == Produced(heap[req[r].obj], r)
    IN  /\ req[r].pc = "model"
        /\ ~s.stageDone
        /\ Charge(r)
        /\ Produce(r)
        /\ file' = r
        /\ IF entries = 0 THEN Step(r, "commit", s)
           ELSE Step(r, "hook", [s EXCEPT !.stageDone = TRUE])
        /\ UNCHANGED <<current, disk, redis, busy, active, entries, row, saves,
                       crashes, forgotten, overran, disturbed, onceVars>>

\* A further artefact of the same session: the file, and nothing else.
replyAgain(r) ==
    LET s == Produced(heap[req[r].obj], r)
    IN  /\ req[r].pc = "model"
        /\ s.stageDone
        /\ Charge(r)
        /\ Produce(r)
        /\ file' = r
        /\ Finish(r, s, TRUE)
        /\ UNCHANGED <<busy, active, entries, row, saves, overran, late>>

\* The connected repository refuses the commit: the stage stays open.
commitFails(r) ==
    /\ req[r].pc = "commit"
    /\ EndAs(r, "unsaved")
    /\ UNCHANGED <<sessionVars, stageVars, crashes, ghostVars>>

\* The request r completes the stage, which others have found open.
Overtakes(r) ==
    late' = late \cup {q \in Requests \ {r} : req[q].pc \in {"commit", "confirm commit"}}

\* Committed, or no repository is connected.
commitEnds(r) ==
    LET s == heap[req[r].obj]
    IN  /\ req[r].pc = "commit"
        /\ entries' = entries + 1
        /\ saves' = saves \cup {s.content}
        /\ Finish(r, [s EXCEPT !.stageDone = TRUE], TRUE)
        /\ Overtakes(r)
        /\ UNCHANGED <<busy, active, file, row, billed, overran, revised>>

\* Mutant: the save belongs to the first completion only.
hookEndsUnsaved(r) ==
    /\ req[r].pc = "hook"
    /\ Finish(r, heap[req[r].obj], TRUE)
    /\ UNCHANGED <<stageVars, billed, overran, revised, late>>

\* The materiality hook has answered or failed.
hookEnds(r) ==
    LET s == heap[req[r].obj]
    IN  /\ req[r].pc = "hook"
        /\ saves' = saves \cup {s.content}
        /\ Finish(r, s, TRUE)
        /\ UNCHANGED <<busy, active, entries, file, row, billed, overran,
                       revised, late>>

\* A saveArtefact settles.
saveSettles(c) ==
    /\ c \in saves
    /\ saves' = saves \ {c}
    /\ \/ row' = c /\ UNCHANGED disturbed
       \/ disturbed' = TRUE /\ UNCHANGED row
    /\ UNCHANGED <<sessionVars, busy, active, entries, file, req, crashes,
                   billed, forgotten, overran, revised, onceVars>>

-------------------------------------------------------------------------------
(***************************************************************************)
(* POST .../turn.  The flag on the journey is taken before the body is     *)
(* awaited and dropped when the executor has answered.                     *)
(***************************************************************************)
jsonBusy(r, o) ==
    /\ Holds(r, o)
    /\ busy
    /\ End(r)
    /\ UNCHANGED <<sessionVars, stageVars, crashes, ghostVars>>

\* Mutant: the flag is not taken.
jsonArriveUnflagged(r, o) ==
    /\ Holds(r, o)
    /\ ~busy
    /\ req' = [req EXCEPT ![r].pc = "body", ![r].obj = o]
    /\ Enter(r, o)
    /\ UNCHANGED <<sessionVars, stageVars, crashes, billed, forgotten, overran,
                   revised, onceVars>>

jsonArrive(r, o) ==
    /\ Holds(r, o)
    /\ ~busy
    /\ busy' = TRUE
    /\ req' = [req EXCEPT ![r].pc = "body", ![r].obj = o]
    /\ Enter(r, o)
    /\ UNCHANGED <<sessionVars, active, entries, file, row, saves, crashes,
                   billed, forgotten, overran, revised, onceVars>>

\* htmlSubmitTurn looks the session up again.
jsonBody(r) ==
    /\ req[r].pc = "body"
    /\ req' = [req EXCEPT ![r].pc = "executor", ![r].obj = current]
    /\ heap' = [heap EXCEPT ![current].turns = Append(@, Turn("user", r))]
    /\ Enter(r, current)
    /\ UNCHANGED <<current, disk, redis, stageVars, crashes, billed, forgotten,
                   overran, revised, onceVars>>

\* __init__ on a finished session is answered without the executor, and is
\* charged all the same.
jsonInitOnDone(r) ==
    /\ req[r].pc = "body"
    /\ heap[current].done
    /\ End(r)
    /\ busy' = FALSE
    /\ Charge(r)
    /\ UNCHANGED <<sessionVars, active, entries, file, row, saves, crashes,
                   forgotten, overran, disturbed, revised, onceVars>>

\* Mutant: the flag is dropped after a reply only, not in a finally.
jsonReplyHolds(r, done) ==
    /\ req[r].pc = "executor"
    /\ End(r)
    /\ UNCHANGED <<sessionVars, stageVars, crashes, ghostVars>>

\* A reply, or the empty string when the executor failed, charged either way.
\* An artefact ends the session but completes no stage, and its file is left to
\* gate-confirm.
jsonReply(r, done) ==
    LET old == heap[req[r].obj]
        new == IF done THEN Produced(old, r) ELSE old
        s   == [new EXCEPT !.turns = Append(@, Turn("assistant", r))]
    IN  /\ req[r].pc = "executor"
        /\ End(r)
        /\ heap' = [heap EXCEPT ![req[r].obj] = s]
        /\ disk' = s
        /\ busy' = FALSE
        /\ Charge(r)
        /\ IF done THEN Produce(r) ELSE UNCHANGED revised
        /\ UNCHANGED <<current, redis, active, entries, file, row, saves,
                       crashes, forgotten, overran, disturbed, onceVars>>

-------------------------------------------------------------------------------
(***************************************************************************)
(* Gate-confirm, as far as it completes the stage: the file if there is    *)
(* none, the row, and unless a turn has done so, the commit and the        *)
(* completed stage.                                                        *)
(***************************************************************************)
confirm(r) ==
    LET s == heap[current]
    IN  /\ Arrives(r)
        /\ active
        /\ current # Nobody
        /\ s.done
        /\ req' = [req EXCEPT ![r].pc = "confirm save", ![r].obj = current,
                              ![r].art = s.content]
        /\ file' = IF file = Nobody THEN s.content ELSE file
        /\ saves' = saves \cup {s.content}
        /\ Enter(r, current)
        /\ UNCHANGED <<sessionVars, busy, active, entries, row, crashes, billed,
                       forgotten, overran, revised, onceVars>>

\* Mutant: a confirm that does not look at _stageDone.
confirmSavedAgain(r) ==
    /\ req[r].pc = "confirm save"
    /\ req[r].art \notin saves
    /\ req' = [req EXCEPT ![r].pc = "confirm commit"]
    /\ UNCHANGED <<sessionVars, stageVars, crashes, ghostVars>>

\* The awaited save has settled.  A stage that is complete already only moves
\* the journey on to another session.
confirmSaved(r) ==
    /\ req[r].pc = "confirm save"
    /\ req[r].art \notin saves
    /\ IF heap[req[r].obj].stageDone
       THEN End(r) /\ active' = FALSE
       ELSE req' = [req EXCEPT ![r].pc = "confirm commit"] /\ UNCHANGED active
    /\ UNCHANGED <<sessionVars, busy, entries, file, row, saves, crashes,
                   ghostVars>>

confirmFails(r) ==
    /\ req[r].pc = "confirm commit"
    /\ End(r)
    /\ UNCHANGED <<sessionVars, stageVars, crashes, ghostVars>>

confirmCompletes(r) ==
    /\ req[r].pc = "confirm commit"
    /\ End(r)
    /\ heap' = [heap EXCEPT ![req[r].obj].stageDone = TRUE]
    /\ entries' = entries + 1
    /\ active' = FALSE
    /\ Overtakes(r)
    /\ UNCHANGED <<current, disk, redis, busy, file, row, saves, crashes, billed,
                   forgotten, overran, disturbed, revised, astray>>

-------------------------------------------------------------------------------
(***************************************************************************)
(* Sixty seconds pass, and the server restarts: in place, with the session *)
(* file still there, or on a new machine, with an empty disk.  Bound: both *)
(* happen only while a request is still to come or under way.              *)
(***************************************************************************)
Ongoing == \E r \in Requests : req[r].pc \notin {"ended", "unsaved"}

expire(o) ==
    /\ Ongoing
    /\ o = current \/ Workers(o) # {}
    /\ heap[o].last.status = "in-flight"
    /\ heap' = [heap EXCEPT ![o].last.status = "stale"]
    /\ forgotten' = forgotten \cup {heap[o].last.id}
    /\ overran' = (overran \/ \E r \in Workers(o) :
                                 /\ req[r].pc \in Streaming
                                 /\ req[r].id = heap[o].last.id)
    /\ UNCHANGED <<current, disk, redis, stageVars, req, crashes, billed,
                   disturbed, revised, onceVars>>

\* The attempt a copy of the session remembers.
Remembers(s) == IF s = Nobody \/ s.last.status = "stale" THEN {} ELSE {s.last.id}

restart(wiped) ==
    LET copy == IF wiped THEN Nobody ELSE disk
        goesOn == IF copy = Nobody THEN redis ELSE copy
        interrupted == {r \in Requests :
                          req[r].pc \notin {"unsent", "ended", "unsaved"}}
    IN  /\ Ongoing
        /\ crashes < MaxCrashes
        /\ crashes' = crashes + 1
        /\ disk' = copy
        /\ file' = IF wiped THEN Nobody ELSE file
        /\ current' = IF copy = Nobody THEN Nobody ELSE Boot
        /\ heap' = [heap EXCEPT ![Boot] = IF copy = Nobody THEN @ ELSE copy]
        /\ busy' = FALSE
        /\ row' \in saves \cup {row}
        /\ saves' = {}
        /\ req' = [r \in Requests |->
                     IF r \in interrupted
                     THEN [req[r] EXCEPT !.pc = "ended", !.obj = Boot,
                                         !.art = Nobody]
                     ELSE req[r]]
        /\ forgotten' = forgotten \cup (Attempts \ Remembers(goesOn))
        /\ disturbed' = (disturbed \/ interrupted # {} \/ saves # {})
        /\ UNCHANGED <<redis, active, entries, billed, overran, revised, onceVars>>

Stream(r, o) ==
    \E a \in Attempts \cup {NoAttempt} :
        \/ resumed(r, o, a)
        \/ refused(r, o, a)
        \/ initOnDone(r, o, a)
        \/ initPrecomputed(r, o, a)
        \/ \E init \in BOOLEAN : streamTurn(r, o, a, init)

Model(r) ==
    \/ modelError(r)
    \/ modelEmpty(r)
    \/ replyText(r)
    \/ replyUnsaved(r)
    \/ replyFirst(r)
    \/ replyAgain(r)
    \/ commitFails(r)
    \/ commitEnds(r)
    \/ hookEnds(r)

JsonTurn(r) ==
    \/ jsonBody(r)
    \/ jsonInitOnDone(r)
    \/ \E done \in BOOLEAN : jsonReply(r, done)

Confirm(r) ==
    \/ confirm(r)
    \/ confirmSaved(r)
    \/ confirmFails(r)
    \/ confirmCompletes(r)

Next ==
    \/ \E r \in Requests :
          \/ missing(r)
          \/ restore(r)
          \/ restoreGone(r)
          \/ \E o \in Objects : Stream(r, o) \/ jsonBusy(r, o) \/ jsonArrive(r, o)
          \/ Model(r)
          \/ JsonTurn(r)
          \/ Confirm(r)
    \/ \E c \in Artefacts : saveSettles(c)
    \/ \E o \in Objects : expire(o)
    \/ \E wiped \in BOOLEAN : restart(wiped)

\* A JSON turn under way goes on: its body arrives or its connection breaks,
\* which ends the wait as well, and the executor answers or fails.
Fairness == \A r \in Requests : WF_vars(JsonTurn(r))

Spec == Init /\ [][Next]_vars /\ Fairness

-------------------------------------------------------------------------------
(***************************************************************************)
(* The in-flight guard covers a named streamed turn for as long as it      *)
(* runs: two of them run at once only after one has run past the guard's   *)
(* sixty seconds, or two requests restored the session side by side.       *)
(***************************************************************************)
NamedTurnsExclusive ==
    ~overran =>
        \A r, q \in Requests :
            (/\ req[r].pc \in Streaming /\ req[r].id # NoAttempt
             /\ req[q].pc \in Streaming /\ req[q].id # NoAttempt) => r = q

(***************************************************************************)
(* A retry of an attempt is never billed on top of it, also after restarts *)
(* and restores, as long as the session remembers the attempt: until sixty *)
(* seconds have passed over a turn without completion, another attempt was *)
(* accepted, a second restore replaced the session, or a restart found a   *)
(* copy that does not hold the attempt.                                    *)
(***************************************************************************)
BilledOnce ==
    \A a \in Attempts \ forgotten :
        \A r, q \in billed : req[r].id = a /\ req[q].id = a => r = q

(***************************************************************************)
(* The history alternates whatever fails, in the session and in both of    *)
(* its copies: the turn after a user turn is the answer to it, unless that *)
(* request ended with its artefact unsaved, which leaves the user turn     *)
(* behind; as long as requests do not overlap, no restart interrupts one,  *)
(* and no background write fails.                                          *)
(***************************************************************************)
Versions == ({disk, redis} \cup {heap[o] : o \in {current} \ {Nobody}}) \ {Nobody}

HistoryAlternates ==
    disturbed \/
    \A s \in Versions :
        \A i \in 1..Len(s.turns) - 1 :
            s.turns[i].role = "user" =>
                \/ s.turns[i + 1] = Turn("assistant", s.turns[i].by)
                \/ req[s.turns[i].by].pc = "unsaved"

(***************************************************************************)
(* However a stage is completed, by a turn or by gate-confirm, first time  *)
(* or revision, it has one completedStages entry: a further one comes only *)
(* from a request that had found the stage open before another completed   *)
(* it and was committing since (skills.js:5799, journey.js:2673), or after *)
(* the session was replaced by a second restore or restored from a copy    *)
(* that Redis was told to delete.                                          *)
(***************************************************************************)
CompletedOnce ==
    [][entries' > entries =>
          \/ entries = 0
          \/ astray
          \/ \E r \in late : req'[r].pc # req[r].pc]_vars

(***************************************************************************)
(* Once the stage is done and nothing is under way, the row other stages   *)
(* read holds the artefact the file holds, unless a later turn of the same *)
(* session has written another one, which reaches the file only; or the    *)
(* file is left over from a turn whose commit was refused, which a server  *)
(* restarted since does not remember and gate-confirm does not overwrite   *)
(* (journey.js:2636).                                                      *)
(***************************************************************************)
RowMatchesFile ==
    \/ disturbed \/ revised
    \/ current = Nobody
    \/ ~heap[current].stageDone
    \/ saves # {} \/ Workers(current) # {}
    \/ file \in {row, Nobody}
    \/ file \in Requests /\ req[file].pc = "unsaved"

\* Two JSON turns never work on the journey at once (skills.js:4876-4896).
JsonExclusive ==
    \A r, q \in Requests : req[r].pc \in Json /\ req[q].pc \in Json => r = q

\* Neither kind of turn has company of its kind: each has a guard of its own.
TurnsExclusive == NamedTurnsExclusive /\ JsonExclusive

\* A JSON turn, whatever becomes of it, gives the journey back.
JourneyFreed == busy ~> ~busy
===============================================================================
