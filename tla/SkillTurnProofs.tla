--------------------------- MODULE SkillTurnProofs ---------------------------
(***************************************************************************)
(* Proofs about SkillTurn, for any requests, attempts and restarts.        *)
(***************************************************************************)
EXTENDS SkillTurn, SequenceTheorems, TLAPS

(***************************************************************************)
(* Typing.                                                                 *)
(***************************************************************************)
AttemptIds == Attempts \cup {NoAttempt}
Request ==
    [pc  : {"unsent", "restoring", "restored", "ended", "unsaved"} \cup Working,
     obj : Objects,
     id  : AttemptIds,
     art : Artefacts]

\* The histories the steps build.
LEMMA TurnsType ==
    ASSUME NEW t \in Turns
    PROVE  /\ \A role \in {"user", "assistant"}, o \in Objects :
                 Append(t, Turn(role, o)) \in Turns /\ <<Turn(role, o)>> \in Turns
           /\ <<>> \in Turns
           /\ t # <<>> => Front(t) \in Turns
<1> DEFINE Entry == [role : {"user", "assistant"}, by : Objects]
<1>1. t \in Seq(Entry)
  BY DEF Turns
<1>2. \A role \in {"user", "assistant"}, o \in Objects : Turn(role, o) \in Entry
  BY DEF Turn
<1> HIDE DEF Entry
<1>3. \A role \in {"user", "assistant"}, o \in Objects :
         Append(t, Turn(role, o)) \in Seq(Entry) /\ <<Turn(role, o)>> \in Seq(Entry)
  BY <1>1, <1>2, AppendProperties
<1>4. t # <<>> => Front(t) \in Seq(Entry)
  <2>1. t # <<>> => Len(t) \in Nat \ {0}
    BY <1>1, EmptySeq
  <2>2. \A i \in 1 .. Len(t) : t[i] \in Entry
    BY <1>1
  <2>3. t # <<>> => SubSeq(t, 1, Len(t) - 1) \in Seq(Entry)
    BY <1>1, <2>1
  <2>4. QED
    BY <2>3 DEF Front
<1>5. QED
  BY <1>1, <1>3, <1>4, EmptySeq DEF Turns, Entry

\* What the steps make of a session.
LEMMA SessionType ==
    ASSUME NEW s \in Session
    PROVE  /\ s.turns \in Turns /\ s.last \in Remembering /\ s.content \in Artefacts
           /\ s.last.id \in AttemptIds
           /\ \A t \in Turns : /\ [s EXCEPT !.turns = t] \in Session
                               /\ [s EXCEPT !.turns = t].last = s.last
           /\ \A a \in AttemptIds :
                 /\ Guard(s, a) \in Session
                 /\ Guard(s, a).turns = s.turns
                 /\ Guard(s, a).last = IF a = NoAttempt THEN s.last
                                       ELSE [id |-> a, status |-> "in-flight"]
           /\ \A a \in Attempts :
                 [s EXCEPT !.last = [id |-> a, status |-> "complete"]] \in Session
           /\ \A r \in Requests : /\ Produced(s, r) \in Session
                                  /\ Produced(s, r).last = s.last
           /\ [s EXCEPT !.stageDone = TRUE] \in Session
           /\ [s EXCEPT !.stageDone = TRUE].last = s.last
           /\ s.last.status = "in-flight" =>
                 s.last.id \in Attempts /\ [s EXCEPT !.last.status = "stale"] \in Session
<1>1. s.turns \in Turns /\ s.last \in Remembering /\ s.content \in Artefacts
  BY DEF Session
<1>2. s.last.id \in AttemptIds
  BY <1>1 DEF Remembering, AttemptIds
<1>3. \A t \in Turns : [s EXCEPT !.turns = t] \in Session /\ [s EXCEPT !.turns = t].last = s.last
  BY DEF Session
<1>4. \A l \in Remembering : [s EXCEPT !.last = l] \in Session
  BY DEF Session
<1>5. \A a \in Attempts : [s EXCEPT !.last = [id |-> a, status |-> "complete"]] \in Session
  BY <1>4 DEF Remembering
<1>6. ASSUME NEW a \in AttemptIds
      PROVE  /\ Guard(s, a) \in Session
             /\ Guard(s, a).turns = s.turns
             /\ Guard(s, a).last = IF a = NoAttempt THEN s.last
                                   ELSE [id |-> a, status |-> "in-flight"]
  <2>1. a # NoAttempt => [id |-> a, status |-> "in-flight"] \in Remembering
    BY DEF AttemptIds, Remembering
  <2>2. QED
    BY <1>4, <2>1 DEF Guard, Session
<1>7. \A r \in Requests : Produced(s, r) \in Session /\ Produced(s, r).last = s.last
  BY DEF Session, Produced, Artefacts
<1>8. [s EXCEPT !.stageDone = TRUE] \in Session /\ [s EXCEPT !.stageDone = TRUE].last = s.last
  BY DEF Session
<1>9. ASSUME s.last.status = "in-flight"
      PROVE  s.last.id \in Attempts /\ [s EXCEPT !.last.status = "stale"] \in Session
  <2>1. s.last.id \in Attempts /\ s.last \in [id : Attempts, status : {"in-flight", "stale", "complete"}]
    BY <1>1, <1>9 DEF Remembering
  <2>2. [s.last EXCEPT !.status = "stale"] \in Remembering
    BY <2>1 DEF Remembering
  <2>3. QED
    BY <1>4, <2>1, <2>2
<1>10. QED
  BY <1>1, <1>2, <1>3, <1>5, <1>6, <1>7, <1>8, <1>9

\* A request that works has a session in the store.
InHand ==
    \A r \in Requests : req[r].pc \in {"restored"} \cup Working => current \in Objects

Typed == TypeOK /\ InHand

\* The session a request has in hand is one of the objects, and so is the one
\* it works on.
LEMMA HoldsType ==
    ASSUME Typed, NEW r \in Requests
    PROVE  /\ \A o \in Objects : Holds(r, o) => current \in Objects
           /\ req[r] \in Request
           /\ heap[req[r].obj] \in Session
           /\ r \in Objects /\ Boot \in Objects
           /\ current # Nobody => current \in Objects
BY DEF Typed, TypeOK, InHand, Holds, Objects, Request, AttemptIds

\* What the steps make of a request's record.
LEMMA RequestType ==
    ASSUME NEW q \in Request
    PROVE  /\ \A pc \in {"ended", "unsaved"} :
                 [q EXCEPT !.pc = pc, !.obj = Boot, !.art = Nobody] \in Request
           /\ \A pc \in {"restoring", "restored"} \cup Working : [q EXCEPT !.pc = pc] \in Request
           /\ \A pc \in {"restored"} \cup Working, o \in Objects :
                 /\ [q EXCEPT !.pc = pc, !.obj = o] \in Request
                 /\ \A a \in AttemptIds : [q EXCEPT !.pc = pc, !.obj = o, !.id = a] \in Request
                 /\ \A c \in Artefacts : [q EXCEPT !.pc = pc, !.obj = o, !.art = c] \in Request
BY DEF Request, Objects, Artefacts

\* A request that ends, or moves on, leaves the others alone.
LEMMA Moved ==
    ASSUME Typed, NEW r \in Requests, NEW q \in Request,
           req' = [req EXCEPT ![r] = q], current' = current,
           q.pc \in {"restored"} \cup Working => current \in Objects
    PROVE  /\ req' \in [Requests -> Request]
           /\ InHand'
BY DEF Typed, TypeOK, InHand, Request, AttemptIds

LEMMA Ended ==
    ASSUME Typed, NEW r \in Requests, NEW pc \in {"ended", "unsaved"}, EndAs(r, pc),
           current' = current
    PROVE  /\ req' \in [Requests -> Request]
           /\ InHand'
<1> DEFINE q == [req[r] EXCEPT !.pc = pc, !.obj = Boot, !.art = Nobody]
<1>1. q \in Request /\ q.pc = pc
  BY HoldsType, RequestType DEF Request
<1>2. req' = [req EXCEPT ![r] = q]
  BY DEF EndAs
<1>3. pc \notin {"restored"} \cup Working
  BY DEF Working, Streaming, Json, Confirming
<1> HIDE DEF q
<1>4. QED
  BY <1>1, <1>2, <1>3, Moved

\* One object of the heap changes.
LEMMA HeapType ==
    ASSUME Typed, NEW o \in Objects, NEW s \in Session, heap' = [heap EXCEPT ![o] = s]
    PROVE  heap' \in [Objects -> Session]
BY DEF Typed, TypeOK

\* A streamed turn's tail.
LEMMA FinishType ==
    ASSUME Typed, NEW r \in Requests, NEW s \in Session, NEW done \in BOOLEAN,
           Finish(r, s, done)
    PROVE  /\ heap' \in [Objects -> Session]
           /\ disk' \in Session
           /\ redis' \in Session \cup {Nobody}
           /\ req' \in [Requests -> Request]
           /\ InHand'
           /\ disturbed' \in BOOLEAN /\ astray' \in BOOLEAN
           /\ forgotten' \in SUBSET Attempts
           /\ UNCHANGED <<current, crashes>>
<1> DEFINE answer == [s EXCEPT !.turns = Append(@, Turn("assistant", r))]
           after == IF req[r].id = NoAttempt THEN answer
                    ELSE [answer EXCEPT !.last = [id |-> req[r].id, status |-> "complete"]]
<1>1. answer \in Session
  BY SessionType, TurnsType, HoldsType
<1>2. after \in Session
  BY <1>1, SessionType, HoldsType DEF Request, AttemptIds
<1>3. heap' = [heap EXCEPT ![req[r].obj] = after]
  BY DEF Finish
<1>4. disk' = answer /\ redis' \in {Nobody, answer, redis} /\ disturbed' \in {disturbed, TRUE}
        /\ astray' \in {astray, astray \/ done}
        /\ UNCHANGED <<current, crashes>> /\ EndAs(r, "ended")
  BY DEF Finish, End
<1>5. forgotten' \in SUBSET Attempts
  BY DEF Finish, Typed, TypeOK
<1> HIDE DEF answer, after
<1>6. heap' \in [Objects -> Session]
  BY <1>2, <1>3, HeapType, HoldsType DEF Request
<1>7. QED
  BY <1>1, <1>4, <1>5, <1>6, Ended DEF Typed, TypeOK
\* A first request's or a restarted server's session is well typed.
LEMMA TypedInit == Init => Typed
<1> SUFFICES ASSUME Init PROVE Typed
  OBVIOUS
<1>1. PICK reopened, step1, moved \in BOOLEAN :
          LET new == Registered(reopened, step1)
          IN  /\ heap = [o \in Objects |-> new]
              /\ current = IF moved THEN Nobody ELSE Boot
              /\ redis = IF moved
                         THEN [new EXCEPT !.turns = <<Turn("assistant", Boot)>>]
                         ELSE Nobody
              /\ crashes = IF moved THEN 1 ELSE 0
              /\ entries = IF reopened THEN 1 ELSE 0
              /\ active = ~reopened
              /\ file = IF reopened /\ ~moved THEN Earlier ELSE Nobody
              /\ row = IF reopened THEN Earlier ELSE Nobody
  BY DEF Init
<1>2. <<>> \in Turns
  BY EmptySeq DEF Turns
<1>3. Registered(reopened, step1) \in Session
  BY <1>2 DEF Registered, Session, NoGuard, Remembering, Artefacts
<1>4. <<Turn("assistant", Boot)>> \in Turns
  BY <1>2, TurnsType DEF Objects
<1>5. [Registered(reopened, step1) EXCEPT !.turns = <<Turn("assistant", Boot)>>] \in Session
  BY <1>3, <1>4, SessionType
<1>6. /\ heap \in [Objects -> Session]
      /\ redis \in Session \cup {Nobody}
      /\ current \in Objects \cup {Nobody}
      /\ crashes \in Nat /\ entries \in Nat /\ active \in BOOLEAN
      /\ file \in Artefacts /\ row \in Artefacts
  BY <1>1, <1>3, <1>5 DEF Objects, Artefacts
<1>7. req \in [Requests -> Request] /\ \A r \in Requests : req[r].pc = "unsent"
  BY DEF Init, Request, Objects, AttemptIds, Artefacts
<1>8. TypeOK
  BY <1>6, <1>7 DEF Init, TypeOK, Request, AttemptIds
<1>9. InHand
  BY <1>7 DEF InHand, Working, Streaming, Json, Confirming
<1>10. QED
  BY <1>8, <1>9 DEF Typed

\* A turn that adds to the session's history.
LEMMA StepType ==
    ASSUME Typed, NEW r \in Requests, NEW pc \in Working, NEW s \in Session,
           req[r].pc \in Working, Step(r, pc, s), current' = current
    PROVE  /\ heap' \in [Objects -> Session]
           /\ req' \in [Requests -> Request]
           /\ InHand'
<1> DEFINE q == [req[r] EXCEPT !.pc = pc]
<1>1. q \in Request /\ req' = [req EXCEPT ![r] = q]
  BY HoldsType, RequestType DEF Step
<1>2. current \in Objects
  BY DEF Typed, InHand
<1>3. heap' = [heap EXCEPT ![req[r].obj] = s]
  BY DEF Step
<1> HIDE DEF q
<1>4. QED
  BY <1>1, <1>2, <1>3, Moved, HeapType, HoldsType DEF Request

\* The steps that end a request and touch no session.
LEMMA QuietStep ==
    ASSUME Typed, NEW r \in Requests,
           \/ missing(r) \/ restoreGone(r) \/ commitFails(r) \/ confirmFails(r)
           \/ jsonInitOnDone(r)
           \/ \E o \in Objects :
                 \/ jsonBusy(r, o)
                 \/ \E a \in AttemptIds : resumed(r, o, a) \/ refused(r, o, a)
    PROVE  Typed'
<1>1. current' = current
  BY DEF missing, restoreGone, commitFails, confirmFails, jsonInitOnDone, jsonBusy,
     resumed, refused, sessionVars
<1>2. CASE missing(r) /\ ~End(r)
  <2>1. req' = [req EXCEPT ![r].pc = "restoring"]
    BY <1>2 DEF missing
  <2>2. [req[r] EXCEPT !.pc = "restoring"] \in Request
    BY HoldsType, RequestType
  <2>3. "restoring" \notin {"restored"} \cup Working
    BY DEF Working, Streaming, Json, Confirming
  <2>4. req' \in [Requests -> Request] /\ InHand'
    BY <1>1, <2>1, <2>2, <2>3, Moved DEF Request
  <2>5. QED
    BY <1>2, <2>4 DEF missing, Typed, TypeOK, onceVars, Request, AttemptIds,
       sessionVars, stageVars, ghostVars
<1>3. CASE ~(missing(r) /\ ~End(r))
  <2>1. End(r) \/ EndAs(r, "unsaved")
    BY <1>3 DEF missing, restoreGone, commitFails, confirmFails, jsonInitOnDone,
       jsonBusy, resumed, refused
  <2>2. req' \in [Requests -> Request] /\ InHand'
    BY <1>1, <2>1, Ended DEF End
  <2>3. billed' \in SUBSET Requests /\ busy' \in BOOLEAN
    BY DEF missing, restoreGone, commitFails, confirmFails, jsonInitOnDone,
       jsonBusy, resumed, refused, Charge, Typed, TypeOK, stageVars, ghostVars
  <2>4. /\ UNCHANGED <<sessionVars, crashes>>
        /\ UNCHANGED <<active, entries, file, row, saves, forgotten, overran, disturbed, revised, late, astray>>
    BY DEF missing, restoreGone, commitFails, confirmFails, jsonInitOnDone,
       jsonBusy, resumed, refused, stageVars, ghostVars, onceVars
  <2>5. QED
    BY <2>2, <2>3, <2>4 DEF Typed, TypeOK, onceVars, Request, AttemptIds, sessionVars
<1>4. QED
  BY <1>2, <1>3
\* The steps of _getSessionOrRestore and of an accepted turn.
LEMMA ArrivalStep ==
    ASSUME Typed, NEW r \in Requests, NEW o \in Objects, NEW a \in AttemptIds,
           \/ restore(r) \/ initOnDone(r, o, a) \/ initPrecomputed(r, o, a)
           \/ \E init \in BOOLEAN : streamTurn(r, o, a, init)
    PROVE  Typed'
<1>1. heap[o] \in Session /\ redis \in Session \cup {Nobody} /\ heap[Boot] \in Session
  BY DEF Typed, TypeOK, Objects
<1>2. /\ forgotten' \in SUBSET Attempts /\ disturbed' \in BOOLEAN /\ overran' \in BOOLEAN
      /\ astray' \in BOOLEAN
  BY DEF restore, initOnDone, initPrecomputed, streamTurn, Accepted, Supersedes,
     Enter, Typed, TypeOK, onceVars
<1>3. CASE restore(r)
  <2>1. [redis EXCEPT !.step1 = heap[Boot].step1] \in Session
    BY <1>1, <1>3 DEF restore, Session
  <2>2. heap' \in [Objects -> Session]
    BY <1>3, <2>1, HeapType, HoldsType DEF restore
  <2>3. [req[r] EXCEPT !.pc = "restored", !.obj = r] \in Request
    BY HoldsType, RequestType
  <2>4. req' \in [Requests -> Request]
    BY <1>3, <2>3 DEF restore, Typed, TypeOK, onceVars, Request, AttemptIds
  <2>5. current' \in Objects
    BY <1>3, HoldsType DEF restore
  <2>6. QED
    BY <1>2, <1>3, <2>2, <2>4, <2>5 DEF restore, Typed, TypeOK, onceVars, InHand, Request,
       AttemptIds, stageVars
<1>4. CASE initOnDone(r, o, a)
  <2>1. heap' \in [Objects -> Session]
    BY <1>1, <1>4, SessionType, HeapType DEF initOnDone
  <2>2. req' \in [Requests -> Request] /\ InHand'
    BY <1>4, Ended DEF initOnDone, End
  <2>3. QED
    BY <1>2, <1>4, <2>1, <2>2 DEF initOnDone, Typed, TypeOK, onceVars, Request, AttemptIds, stageVars
<1>5. CASE initPrecomputed(r, o, a)
  <2> DEFINE t == [heap[o] EXCEPT !.turns = <<Turn("assistant", r)>>]
             s == IF a = NoAttempt THEN t ELSE [t EXCEPT !.last = [id |-> a, status |-> "complete"]]
  <2>1. t \in Session
    BY <1>1, SessionType, TurnsType, HoldsType
  <2>2. s \in Session
    BY <2>1, SessionType DEF AttemptIds
  <2>3. heap' = [heap EXCEPT ![o] = s]
    BY <1>5, <1>1 DEF initPrecomputed, Session, Typed, TypeOK
  <2> HIDE DEF s
  <2>4. heap' \in [Objects -> Session]
    BY <2>2, <2>3, HeapType
  <2>5. req' \in [Requests -> Request] /\ InHand'
    BY <1>5, Ended DEF initPrecomputed, End
  <2>6. QED
    BY <1>2, <1>5, <2>4, <2>5
    DEF initPrecomputed, Typed, TypeOK, onceVars, Request, AttemptIds, stageVars
<1>6. ASSUME NEW init \in BOOLEAN, streamTurn(r, o, a, init) PROVE Typed'
  <2> DEFINE g == Guard(heap[o], a)
             t == Append(g.turns, Turn("user", r))
             s == IF init /\ g.turns = <<>> THEN g ELSE [g EXCEPT !.turns = t]
             q == [req[r] EXCEPT !.pc = "model", !.obj = o, !.id = a]
  <2>1. g \in Session
    BY <1>1, SessionType
  <2>2. t \in Turns
    BY <2>1, SessionType, TurnsType, HoldsType
  <2>3. s \in Session
    <3> HIDE DEF g, t
    <3>1. QED
      BY <2>1, <2>2, SessionType
  <2>4. heap' = [heap EXCEPT ![o] = s]
    BY <1>6 DEF streamTurn
  <2>5. "model" \in Working
    BY DEF Working, Streaming
  <2>6. q \in Request /\ req' = [req EXCEPT ![r] = q] /\ current \in Objects
    BY <1>6, <2>5, RequestType, HoldsType DEF streamTurn, Accepted
  <2> HIDE DEF s, q
  <2>7. heap' \in [Objects -> Session]
    BY <2>3, <2>4, HeapType
  <2>8. req' \in [Requests -> Request] /\ InHand'
    BY <1>6, <2>6, Moved DEF streamTurn
  <2>9. QED
    BY <1>2, <1>6, <2>7, <2>8 DEF streamTurn, Typed, TypeOK, onceVars, Request, AttemptIds, stageVars
<1>7. QED
  BY <1>3, <1>4, <1>5, <1>6
\* The model's answers.
LEMMA ModelStep ==
    ASSUME Typed, NEW r \in Requests, Model(r)
    PROVE  Typed'
<1> DEFINE s == heap[req[r].obj]
           p == Produced(s, r)
<1>1. s \in Session /\ p \in Session /\ s.turns \in Turns
  BY HoldsType, SessionType
<1>2. [s EXCEPT !.stageDone = TRUE] \in Session /\ [p EXCEPT !.stageDone = TRUE] \in Session
  BY <1>1, SessionType
<1>3. CASE modelError(r) \/ modelEmpty(r)
  <2> DEFINE error == IF s.turns # <<>> /\ Last(s.turns).role = "user"
                      THEN Front(s.turns) ELSE s.turns
             empty == IF s.turns # <<>> THEN Front(s.turns) ELSE s.turns
             Cut(t) == [s EXCEPT !.turns = t]
  <2>1. Cut(error) \in Session /\ Cut(empty) \in Session
    BY <1>1, TurnsType, SessionType
  <2>2. ASSUME modelError(r) PROVE heap' \in [Objects -> Session]
    <3>1. heap' = [heap EXCEPT ![req[r].obj] = Cut(error)]
      BY <2>2 DEF modelError
    <3> HIDE DEF error, Cut
    <3>2. QED
      BY <2>1, <3>1, HeapType, HoldsType DEF Request
  <2>3. ASSUME modelEmpty(r) PROVE heap' \in [Objects -> Session]
    <3>1. heap' = [heap EXCEPT ![req[r].obj] = Cut(empty)]
      BY <2>3 DEF modelEmpty
    <3> HIDE DEF empty, Cut
    <3>2. QED
      BY <2>1, <3>1, HeapType, HoldsType DEF Request
  <2>4. req' \in [Requests -> Request] /\ InHand'
    BY <1>3, Ended DEF modelError, modelEmpty, End
  <2>5. QED
    BY <1>3, <2>2, <2>3, <2>4 DEF modelError, modelEmpty, Typed, TypeOK, onceVars, Request,
       AttemptIds, stageVars, ghostVars
<1>4. CASE replyText(r)
  <2>1. Finish(r, s, FALSE) /\ billed' \in SUBSET Requests
    BY <1>4 DEF replyText, Charge, Typed, TypeOK
  <2> HIDE DEF s
  <2>2. QED
    BY <1>1, <1>4, <2>1, FinishType
    DEF replyText, Typed, TypeOK, onceVars, Request, AttemptIds, stageVars
<1>5. CASE replyUnsaved(r)
  <2>1. heap' = [heap EXCEPT ![req[r].obj] = p]
    BY <1>5 DEF replyUnsaved
  <2> HIDE DEF p
  <2>2. heap' \in [Objects -> Session]
    BY <1>1, <2>1, HeapType, HoldsType DEF Request
  <2>3. req' \in [Requests -> Request] /\ InHand'
    BY <1>5, Ended DEF replyUnsaved
  <2>4. billed' \in SUBSET Requests /\ revised' \in BOOLEAN
    BY <1>5 DEF replyUnsaved, Charge, Produce, Typed, TypeOK
  <2>5. QED
    BY <1>5, <2>2, <2>3, <2>4
    DEF replyUnsaved, Typed, TypeOK, onceVars, Request, AttemptIds, stageVars
<1>6. CASE replyFirst(r)
  <2>1. "commit" \in Working /\ "hook" \in Working /\ req[r].pc \in Working
    BY <1>6 DEF replyFirst, Working, Streaming
  <2>2. Step(r, "commit", p) \/ Step(r, "hook", [p EXCEPT !.stageDone = TRUE])
    BY <1>6 DEF replyFirst
  <2>3. current' = current /\ file' \in Artefacts
    BY <1>6 DEF replyFirst, Artefacts
  <2> HIDE DEF p
  <2>4. /\ heap' \in [Objects -> Session]
        /\ req' \in [Requests -> Request]
        /\ InHand'
    BY <1>1, <1>2, <2>1, <2>2, <2>3, StepType
  <2>5. billed' \in SUBSET Requests /\ revised' \in BOOLEAN
    BY <1>6 DEF replyFirst, Charge, Produce, Typed, TypeOK
  <2>6. QED
    BY <1>6, <2>3, <2>4, <2>5 DEF replyFirst, Typed, TypeOK, onceVars, Request, AttemptIds
<1>7. CASE replyAgain(r)
  <2>1. Finish(r, p, TRUE) /\ file' \in Artefacts
    BY <1>7 DEF replyAgain, Artefacts
  <2>2. billed' \in SUBSET Requests /\ revised' \in BOOLEAN
    BY <1>7 DEF replyAgain, Charge, Produce, Typed, TypeOK
  <2> HIDE DEF p
  <2>3. QED
    BY <1>1, <1>7, <2>1, <2>2, FinishType DEF replyAgain, Typed, TypeOK, onceVars, Request, AttemptIds
<1>8. CASE commitFails(r)
  BY <1>8, QuietStep
<1>9. CASE commitEnds(r)
  <2>1. Finish(r, [s EXCEPT !.stageDone = TRUE], TRUE)
    BY <1>9 DEF commitEnds
  <2>2. entries' \in Nat
    BY <1>9 DEF commitEnds, Typed, TypeOK
  <2>3. saves' \in SUBSET Artefacts
    BY <1>1, <1>9, SessionType DEF commitEnds, Typed, TypeOK
  <2>4. late' \in SUBSET Requests
    BY <1>9 DEF commitEnds, Overtakes, Typed, TypeOK
  <2> HIDE DEF s
  <2>5. QED
    BY <1>2, <1>9, <2>1, <2>2, <2>3, <2>4, FinishType
    DEF commitEnds, Typed, TypeOK, onceVars, Request, AttemptIds
<1>10. CASE hookEnds(r)
  <2>1. Finish(r, s, TRUE)
    BY <1>10 DEF hookEnds
  <2>2. saves' \in SUBSET Artefacts
    BY <1>1, <1>10, SessionType DEF hookEnds, Typed, TypeOK
  <2> HIDE DEF s
  <2>3. QED
    BY <1>1, <1>10, <2>1, <2>2, FinishType DEF hookEnds, Typed, TypeOK, onceVars, Request, AttemptIds
<1>11. QED
  BY <1>3, <1>4, <1>5, <1>6, <1>7, <1>8, <1>9, <1>10 DEF Model

\* JSON turns.
LEMMA JsonStep ==
    ASSUME Typed, NEW r \in Requests,
           (\E o \in Objects : jsonArrive(r, o)) \/ JsonTurn(r)
    PROVE  Typed'
<1>1. ASSUME NEW o \in Objects, jsonArrive(r, o) PROVE Typed'
  <2> DEFINE q == [req[r] EXCEPT !.pc = "body", !.obj = o]
  <2>1. "body" \in Working
    BY DEF Working, Json
  <2>2. q \in Request /\ req' = [req EXCEPT ![r] = q] /\ current \in Objects
    BY <1>1, <2>1, RequestType, HoldsType DEF jsonArrive
  <2>3. disturbed' \in BOOLEAN
    BY <1>1 DEF jsonArrive, Enter, Typed, TypeOK
  <2> HIDE DEF q
  <2>4. req' \in [Requests -> Request] /\ InHand'
    BY <1>1, <2>2, Moved DEF jsonArrive, sessionVars
  <2>5. QED
    BY <1>1, <2>3, <2>4 DEF jsonArrive, Typed, TypeOK, onceVars, Request, AttemptIds, sessionVars
<1>2. CASE jsonBody(r)
  <2>1. "body" \in Working /\ "executor" \in Working
    BY DEF Working, Json
  <2>2. current \in Objects
    BY <1>2, <2>1 DEF jsonBody, Typed, InHand
  <2> DEFINE q == [req[r] EXCEPT !.pc = "executor", !.obj = current]
             s == [heap[current] EXCEPT !.turns = Append(@, Turn("user", r))]
  <2>3. q \in Request /\ req' = [req EXCEPT ![r] = q]
    BY <1>2, <2>1, <2>2, RequestType, HoldsType DEF jsonBody
  <2>4. s \in Session /\ heap' = [heap EXCEPT ![current] = s]
    BY <1>2, <2>2, SessionType, TurnsType, HoldsType DEF jsonBody, Typed, TypeOK
  <2>5. disturbed' \in BOOLEAN
    BY <1>2 DEF jsonBody, Enter, Typed, TypeOK
  <2> HIDE DEF q, s
  <2>6. req' \in [Requests -> Request] /\ InHand'
    BY <1>2, <2>2, <2>3, Moved DEF jsonBody
  <2>7. heap' \in [Objects -> Session]
    BY <2>2, <2>4, HeapType
  <2>8. QED
    BY <1>2, <2>5, <2>6, <2>7 DEF jsonBody, Typed, TypeOK, onceVars, Request, AttemptIds, stageVars
<1>3. CASE jsonInitOnDone(r)
  BY <1>3, QuietStep
<1>4. ASSUME NEW done \in BOOLEAN, jsonReply(r, done) PROVE Typed'
  <2> DEFINE old == heap[req[r].obj]
             new == IF done THEN Produced(old, r) ELSE old
             s == [new EXCEPT !.turns = Append(@, Turn("assistant", r))]
  <2>1. old \in Session
    BY HoldsType
  <2>2. new \in Session
    BY <2>1, SessionType
  <2>3. s \in Session
    <3> HIDE DEF new
    <3>1. QED
      BY <2>2, SessionType, TurnsType, HoldsType
  <2>4. heap' = [heap EXCEPT ![req[r].obj] = s] /\ disk' = s
    BY <1>4 DEF jsonReply
  <2> HIDE DEF s, new
  <2>5. heap' \in [Objects -> Session]
    BY <2>3, <2>4, HeapType, HoldsType DEF Request
  <2>6. req' \in [Requests -> Request] /\ InHand'
    BY <1>4, Ended DEF jsonReply, End
  <2>7. billed' \in SUBSET Requests /\ revised' \in BOOLEAN
    BY <1>4 DEF jsonReply, Charge, Produce, Typed, TypeOK
  <2>8. QED
    BY <1>4, <2>3, <2>4, <2>5, <2>6, <2>7 DEF jsonReply, Typed, TypeOK, onceVars, Request, AttemptIds
<1>5. QED
  BY <1>1, <1>2, <1>3, <1>4 DEF JsonTurn
\* Gate-confirm.
LEMMA ConfirmStep ==
    ASSUME Typed, NEW r \in Requests, Confirm(r)
    PROVE  Typed'
<1>1. CASE confirm(r)
  <2>1. current \in Objects /\ heap[current].content \in Artefacts
    BY <1>1, SessionType, HoldsType DEF confirm, Typed, TypeOK
  <2> DEFINE q == [req[r] EXCEPT !.pc = "confirm save", !.obj = current,
                                 !.art = heap[current].content]
  <2>2. "confirm save" \in Working
    BY DEF Working, Confirming
  <2>3. q \in Request /\ req' = [req EXCEPT ![r] = q] /\ current' = current
    BY <1>1, <2>1, <2>2, RequestType, HoldsType DEF confirm, sessionVars
  <2>4. disturbed' \in BOOLEAN /\ file' \in Artefacts /\ saves' \in SUBSET Artefacts
    BY <1>1, <2>1 DEF confirm, Enter, Typed, TypeOK
  <2> HIDE DEF q
  <2>5. req' \in [Requests -> Request] /\ InHand'
    BY <2>1, <2>3, Moved
  <2>6. QED
    BY <1>1, <2>4, <2>5 DEF confirm, Typed, TypeOK, onceVars, Request, AttemptIds, sessionVars
<1>2. CASE confirmSaved(r)
  <2>1. current' = current /\ "confirm save" \in Working /\ "confirm commit" \in Working
    BY <1>2 DEF confirmSaved, sessionVars, Working, Confirming
  <2>2. current \in Objects
    BY <1>2, <2>1 DEF confirmSaved, Typed, InHand
  <2>3. [req[r] EXCEPT !.pc = "confirm commit"] \in Request
    BY <2>1, RequestType, HoldsType
  <2>4. EndAs(r, "ended") \/ req' = [req EXCEPT ![r] = [req[r] EXCEPT !.pc = "confirm commit"]]
    BY <1>2 DEF confirmSaved, End
  <2>5. req' \in [Requests -> Request] /\ InHand'
    BY <2>1, <2>2, <2>3, <2>4, Moved, Ended
  <2>6. active' \in BOOLEAN
    BY <1>2 DEF confirmSaved, Typed, TypeOK
  <2>7. QED
    BY <1>2, <2>5, <2>6 DEF confirmSaved, Typed, TypeOK, onceVars, Request, AttemptIds,
       sessionVars, ghostVars
<1>3. CASE confirmFails(r)
  BY <1>3, QuietStep
<1>4. CASE confirmCompletes(r)
  <2> DEFINE s == [heap[req[r].obj] EXCEPT !.stageDone = TRUE]
  <2>1. s \in Session
    BY HoldsType, SessionType
  <2>2. heap' = [heap EXCEPT ![req[r].obj] = s]
    BY <1>4 DEF confirmCompletes
  <2> HIDE DEF s
  <2>3. heap' \in [Objects -> Session]
    BY <2>1, <2>2, HeapType, HoldsType DEF Request
  <2>4. req' \in [Requests -> Request] /\ InHand'
    BY <1>4, Ended DEF confirmCompletes, End
  <2>5. entries' \in Nat
    <3>1. entries \in Nat /\ entries' = entries + 1
      BY <1>4 DEF confirmCompletes, Typed, TypeOK
    <3>2. QED
      BY <3>1
  <2>6. late' \in SUBSET Requests
    BY <1>4 DEF confirmCompletes, Overtakes, Typed, TypeOK
  <2>7. QED
    BY <1>4, <2>3, <2>4, <2>5, <2>6
    DEF confirmCompletes, Typed, TypeOK, onceVars, Request, AttemptIds, ghostVars
<1>5. QED
  BY <1>1, <1>2, <1>3, <1>4 DEF Confirm

\* Time, background writes and restarts.
LEMMA EnvironmentStep ==
    ASSUME Typed,
           \/ \E c \in Artefacts : saveSettles(c)
           \/ \E o \in Objects : expire(o)
           \/ \E wiped \in BOOLEAN : restart(wiped)
    PROVE  Typed'
<1>1. ASSUME NEW c \in Artefacts, saveSettles(c) PROVE Typed'
  <2>1. row' \in Artefacts /\ saves' \in SUBSET Artefacts /\ disturbed' \in BOOLEAN
    BY <1>1 DEF saveSettles, Typed, TypeOK
  <2>2. QED
    BY <1>1, <2>1 DEF saveSettles, Typed, TypeOK, onceVars, InHand, sessionVars
<1>2. ASSUME NEW o \in Objects, expire(o) PROVE Typed'
  <2> DEFINE s == [heap[o] EXCEPT !.last.status = "stale"]
  <2>1. heap[o] \in Session /\ heap[o].last.status = "in-flight"
    BY <1>2 DEF expire, Typed, TypeOK
  <2>2. s \in Session /\ heap[o].last.id \in Attempts
    BY <2>1, SessionType
  <2>3. heap' = [heap EXCEPT ![o] = s]
    BY <1>2 DEF expire
  <2> HIDE DEF s
  <2>4. heap' \in [Objects -> Session]
    BY <2>2, <2>3, HeapType
  <2>5. forgotten' \in SUBSET Attempts /\ overran' \in BOOLEAN
    BY <1>2, <2>2 DEF expire, Typed, TypeOK
  <2>6. QED
    BY <1>2, <2>4, <2>5 DEF expire, Typed, TypeOK, onceVars, InHand, stageVars
<1>3. ASSUME NEW wiped \in BOOLEAN, restart(wiped) PROVE Typed'
  <2>1. \A r \in Requests :
           \/ req'[r] = req[r] /\ req[r].pc \in {"unsent", "ended", "unsaved"}
           \/ req'[r] = [req[r] EXCEPT !.pc = "ended", !.obj = Boot, !.art = Nobody]
    BY <1>3 DEF restart
  <2>2. \A r \in Requests : req'[r] \in Request /\ req'[r].pc \in {"unsent", "ended", "unsaved"}
    BY <2>1, RequestType, HoldsType DEF Request
  <2>3. req' \in [Requests -> Request]
    BY <1>3, <2>2 DEF restart
  <2>4. InHand'
    BY <2>2 DEF InHand, Working, Streaming, Json, Confirming
  <2>5. heap' \in [Objects -> Session]
    BY <1>3 DEF restart, Typed, TypeOK
  <2>6. /\ disk' \in Session \cup {Nobody}
        /\ current' \in Objects \cup {Nobody}
        /\ disturbed' \in BOOLEAN /\ busy' \in BOOLEAN
        /\ forgotten' \in SUBSET Attempts
    BY <1>3 DEF restart, Typed, TypeOK, Objects
  <2>7. file' \in Artefacts /\ row' \in Artefacts /\ saves' \in SUBSET Artefacts
    <3>1. file \in Artefacts /\ row \in Artefacts /\ saves \subseteq Artefacts
             /\ Nobody \in Artefacts
      BY DEF Typed, TypeOK, Artefacts
    <3>2. QED
      BY <1>3, <3>1 DEF restart
  <2>8. crashes' \in Nat
    <3>1. crashes \in Nat /\ crashes' = crashes + 1
      BY <1>3 DEF restart, Typed, TypeOK
    <3>2. QED
      BY <3>1
  <2>9. QED
    BY <1>3, <2>3, <2>4, <2>5, <2>6, <2>7, <2>8
    DEF restart, Typed, TypeOK, onceVars, Request, AttemptIds
<1>4. QED
  BY <1>1, <1>2, <1>3
\* No step breaks the types.
LEMMA TypedStep ==
    ASSUME Typed, [Next]_vars
    PROVE  Typed'
<1>1. ASSUME NEW r \in Requests, NEW o \in Objects, Stream(r, o) PROVE Typed'
  <2>1. PICK a \in AttemptIds :
          \/ resumed(r, o, a) \/ refused(r, o, a)
          \/ initOnDone(r, o, a) \/ initPrecomputed(r, o, a)
          \/ \E init \in BOOLEAN : streamTurn(r, o, a, init)
    BY <1>1 DEF Stream, AttemptIds
  <2>2. QED
    BY <2>1, QuietStep, ArrivalStep
<1>2. ASSUME NEW r \in Requests,
             missing(r) \/ restoreGone(r) \/ \E o \in Objects : jsonBusy(r, o)
      PROVE  Typed'
  BY <1>2, QuietStep
<1>3. ASSUME NEW r \in Requests, restore(r) PROVE Typed'
  BY <1>3, ArrivalStep DEF Objects, AttemptIds
<1>4. CASE UNCHANGED vars
  BY <1>4 DEF vars, Typed, TypeOK, InHand
<1>5. QED
  BY <1>1, <1>2, <1>3, <1>4, ModelStep, JsonStep, ConfirmStep, EnvironmentStep DEF Next

\* Every variable keeps its type, whatever the requests do.
THEOREM TypeCorrect == Spec => []TypeOK
<1>1. Typed /\ [Next]_vars => Typed'
  BY TypedStep
<1>2. Typed => TypeOK
  BY DEF Typed
<1>3. QED
  BY TypedInit, <1>1, <1>2, PTL DEF Spec
(***************************************************************************)
(* JSON turns: the journey's flag is up for as long as one is under way.   *)
(***************************************************************************)
JsonHolds == \A r \in Requests : req[r].pc \in Json => busy

\* No step takes the flag down under a JSON turn, or starts one beside it.
LEMMA JsonHoldsStep ==
    ASSUME Typed, JsonHolds, JsonExclusive, [Next]_vars
    PROVE  JsonHolds' /\ JsonExclusive'
<1> DEFINE Quiet(r) == \A q \in Requests : req'[q].pc \in Json => q # r /\ req[q].pc \in Json
<1>1. req \in [Requests -> Request]
  BY DEF Typed, TypeOK, Request, AttemptIds
<1>2. ASSUME NEW r \in Requests, NEW o \in Objects, jsonArrive(r, o)
      PROVE  JsonHolds' /\ JsonExclusive'
  <2>1. \A q \in Requests : q # r => req'[q] = req[q]
    BY <1>1, <1>2 DEF jsonArrive
  <2>2. ~busy /\ busy'
    BY <1>2 DEF jsonArrive
  <2>3. QED
    BY <2>1, <2>2 DEF JsonHolds, JsonExclusive
<1>3. ASSUME NEW r \in Requests, jsonBody(r)
      PROVE  JsonHolds' /\ JsonExclusive'
  <2>1. req[r].pc \in Json /\ \A q \in Requests : q # r => req'[q] = req[q]
    BY <1>1, <1>3 DEF jsonBody, Json
  <2>2. busy' = busy
    BY <1>3 DEF jsonBody, stageVars
  <2>3. QED
    BY <2>1, <2>2 DEF JsonHolds, JsonExclusive
<1>4. ASSUME NEW r \in Requests, jsonInitOnDone(r) \/ \E done \in BOOLEAN : jsonReply(r, done)
      PROVE  JsonHolds' /\ JsonExclusive'
  <2>1. req[r].pc \in Json /\ End(r)
    BY <1>4 DEF jsonInitOnDone, jsonReply, Json
  <2>2. Quiet(r)
    BY <1>1, <2>1 DEF End, EndAs, Json
  <2>3. QED
    BY <2>1, <2>2 DEF JsonHolds, JsonExclusive
<1>5. ASSUME NEW r \in Requests, NEW pc, pc \notin Json, req'[r].pc = pc,
             \A q \in Requests : q # r => req'[q] = req[q], busy' = busy
      PROVE  JsonHolds' /\ JsonExclusive'
  BY <1>5 DEF JsonHolds, JsonExclusive
<1>6. ASSUME NEW r \in Requests, NEW pc, pc \in {"ended", "unsaved"}, EndAs(r, pc), busy' = busy
      PROVE  JsonHolds' /\ JsonExclusive'
  BY <1>1, <1>5, <1>6 DEF EndAs, Json
<1>7. ASSUME NEW r \in Requests, End(r), busy' = busy
      PROVE  JsonHolds' /\ JsonExclusive'
  BY <1>6, <1>7 DEF End
<1>8. ASSUME NEW r \in Requests, NEW o \in Objects, Stream(r, o)
      PROVE  JsonHolds' /\ JsonExclusive'
  <2>1. busy' = busy
    BY <1>8 DEF Stream, resumed, refused, initOnDone, initPrecomputed, streamTurn, stageVars
  <2>2. CASE ~End(r)
    <3>1. PICK a \in Attempts \cup {NoAttempt}, init \in BOOLEAN : streamTurn(r, o, a, init)
      BY <1>8, <2>2 DEF Stream, resumed, refused, initOnDone, initPrecomputed
    <3>2. req'[r].pc = "model" /\ \A q \in Requests : q # r => req'[q] = req[q]
      BY <1>1, <3>1 DEF streamTurn, Request
    <3>3. QED
      BY <1>5, <2>1, <3>2 DEF Json
  <2>3. QED
    BY <1>7, <2>1, <2>2
<1>9. ASSUME NEW r \in Requests, Model(r)
      PROVE  JsonHolds' /\ JsonExclusive'
  <2>1. busy' = busy
    BY <1>9 DEF Model, modelError, modelEmpty, replyText, replyUnsaved, replyFirst,
       replyAgain, commitFails, commitEnds, hookEnds, stageVars
  <2>2. \/ End(r) \/ EndAs(r, "unsaved")
        \/ \E pc \in {"commit", "hook"} : req' = [req EXCEPT ![r].pc = pc]
    BY <1>9 DEF Model, modelError, modelEmpty, replyText, replyUnsaved, replyFirst,
       replyAgain, commitFails, commitEnds, hookEnds, Finish, Step
  <2>3. ASSUME NEW pc \in {"commit", "hook"}, req' = [req EXCEPT ![r].pc = pc]
        PROVE  JsonHolds' /\ JsonExclusive'
    BY <1>1, <1>5, <2>1, <2>3 DEF Request, Json
  <2>4. QED
    BY <1>6, <1>7, <2>1, <2>2, <2>3
<1>10. ASSUME NEW r \in Requests, Confirm(r)
       PROVE  JsonHolds' /\ JsonExclusive'
  <2>1. busy' = busy
    BY <1>10 DEF Confirm, confirm, confirmSaved, confirmFails, confirmCompletes, stageVars
  <2>2. CASE ~End(r)
    <3>1. confirm(r) \/ req' = [req EXCEPT ![r].pc = "confirm commit"]
      BY <1>10, <2>2 DEF Confirm, confirmSaved, confirmFails, confirmCompletes
    <3>2. \A q \in Requests : q # r => req'[q] = req[q]
      BY <1>1, <3>1 DEF confirm
    <3>3. req'[r].pc \in {"confirm save", "confirm commit"}
      <4>1. CASE confirm(r)
        <5>1. req' = [req EXCEPT ![r].pc = "confirm save", ![r].obj = current,
                                 ![r].art = heap[current].content]
          BY <4>1 DEF confirm
        <5>2. req'[r].pc = "confirm save"
          BY <1>1, <5>1 DEF Request
        <5>3. QED
          BY <5>2
      <4>2. CASE req' = [req EXCEPT ![r].pc = "confirm commit"]
        BY <1>1, <4>2 DEF Request
      <4>3. QED
        BY <3>1, <4>1, <4>2
    <3>4. QED
      BY <1>5, <2>1, <3>2, <3>3 DEF Json
  <2>3. QED
    BY <1>7, <2>1, <2>2
<1>11. ASSUME NEW r \in Requests, missing(r) \/ restoreGone(r) \/ \E o \in Objects : jsonBusy(r, o)
       PROVE  JsonHolds' /\ JsonExclusive'
  <2>1. busy' = busy
    BY <1>11 DEF missing, restoreGone, jsonBusy, stageVars
  <2>2. CASE ~End(r)
    BY <1>1, <1>5, <1>11, <2>1, <2>2 DEF missing, restoreGone, jsonBusy, Request, Json
  <2>3. QED
    BY <1>7, <2>1, <2>2
<1>12. ASSUME NEW r \in Requests, restore(r)
       PROVE  JsonHolds' /\ JsonExclusive'
  BY <1>1, <1>5, <1>12 DEF restore, stageVars, Request, Json
<1>13. ASSUME NEW wiped \in BOOLEAN, restart(wiped)
       PROVE  JsonHolds' /\ JsonExclusive'
  <2>1. \A r \in Requests : req'[r].pc \notin Json
    BY <1>1, <1>13 DEF restart, Request, Json
  <2>2. QED
    BY <2>1 DEF JsonHolds, JsonExclusive
<1>14. CASE UNCHANGED <<req, busy>>
  BY <1>14 DEF JsonHolds, JsonExclusive
<1>15. (\E c \in Artefacts : saveSettles(c)) \/ (\E o \in Objects : expire(o)) \/ UNCHANGED vars
         => UNCHANGED <<req, busy>>
  BY DEF saveSettles, expire, vars, stageVars
<1>16. QED
  BY <1>2, <1>3, <1>4, <1>8, <1>9, <1>10, <1>11, <1>12, <1>13, <1>14, <1>15
  DEF Next, JsonTurn

\* One JSON turn at a time works on the journey.
THEOREM JsonTurnsExclusive == Spec => []JsonExclusive
<1> DEFINE IInv == Typed /\ JsonHolds /\ JsonExclusive
<1>1. Init => IInv
  <2>1. Init => \A r \in Requests : req[r].pc \notin Json
    BY DEF Init, Json
  <2>2. QED
    BY TypedInit, <2>1 DEF JsonHolds, JsonExclusive
<1>2. IInv /\ [Next]_vars => IInv'
  BY TypedStep, JsonHoldsStep
<1>3. QED
  BY <1>1, <1>2, PTL DEF Spec
(***************************************************************************)
(* Streamed turns: what the in-flight guard covers.                        *)
(***************************************************************************)
Named(r) == req[r].pc \in Streaming /\ req[r].id # NoAttempt

InFlightGuard(a) == [id |-> a, status |-> "in-flight"]

\* As long as no guard stopped covering a turn, a restored object is the one in
\* the store, and the store's object is guarded for the named turn under way.
GuardCovers ==
    ~overran =>
        /\ \A r \in Requests : req[r].pc = "restored" => req[r].obj = current
        /\ \A r \in Requests : Named(r) =>
              req[r].obj = current /\ heap[current].last = InFlightGuard(req[r].id)
        /\ \A r, q \in Requests : Named(r) /\ Named(q) => r = q

\* The session the next request finds: the store's, or what it will restore.
Found == IF current = Nobody THEN redis ELSE heap[current]

\* As long as the session remembers an attempt, one request has begun a turn for
\* it, and what the next request finds holds the attempt for in flight or for
\* complete: a retry meets one or the other.
Vouched ==
    /\ \A r \in Requests : req[r].pc = "restored" =>
          req[r].obj = current \/ Attempts \subseteq forgotten
    /\ \A r \in Requests : req[r].id \in Attempts \ forgotten =>
          /\ current = Nobody => redis # Nobody
          /\ Found.last.id = req[r].id
          /\ Found.last.status \in {"in-flight", "complete"}
          /\ req[r].pc \in Streaming => req[r].obj = current
    /\ \A r, q \in Requests :
          req[r].id \in Attempts \ forgotten /\ req[q].id = req[r].id => r = q

Covers == GuardCovers /\ Vouched

\* A step that begins no named turn and moves no guard.
Undisturbed ==
    /\ current' = current
    /\ heap'[current].last = heap[current].last
    /\ current = Nobody => redis' = redis
    /\ overran => overran'
    /\ forgotten \subseteq forgotten'
    /\ \A q \in Requests : req'[q].id = req[q].id
    /\ \A q \in Requests :
          \/ req'[q].pc \notin Streaming \cup {"restored"}
          \/ /\ req'[q].obj = req[q].obj /\ req'[q].id = req[q].id
             /\ \/ req[q].pc \in Streaming /\ req'[q].pc # "restored"
                \/ req'[q].pc = req[q].pc

LEMMA UndisturbedStep ==
    ASSUME Covers, Undisturbed
    PROVE  Covers'
<1>1. GuardCovers'
  BY DEF Covers, GuardCovers, Undisturbed, Named, InFlightGuard
<1>2. Vouched'
  <2>1. "restored" \notin Streaming
    BY DEF Streaming
  <2> QED
    BY <2>1 DEF Covers, Vouched, Found, Undisturbed
<1> QED
  BY <1>1, <1>2 DEF Covers

\* One request moves within its turn, or ends; one object keeps its guard.
LEMMA OneMoves ==
    ASSUME Typed, Covers, NEW r \in Requests, NEW q \in Request,
           req' = [req EXCEPT ![r] = q], q.id = req[r].id,
           \/ q.pc \notin Streaming \cup {"restored"}
           \/ req[r].pc \in Streaming /\ q.pc # "restored" /\ q.obj = req[r].obj,
           current' = current, overran => overran', forgotten \subseteq forgotten',
           heap'[current].last = heap[current].last, current = Nobody => redis' = redis
    PROVE  Covers'
<1>1. req \in [Requests -> Request]
  BY DEF Typed, TypeOK, Request, AttemptIds
<1>2. req'[r] = q /\ \A p \in Requests : p # r => req'[p] = req[p]
  BY <1>1
<1>3. Undisturbed
  BY <1>2 DEF Undisturbed
<1>4. QED
  BY <1>3, UndisturbedStep

LEMMA OneEnds ==
    ASSUME Typed, Covers, NEW r \in Requests, NEW pc \in {"ended", "unsaved"}, EndAs(r, pc),
           current' = current, overran => overran', forgotten \subseteq forgotten',
           heap'[current].last = heap[current].last, current = Nobody => redis' = redis
    PROVE  Covers'
<1> DEFINE q == [req[r] EXCEPT !.pc = pc, !.obj = Boot, !.art = Nobody]
<1>1. q \in Request /\ q.pc = pc /\ q.id = req[r].id
  BY HoldsType, RequestType DEF Request
<1>2. req' = [req EXCEPT ![r] = q]
  BY DEF EndAs
<1>3. pc \notin Streaming \cup {"restored"}
  BY DEF Streaming
<1> HIDE DEF q
<1>4. QED
  BY <1>1, <1>2, <1>3, OneMoves
\* A turn that ends lifts its own guard, under which no other turn runs.
LEMMA FinishGuard ==
    ASSUME Typed, Covers, NEW r \in Requests, NEW s \in Session, NEW done \in BOOLEAN,
           req[r].pc \in Streaming, s.last = heap[req[r].obj].last,
           Finish(r, s, done), overran' = overran
    PROVE  Covers'
<1> DEFINE answer == [s EXCEPT !.turns = Append(@, Turn("assistant", r))]
           after == IF req[r].id = NoAttempt THEN answer
                    ELSE [answer EXCEPT !.last = [id |-> req[r].id, status |-> "complete"]]
<1>1. answer.last = s.last
  BY SessionType, TurnsType, HoldsType
<1>2. /\ heap' = [heap EXCEPT ![req[r].obj] = after] /\ current' = current
      /\ EndAs(r, "ended") /\ forgotten \subseteq forgotten'
  BY DEF Finish, End
<1>3. heap \in [Objects -> Session] /\ req \in [Requests -> Request] /\ current # Nobody
  BY NamesAssumption DEF Typed, TypeOK, InHand, Working, Objects, Request, AttemptIds
<1>4. CASE req[r].id = NoAttempt
  <2>1. heap'[current].last = heap[current].last
    <3>1. after.last = heap[req[r].obj].last
      BY <1>1, <1>4
    <3> HIDE DEF after
    <3>2. current \in Objects
      BY <1>3 DEF Typed, InHand, Working
    <3>3. QED
      BY <1>2, <1>3, <3>1, <3>2
  <2>2. QED
    BY <1>2, <1>3, <2>1, OneEnds
<1>5. CASE req[r].id # NoAttempt
  <2>1. Named(r)
    BY <1>5 DEF Named
  <2>2. req'[r].pc = "ended" /\ \A q \in Requests : q # r => req'[q] = req[q]
    BY <1>2, <1>3 DEF EndAs, Request
  <2>3. ~overran => \A q \in Requests : ~Named(q)'
    BY <2>1, <2>2 DEF Covers, GuardCovers, Named, Streaming
  <2>4. ~overran => \A q \in Requests : req'[q].pc = "restored" => req'[q].obj = current'
    BY <1>2, <2>2 DEF Covers, GuardCovers
  <2>5. GuardCovers'
    BY <2>3, <2>4 DEF GuardCovers
  <2>6. \A q \in Requests : req'[q].id = req[q].id
    BY <1>2, <1>3 DEF EndAs, Request
  <2>7. ASSUME NEW q \in Requests, req'[q].id \in Attempts \ forgotten'
        PROVE  /\ heap'[current].last.id = req'[q].id
               /\ heap'[current].last.status \in {"in-flight", "complete"}
               /\ req'[q].pc \in Streaming => req'[q].obj = current
    <3>1. /\ req[q].id \in Attempts \ forgotten
          /\ heap[current].last.id = req[q].id
          /\ heap[current].last.status \in {"in-flight", "complete"}
          /\ req[q].pc \in Streaming => req[q].obj = current
      BY <1>2, <1>3, <2>6, <2>7 DEF Covers, Vouched, Found
    <3>2. current \in Objects
      BY <1>3 DEF Typed, InHand, Working
    <3>3. CASE req[r].obj # current
      <4>1. heap'[current] = heap[current]
        BY <1>2, <1>3, <3>2, <3>3
      <4> QED
        BY <1>2, <2>2, <2>6, <3>1, <4>1 DEF Streaming
    <3>4. CASE req[r].obj = current
      <4>1. heap'[current] = after
        BY <1>2, <1>3, <3>2, <3>4
      <4>2. s \in Session /\ answer \in Session
        BY SessionType, TurnsType, HoldsType
      <4>3. after.last = [id |-> req[r].id, status |-> "complete"]
        <5> HIDE DEF answer
        <5> QED
          BY <1>5, <4>2 DEF Session
      <4>4. req[q].id = req[r].id
        BY <1>5, <2>6, <2>7, <3>1, <3>4 DEF Finish
      <4>5. q = r
        BY <3>1, <4>4 DEF Covers, Vouched
      <4> HIDE DEF after
      <4> QED
        BY <1>2, <2>2, <2>6, <3>1, <4>1, <4>3, <4>4, <4>5 DEF Streaming
    <3> QED
      BY <3>3, <3>4
  <2>8. Vouched'
    BY <1>2, <1>3, <2>2, <2>6, <2>7 DEF Covers, Vouched, Found
  <2>9. QED
    BY <2>5, <2>8 DEF Covers
<1>6. QED
  BY <1>4, <1>5

\* A turn is accepted by the store's object, and only when that has no turn
\* in flight.
LEMMA AcceptedGuard ==
    ASSUME Typed, GuardCovers, ~overran, NEW r \in Requests, NEW o \in Objects,
           NEW a \in AttemptIds, Accepted(r, o, a)
    PROVE  /\ o = current
           /\ \A q \in Requests : ~Named(q)
           /\ req[r].pc \in {"unsent", "restored"}
<1>1. o = current /\ req[r].pc \in {"unsent", "restored"}
  BY DEF Accepted, Holds, Arrives, GuardCovers
<1>2. heap[o].last.status # "in-flight"
  BY DEF Accepted, InFlight
<1>3. \A x : InFlightGuard(x).status = "in-flight"
  BY DEF InFlightGuard
<1>4. \A q \in Requests : Named(q) => heap[current].last = InFlightGuard(req[q].id)
  BY DEF GuardCovers
<1>5. \A q \in Requests : ~Named(q)
  BY <1>1, <1>2, <1>3, <1>4
<1>6. QED
  BY <1>1, <1>5

\* A turn for an attempt is accepted only when the session remembers nothing of
\* that attempt, and makes it forget any other.
LEMMA AcceptedVouched ==
    ASSUME Typed, Vouched, NEW r \in Requests, NEW o \in Objects,
           NEW a \in AttemptIds, Accepted(r, o, a)
    PROVE  /\ o = current \/ Attempts \subseteq forgotten
           /\ forgotten \subseteq forgotten'
           /\ a # NoAttempt => \A q \in Requests : req[q].id \notin Attempts \ forgotten'
<1>0. current # Nobody
  BY HoldsType, NamesAssumption DEF Accepted, Objects
<1>1. o = current \/ Attempts \subseteq forgotten
  BY DEF Accepted, Holds, Vouched
<1>2. forgotten \subseteq forgotten'
  BY DEF Accepted, Supersedes
<1>3. ASSUME a # NoAttempt, NEW q \in Requests, req[q].id \in Attempts \ forgotten'
      PROVE  FALSE
  <2>1. /\ o = current /\ heap[o].last.id = req[q].id
        /\ heap[o].last.status \in {"in-flight", "complete"}
    BY <1>1, <1>2, <1>3, <1>0 DEF Vouched, Found
  <2>2. heap[o].last.status = "complete"
    BY <2>1 DEF Accepted, InFlight
  <2>3. heap[o].last \in Remembering
    BY SessionType DEF Typed, TypeOK
  <2>4. heap[o].last = [id |-> req[q].id, status |-> "complete"]
    BY <2>1, <2>2, <2>3 DEF Remembering
  <2>5. a # req[q].id
    BY <1>3, <2>4 DEF Accepted, Remembered
  <2>6. req[q].id \in forgotten'
    BY <1>3, <2>1, <2>5 DEF Accepted, Supersedes
  <2> QED
    BY <1>3, <2>6
<1> QED
  BY <1>1, <1>2, <1>3

\* What an accepted turn does to the attempts the session vouches for.
LEMMA BegunVouched ==
    ASSUME Typed, Vouched, NEW r \in Requests, NEW o \in Objects, NEW a \in AttemptIds,
           Accepted(r, o, a), current' = current,
           NEW s, heap' = [heap EXCEPT ![o] = s],
           a = NoAttempt => s.last = heap[o].last,
           a # NoAttempt => s.last.id = a /\ s.last.status \in {"in-flight", "complete"},
           \A q \in Requests : q # r => req'[q] = req[q],
           req'[r].pc # "restored",
           \/ req'[r].id = a /\ req'[r].obj = o
           \/ req'[r].id = req[r].id /\ req'[r].pc \notin Streaming
    PROVE  Vouched'
<1>1. /\ o = current \/ Attempts \subseteq forgotten
      /\ forgotten \subseteq forgotten'
      /\ a # NoAttempt => \A q \in Requests : req[q].id \notin Attempts \ forgotten'
  BY AcceptedVouched
<1>2. current \in Objects /\ current # Nobody /\ heap \in [Objects -> Session]
  BY HoldsType, NamesAssumption DEF Accepted, Typed, TypeOK, Objects
<1>3. heap'[o] = s /\ (o # current => heap'[current] = heap[current])
  BY <1>2
<1>4. \A q \in Requests : req'[q].pc = "restored" =>
         req'[q].obj = current' \/ Attempts \subseteq forgotten'
  BY <1>1 DEF Vouched
<1>5. CASE a = NoAttempt
  <2>1. heap'[current].last = heap[current].last
    BY <1>3, <1>5
  <2>2. \A q \in Requests : req'[q].id \in Attempts \ forgotten' =>
           /\ req[q].id = req'[q].id /\ req[q].id \in Attempts \ forgotten
           /\ req'[q].pc \in Streaming => q # r
    BY <1>1, <1>5, NamesAssumption
  <2> QED
    BY <1>2, <1>4, <2>1, <2>2 DEF Vouched, Found
<1>6. CASE a # NoAttempt
  <2>1. \A q \in Requests : req'[q].id \in Attempts \ forgotten' =>
           q = r /\ req'[r].id = a /\ req'[r].obj = o
    BY <1>1, <1>6
  <2>2. \A q \in Requests : req'[q].id \in Attempts \ forgotten' =>
           /\ o = current
           /\ heap'[current].last.id = a
           /\ heap'[current].last.status \in {"in-flight", "complete"}
    BY <1>1, <1>2, <1>3, <1>6
  <2> QED
    BY <1>2, <1>4, <2>1, <2>2 DEF Vouched, Found
<1> QED
  BY <1>5, <1>6

\* So the turn it begins is the only one under the guard.
LEMMA StreamGuard ==
    ASSUME Typed, Covers, NEW r \in Requests, NEW o \in Objects, Stream(r, o)
    PROVE  Covers'
<1>1. PICK a \in AttemptIds :
        \/ resumed(r, o, a) \/ refused(r, o, a)
        \/ initOnDone(r, o, a) \/ initPrecomputed(r, o, a)
        \/ \E init \in BOOLEAN : streamTurn(r, o, a, init)
  BY DEF Stream, AttemptIds
<1>2. overran' = overran /\ current' = current
  BY <1>1
  DEF resumed, refused, initOnDone, initPrecomputed, streamTurn, sessionVars, ghostVars
<1>3. heap \in [Objects -> Session] /\ req \in [Requests -> Request]
  BY DEF Typed, TypeOK, Request, AttemptIds
<1>4. CASE resumed(r, o, a) \/ refused(r, o, a)
  <2>1. /\ EndAs(r, "ended") /\ heap' = heap /\ redis' = redis /\ forgotten' = forgotten
        /\ overran => overran'
    BY <1>2, <1>4 DEF resumed, refused, End, sessionVars, ghostVars
  <2> QED
    BY <1>2, <2>1, OneEnds
<1>5. CASE initOnDone(r, o, a) \/ initPrecomputed(r, o, a)
  <2>1. Accepted(r, o, a) /\ EndAs(r, "ended")
    BY <1>5 DEF initOnDone, initPrecomputed, End
  <2>2. req'[r].pc = "ended" /\ \A q \in Requests : q # r => req'[q] = req[q]
    BY <1>3, <2>1 DEF EndAs, Request
  <2>3. ~overran => \A q \in Requests : ~Named(q)'
    BY <2>1, <2>2, AcceptedGuard DEF Covers, Named, Streaming
  <2>4. ~overran => \A q \in Requests : req'[q].pc = "restored" => req'[q].obj = current'
    BY <1>2, <2>2 DEF Covers, GuardCovers
  <2>5. GuardCovers'
    BY <1>2, <2>3, <2>4 DEF GuardCovers
  <2> DEFINE t == [heap[o] EXCEPT !.turns = <<Turn("assistant", r)>>]
             pre == IF a = NoAttempt THEN t
                    ELSE [t EXCEPT !.last = [id |-> a, status |-> "complete"]]
             s == IF initOnDone(r, o, a) THEN Guard(heap[o], a) ELSE pre
  <2>6. heap' = [heap EXCEPT ![o] = s]
    BY <1>5, <1>3 DEF initOnDone, initPrecomputed, Session
  <2>7. /\ a = NoAttempt => s.last = heap[o].last
        /\ a # NoAttempt => s.last.id = a /\ s.last.status \in {"in-flight", "complete"}
    <3>1. /\ a = NoAttempt => Guard(heap[o], a).last = heap[o].last
          /\ a # NoAttempt => Guard(heap[o], a).last = InFlightGuard(a)
      BY <1>3, SessionType DEF InFlightGuard
    <3>2. t \in Session /\ t.last = heap[o].last
      BY <1>3, SessionType, TurnsType, HoldsType
    <3>3. /\ a = NoAttempt => pre.last = heap[o].last
          /\ a # NoAttempt => pre.last = [id |-> a, status |-> "complete"]
      <4> HIDE DEF t
      <4> QED
        BY <3>2 DEF Session
    <3> HIDE DEF pre
    <3> QED
      BY <3>1, <3>3 DEF InFlightGuard
  <2> HIDE DEF s
  <2>8. req'[r].id = req[r].id
    BY <1>3, <2>1 DEF EndAs, Request
  <2>9. Vouched'
    BY <1>2, <2>1, <2>2, <2>6, <2>7, <2>8, BegunVouched DEF Covers, Streaming
  <2> QED
    BY <2>5, <2>9 DEF Covers
<1>6. ASSUME NEW init \in BOOLEAN, streamTurn(r, o, a, init) PROVE Covers'
  <2> DEFINE g == Guard(heap[o], a)
             s == IF init /\ g.turns = <<>> THEN g
                  ELSE [g EXCEPT !.turns = Append(g.turns, Turn("user", r))]
  <2>1. Accepted(r, o, a) /\ heap' = [heap EXCEPT ![o] = s]
    BY <1>6 DEF streamTurn
  <2>2. /\ g \in Session
        /\ g.last = IF a = NoAttempt THEN heap[o].last ELSE InFlightGuard(a)
    BY <1>3, SessionType DEF InFlightGuard
  <2>3. s.last = IF a = NoAttempt THEN heap[o].last ELSE InFlightGuard(a)
    <3> HIDE DEF g
    <3> QED
      BY <2>2, SessionType, TurnsType, HoldsType
  <2>4. heap'[o] = s
    BY <1>3, <2>1
  <2> HIDE DEF s, g
  <2>5. /\ req'[r].pc = "model" /\ req'[r].obj = o /\ req'[r].id = a
        /\ \A q \in Requests : q # r => req'[q] = req[q]
    BY <1>3, <1>6 DEF streamTurn, Request
  <2>6. ~overran => \A q \in Requests : Named(q)' => q = r /\ a # NoAttempt
    BY <2>1, <2>5, AcceptedGuard DEF Covers, Named
  <2>7. ~overran => \A q \in Requests : req'[q].pc = "restored" => req'[q].obj = current'
    BY <1>2, <2>5 DEF Covers, GuardCovers
  <2>8. ~overran => o = current
    BY <2>1, AcceptedGuard DEF Covers
  <2>9. GuardCovers'
    BY <1>2, <2>3, <2>4, <2>5, <2>6, <2>7, <2>8 DEF GuardCovers
  <2>10. a # NoAttempt => s.last.id = a /\ s.last.status \in {"in-flight", "complete"}
    BY <2>3 DEF InFlightGuard
  <2>11. Vouched'
    BY <1>2, <2>1, <2>3, <2>5, <2>10, BegunVouched DEF Covers
  <2> QED
    BY <2>9, <2>11 DEF Covers
<1>7. QED
  BY <1>1, <1>4, <1>5, <1>6
\* What a working request does to an object but for its guard.
LEMMA SameGuard ==
    ASSUME Typed, NEW r \in Requests, req[r].pc \in Working, NEW o \in Objects,
           NEW s \in Session, s.last = heap[o].last, heap' = [heap EXCEPT ![o] = s]
    PROVE  heap'[current].last = heap[current].last /\ current # Nobody
<1>1. current \in Objects /\ heap \in [Objects -> Session] /\ current # Nobody
  BY NamesAssumption DEF Typed, TypeOK, InHand, Objects
<1>2. QED
  BY <1>1

LEMMA ModelGuard ==
    ASSUME Typed, Covers, NEW r \in Requests, Model(r)
    PROVE  Covers'
<1> DEFINE s == heap[req[r].obj]
           p == Produced(s, r)
           done == [s EXCEPT !.stageDone = TRUE]
           first == [p EXCEPT !.stageDone = TRUE]
           Cut(t) == [s EXCEPT !.turns = t]
           error == IF s.turns # <<>> /\ Last(s.turns).role = "user"
                    THEN Front(s.turns) ELSE s.turns
           empty == IF s.turns # <<>> THEN Front(s.turns) ELSE s.turns
<1>1. /\ s \in Session /\ p \in Session /\ s.turns \in Turns
      /\ p.last = s.last /\ req[r].obj \in Objects
  BY HoldsType, SessionType DEF Request
<1>2. /\ done \in Session /\ done.last = s.last
      /\ first \in Session /\ first.last = s.last
  BY <1>1, SessionType
<1>3. /\ Cut(error) \in Session /\ Cut(error).last = s.last
      /\ Cut(empty) \in Session /\ Cut(empty).last = s.last
  <2>1. \A t \in Turns : Cut(t) \in Session /\ Cut(t).last = s.last
    BY <1>1, SessionType
  <2>2. error \in Turns /\ empty \in Turns
    BY <1>1, TurnsType
  <2> HIDE DEF Cut, error, empty
  <2>3. QED
    BY <2>1, <2>2
<1>4. req[r].pc \in Streaming /\ overran' = overran /\ forgotten \subseteq forgotten'
  BY DEF Model, modelError, modelEmpty, replyText, replyUnsaved, replyFirst, replyAgain,
     commitFails, commitEnds, hookEnds, Finish, Streaming, ghostVars
<1>5. req[r].pc \in Working
  BY <1>4 DEF Working
<1>6. CASE modelError(r)
  <2>1. heap' = [heap EXCEPT ![req[r].obj] = Cut(error)] /\ current' = current /\ EndAs(r, "ended")
    BY <1>6 DEF modelError, End
  <2> HIDE DEF s, Cut, error
  <2>2. QED
    BY <1>1, <1>3, <1>4, <1>5, <2>1, SameGuard, OneEnds DEF s
<1>7. CASE modelEmpty(r)
  <2>1. heap' = [heap EXCEPT ![req[r].obj] = Cut(empty)] /\ current' = current /\ EndAs(r, "ended")
    BY <1>7 DEF modelEmpty, End
  <2> HIDE DEF s, Cut, empty
  <2>2. QED
    BY <1>1, <1>3, <1>4, <1>5, <2>1, SameGuard, OneEnds DEF s
<1>8. CASE replyText(r)
  <2>1. Finish(r, s, FALSE)
    BY <1>8 DEF replyText
  <2>2. QED
    BY <1>1, <1>4, <2>1, FinishGuard
<1>9. CASE replyUnsaved(r)
  <2>1. heap' = [heap EXCEPT ![req[r].obj] = p] /\ current' = current /\ EndAs(r, "unsaved")
    BY <1>9 DEF replyUnsaved
  <2> HIDE DEF s, p
  <2>2. QED
    BY <1>1, <1>4, <1>5, <2>1, SameGuard, OneEnds DEF s
<1>10. CASE replyFirst(r)
  <2>1. PICK pc \in {"commit", "hook"}, t \in {p, first} :
           /\ req' = [req EXCEPT ![r] = [req[r] EXCEPT !.pc = pc]]
           /\ heap' = [heap EXCEPT ![req[r].obj] = t]
    BY <1>10 DEF replyFirst, Step
  <2>2. pc \in Streaming /\ pc \in Working
    BY DEF Streaming, Working
  <2>3. t \in Session /\ t.last = s.last
    BY <1>1, <1>2
  <2>4. current' = current
    BY <1>10 DEF replyFirst
  <2> DEFINE q == [req[r] EXCEPT !.pc = pc]
  <2>5. q \in Request /\ q.pc = pc /\ q.obj = req[r].obj /\ q.id = req[r].id
    BY <2>2, HoldsType, RequestType DEF Request
  <2> HIDE DEF s, q, p, first
  <2>6. heap'[current].last = heap[current].last /\ current # Nobody
    BY <1>1, <1>5, <2>1, <2>3, SameGuard DEF s
  <2>7. req' = [req EXCEPT ![r] = q]
    BY <2>1 DEF q
  <2>8. QED
    BY <1>4, <2>2, <2>4, <2>5, <2>6, <2>7, OneMoves
<1>11. CASE replyAgain(r)
  <2>1. Finish(r, p, TRUE)
    BY <1>11 DEF replyAgain
  <2>2. QED
    BY <1>1, <1>4, <2>1, FinishGuard
<1>12. CASE commitFails(r)
  BY <1>4, <1>12, OneEnds DEF commitFails, sessionVars
<1>13. CASE commitEnds(r)
  <2>1. Finish(r, done, TRUE)
    BY <1>13 DEF commitEnds
  <2>2. QED
    BY <1>2, <1>4, <2>1, FinishGuard
<1>14. CASE hookEnds(r)
  <2>1. Finish(r, s, TRUE)
    BY <1>14 DEF hookEnds
  <2>2. QED
    BY <1>1, <1>4, <2>1, FinishGuard
<1>15. QED
  BY <1>6, <1>7, <1>8, <1>9, <1>10, <1>11, <1>12, <1>13, <1>14 DEF Model
LEMMA JsonGuard ==
    ASSUME Typed, Covers, NEW r \in Requests,
           JsonTurn(r) \/ \E o \in Objects : jsonArrive(r, o) \/ jsonBusy(r, o)
    PROVE  Covers'
<1>1. current' = current /\ overran' = overran /\ forgotten' = forgotten
  BY DEF JsonTurn, jsonArrive, jsonBusy, jsonBody, jsonInitOnDone, jsonReply, sessionVars,
     ghostVars
<1>2. CASE jsonInitOnDone(r) \/ \E o \in Objects : jsonBusy(r, o)
  BY <1>1, <1>2, OneEnds DEF jsonInitOnDone, jsonBusy, End, sessionVars
<1>3. ASSUME NEW o \in Objects, jsonArrive(r, o) PROVE Covers'
  <2> DEFINE q == [req[r] EXCEPT !.pc = "body", !.obj = o]
  <2>1. q.pc = "body" /\ q \in Request /\ q.id = req[r].id
    BY HoldsType, RequestType DEF Request, Working, Json
  <2>2. req' = [req EXCEPT ![r] = q] /\ heap' = heap /\ redis' = redis
    BY <1>3 DEF jsonArrive, sessionVars
  <2>3. "body" \notin Streaming \cup {"restored"}
    BY DEF Streaming
  <2> HIDE DEF q
  <2>4. QED
    BY <1>1, <2>1, <2>2, <2>3, OneMoves
<1>4. CASE jsonBody(r)
  <2>1. req[r].pc \in Working /\ current \in Objects
    BY <1>4 DEF jsonBody, Working, Json, Typed, InHand
  <2> DEFINE q == [req[r] EXCEPT !.pc = "executor", !.obj = current]
             s == [heap[current] EXCEPT !.turns = Append(@, Turn("user", r))]
  <2>2. q \in Request /\ q.pc = "executor" /\ q.id = req[r].id
    BY <2>1, HoldsType, RequestType DEF Request, Working, Json
  <2>3. heap[current] \in Session
    BY <2>1 DEF Typed, TypeOK
  <2>4. s \in Session /\ s.last = heap[current].last
    BY <2>3, SessionType, TurnsType, HoldsType
  <2>5. heap' = [heap EXCEPT ![current] = s] /\ req' = [req EXCEPT ![r] = q]
    BY <1>4 DEF jsonBody
  <2>6. "executor" \notin Streaming \cup {"restored"}
    BY DEF Streaming
  <2> HIDE DEF q, s
  <2>7. QED
    BY <1>1, <2>1, <2>2, <2>4, <2>5, <2>6, SameGuard, OneMoves
<1>5. ASSUME NEW done \in BOOLEAN, jsonReply(r, done) PROVE Covers'
  <2> DEFINE old == heap[req[r].obj]
             new == IF done THEN Produced(old, r) ELSE old
             s == [new EXCEPT !.turns = Append(@, Turn("assistant", r))]
  <2>1. old \in Session /\ req[r].pc \in Working /\ req[r].obj \in Objects
    BY <1>5, HoldsType DEF jsonReply, Working, Json, Request
  <2>2. new \in Session /\ new.last = old.last
    BY <2>1, SessionType
  <2>3. s \in Session /\ s.last = old.last
    <3> HIDE DEF new
    <3>1. QED
      BY <2>2, SessionType, TurnsType, HoldsType
  <2>4. heap' = [heap EXCEPT ![req[r].obj] = s] /\ EndAs(r, "ended")
    BY <1>5 DEF jsonReply, End
  <2> HIDE DEF s, new
  <2>5. QED
    BY <1>1, <2>1, <2>3, <2>4, SameGuard, OneEnds
<1>6. QED
  BY <1>2, <1>3, <1>4, <1>5 DEF JsonTurn

LEMMA ConfirmGuard ==
    ASSUME Typed, Covers, NEW r \in Requests, Confirm(r)
    PROVE  Covers'
<1>1. current' = current /\ overran' = overran /\ forgotten' = forgotten
  BY DEF Confirm, confirm, confirmSaved, confirmFails, confirmCompletes, sessionVars,
     ghostVars
<1>2. "confirm save" \notin Streaming \cup {"restored"} /\ "confirm commit" \notin Streaming \cup {"restored"}
  BY DEF Streaming
<1>3. "confirm save" \in Working /\ "confirm commit" \in Working
  BY DEF Working, Confirming
<1>4. CASE confirm(r)
  <2> DEFINE q == [req[r] EXCEPT !.pc = "confirm save", !.obj = current,
                                 !.art = heap[current].content]
  <2>1. current \in Objects /\ heap[current].content \in Artefacts
    BY <1>4, SessionType, HoldsType DEF confirm, Typed, TypeOK
  <2>2. q \in Request /\ q.pc = "confirm save" /\ q.id = req[r].id
    <3>1. q \in Request
      BY <1>3, <2>1, HoldsType, RequestType
    <3>2. req[r] \in Request
      BY HoldsType
    <3>3. QED
      BY <3>1, <3>2 DEF Request
  <2>3. req' = [req EXCEPT ![r] = q] /\ heap' = heap /\ redis' = redis
    BY <1>4 DEF confirm, sessionVars
  <2> HIDE DEF q
  <2>4. QED
    BY <1>1, <1>2, <2>2, <2>3, OneMoves
<1>5. CASE confirmSaved(r)
  <2> DEFINE q == [req[r] EXCEPT !.pc = "confirm commit"]
  <2>1. q \in Request /\ q.pc = "confirm commit" /\ q.id = req[r].id
    <3>1. q \in Request
      BY <1>3, HoldsType, RequestType
    <3>2. req[r] \in Request
      BY HoldsType
    <3>3. QED
      BY <3>1, <3>2 DEF Request
  <2>2. EndAs(r, "ended") \/ req' = [req EXCEPT ![r] = q]
    BY <1>5 DEF confirmSaved, End
  <2>3. heap' = heap /\ redis' = redis
    BY <1>5 DEF confirmSaved, sessionVars
  <2> HIDE DEF q
  <2>4. QED
    BY <1>1, <1>2, <2>1, <2>2, <2>3, OneMoves, OneEnds
<1>6. CASE confirmFails(r)
  BY <1>1, <1>6, OneEnds DEF confirmFails, End, sessionVars
<1>7. CASE confirmCompletes(r)
  <2> DEFINE s == [heap[req[r].obj] EXCEPT !.stageDone = TRUE]
  <2>1. s \in Session /\ s.last = heap[req[r].obj].last /\ req[r].obj \in Objects
    BY HoldsType, SessionType DEF Request
  <2>2. heap' = [heap EXCEPT ![req[r].obj] = s] /\ EndAs(r, "ended") /\ req[r].pc \in Working
    BY <1>7 DEF confirmCompletes, End, Working, Confirming
  <2> HIDE DEF s
  <2>3. QED
    BY <1>1, <2>1, <2>2, SameGuard, OneEnds
<1>8. QED
  BY <1>4, <1>5, <1>6, <1>7 DEF Confirm

\* A guard that expires under its turn, and a second restore, are what overran
\* records; a restart interrupts every turn.
LEMMA OtherGuard ==
    ASSUME Typed, Covers,
           \/ \E r \in Requests : missing(r) \/ restore(r) \/ restoreGone(r)
           \/ \E c \in Artefacts : saveSettles(c)
           \/ \E o \in Objects : expire(o)
           \/ \E wiped \in BOOLEAN : restart(wiped)
           \/ UNCHANGED vars
    PROVE  Covers'
<1>1. heap \in [Objects -> Session] /\ req \in [Requests -> Request]
  BY DEF Typed, TypeOK, Request, AttemptIds
<1>2. ASSUME NEW r \in Requests, missing(r) \/ restoreGone(r) PROVE Covers'
  <2>1. /\ heap' = heap /\ redis' = redis /\ current' = current
        /\ overran' = overran /\ forgotten' = forgotten
    BY <1>2 DEF missing, restoreGone, sessionVars, ghostVars
  <2> DEFINE q == [req[r] EXCEPT !.pc = "restoring"]
  <2>2. q \in Request /\ q.pc = "restoring" /\ q.id = req[r].id /\ "restoring" \notin Streaming \cup {"restored"}
    BY HoldsType, RequestType DEF Request, Streaming
  <2>3. EndAs(r, "ended") \/ req' = [req EXCEPT ![r] = q]
    BY <1>2 DEF missing, restoreGone, End
  <2> HIDE DEF q
  <2>4. QED
    BY <2>1, <2>2, <2>3, OneMoves, OneEnds
<1>3. ASSUME NEW r \in Requests, restore(r) PROVE Covers'
  <2>1. ~overran' => ~overran /\ current = Nobody
    BY <1>3 DEF restore
  <2>2. Nobody \notin Objects
    BY NamesAssumption DEF Objects
  <2>3. ~overran' => \A q \in Requests : ~Named(q) /\ req[q].pc # "restored"
    BY <2>1, <2>2 DEF Typed, InHand, Named, Working
  <2>4. /\ req'[r].pc = "restored" /\ req'[r].obj = r
        /\ \A q \in Requests : q # r => req'[q] = req[q]
    BY <1>1, <1>3 DEF restore, Request
  <2>5. current' = r
    BY <1>3 DEF restore
  <2>6. ~overran' => \A q \in Requests : ~Named(q)'
    BY <2>3, <2>4 DEF Named, Streaming
  <2>7. ~overran' => \A q \in Requests : req'[q].pc = "restored" => req'[q].obj = current'
    BY <2>3, <2>4, <2>5
  <2>8. GuardCovers'
    BY <2>6, <2>7 DEF GuardCovers
  <2>9. /\ forgotten' = IF current # Nobody THEN Attempts ELSE forgotten
        /\ \A q \in Requests : req'[q].id = req[q].id
    BY <1>1, <1>3 DEF restore, Request
  <2>10. ASSUME NEW q \in Requests, req'[q].id \in Attempts \ forgotten'
         PROVE  /\ Found'.last.id = req'[q].id
                /\ Found'.last.status \in {"in-flight", "complete"}
                /\ req'[q].pc \notin Streaming
    <3>1. /\ current = Nobody /\ redis # Nobody
          /\ redis.last.id = req[q].id
          /\ redis.last.status \in {"in-flight", "complete"}
      BY <2>9, <2>10 DEF Covers, Vouched, Found
    <3>2. redis \in Session
      BY <3>1 DEF Typed, TypeOK
    <3>3. heap'[r] = [redis EXCEPT !.step1 = heap[Boot].step1]
      BY <1>1, <1>3, HoldsType DEF restore
    <3>4. heap'[r].last = redis.last
      BY <3>2, <3>3 DEF Session
    <3>5. Found' = heap'[r]
      BY <2>2, <2>5, HoldsType DEF Found
    <3>6. req'[q].pc \notin Streaming
      BY <2>2, <2>4, <3>1 DEF Typed, InHand, Working, Streaming
    <3>7. QED
      BY <2>9, <3>1, <3>4, <3>5, <3>6
  <2>11. \A q \in Requests : req'[q].pc = "restored" => q = r \/ forgotten' = Attempts
    BY <2>2, <2>4, <2>9 DEF Typed, InHand
  <2>12. current' # Nobody
    BY <2>2, <2>5, HoldsType
  <2>13. Vouched'
    <3>1. \A q \in Requests : req'[q].id \in Attempts \ forgotten' =>
             req[q].id \in Attempts \ forgotten
      BY <2>9
    <3>2. \A q \in Requests : req'[q].pc = "restored" =>
             req'[q].obj = current' \/ Attempts \subseteq forgotten'
      BY <2>4, <2>5, <2>11
    <3>3. \A q, p \in Requests :
             req'[q].id \in Attempts \ forgotten' /\ req'[p].id = req'[q].id => q = p
      BY <2>9, <3>1 DEF Covers, Vouched
    <3>4. QED
      BY <2>10, <2>12, <3>2, <3>3 DEF Vouched
  <2> QED
    BY <2>8, <2>13 DEF Covers
<1>4. ASSUME NEW o \in Objects, expire(o) PROVE Covers'
  <2>1. req' = req /\ current' = current
    BY <1>4 DEF expire
  <2>2. o # current => heap'[current] = heap[current]
    BY <1>1, <1>4 DEF expire
  <2>3. ASSUME ~overran', NEW r \in Requests, Named(r)
        PROVE  o # current
    <3>1. ~overran /\ (req[r].obj = o => req[r].id # heap[o].last.id)
      BY <1>4, <2>3 DEF expire, Workers, Named, Working
    <3>2. req[r].obj = current /\ heap[current].last.id = req[r].id
      <4>1. \A x : InFlightGuard(x).id = x
        BY DEF InFlightGuard
      <4>2. req[r].obj = current /\ heap[current].last = InFlightGuard(req[r].id)
        BY <2>3, <3>1 DEF Covers, GuardCovers
      <4>3. QED
        BY <4>1, <4>2
    <3>3. QED
      BY <3>1, <3>2
  <2>4. ~overran' => ~overran
    BY <1>4 DEF expire
  <2>5. GuardCovers'
    BY <2>1, <2>2, <2>3, <2>4 DEF Covers, GuardCovers, Named
  <2>6. forgotten' = forgotten \cup {heap[o].last.id} /\ redis' = redis
    BY <1>4 DEF expire
  <2>7. Vouched'
    BY <2>1, <2>2, <2>6 DEF Covers, Vouched, Found
  <2> QED
    BY <2>5, <2>7 DEF Covers
<1>5. ASSUME NEW wiped \in BOOLEAN, restart(wiped) PROVE Covers'
  <2>1. \A r \in Requests : req'[r].pc \notin Streaming \cup {"restored"}
    BY <1>1, <1>5 DEF restart, Request, Streaming
  <2> DEFINE copy == IF wiped THEN Nobody ELSE disk
             goesOn == IF copy = Nobody THEN redis ELSE copy
  <2>2. forgotten' = forgotten \cup (Attempts \ Remembers(goesOn)) /\ redis' = redis
    BY <1>5 DEF restart
  <2>3. /\ current' = IF copy = Nobody THEN Nobody ELSE Boot
        /\ copy # Nobody => heap'[Boot] = copy
    BY <1>1, <1>5 DEF restart, Objects
  <2>4. goesOn \in Session \cup {Nobody} /\ Boot # Nobody
    BY NamesAssumption DEF Typed, TypeOK
  <2>5. goesOn = IF current' = Nobody THEN redis' ELSE heap'[Boot]
    BY <2>2, <2>3, <2>4
  <2> HIDE DEF copy, goesOn
  <2>6. Found' = goesOn
    BY <2>2, <2>3, <2>5 DEF Found
  <2>7. \A r \in Requests : req'[r].id = req[r].id
    BY <1>1, <1>5 DEF restart, Request
  <2>8. ASSUME NEW r \in Requests, req'[r].id \in Attempts \ forgotten'
        PROVE  /\ goesOn # Nobody
               /\ goesOn.last.id = req'[r].id
               /\ goesOn.last.status \in {"in-flight", "complete"}
    <3>1. req'[r].id \in Remembers(goesOn)
      BY <2>2, <2>8
    <3>2. goesOn # Nobody /\ goesOn.last.status # "stale" /\ goesOn.last.id = req'[r].id
      BY <3>1 DEF Remembers
    <3>3. goesOn.last \in Remembering
      BY <2>4, <3>2 DEF Session
    <3>4. QED
      BY <2>8, <3>2, <3>3, NamesAssumption DEF Remembering
  <2>9. Vouched'
    BY <2>1, <2>2, <2>3, <2>5, <2>6, <2>7, <2>8 DEF Covers, Vouched
  <2>10. GuardCovers'
    BY <2>1 DEF GuardCovers, Named
  <2>11. QED
    BY <2>9, <2>10 DEF Covers
<1>6. CASE (\E c \in Artefacts : saveSettles(c)) \/ UNCHANGED vars
  BY <1>6 DEF saveSettles, vars, sessionVars, Covers, GuardCovers, Vouched, Found, Named
<1>7. QED
  BY <1>2, <1>3, <1>4, <1>5, <1>6

LEMMA CoversInvariant == Spec => [](Typed /\ Covers)
<1>1. Init => Typed /\ Covers
  <2>1. Init => \A r \in Requests : req[r].pc = "unsent" /\ req[r].id = NoAttempt
    BY DEF Init
  <2>2. QED
    BY TypedInit, <2>1, NamesAssumption DEF Covers, GuardCovers, Vouched, Named, Streaming
<1>2. Typed /\ Covers /\ [Next]_vars => (Typed /\ Covers)'
  BY TypedStep, StreamGuard, ModelGuard, JsonGuard, ConfirmGuard, OtherGuard DEF Next
<1>3. QED
  BY <1>1, <1>2, PTL DEF Spec

\* Two named streamed turns run at once only after a guard stopped covering
\* the first.
THEOREM GuardedTurnsExclusive == Spec => []NamedTurnsExclusive
<1>1. Covers => NamedTurnsExclusive
  BY DEF Covers, GuardCovers, Named, NamedTurnsExclusive
<1>2. QED
  BY <1>1, CoversInvariant, PTL

\* A retry of an attempt, sent while its turn runs or after it has ended, also
\* when a restart or a restore came between, is not billed on top of it while the
\* session, or the copy the server goes on from, remembers the attempt: no second
\* turn for it is begun (skills.js:5030-5064).
THEOREM RetriesAreNotBilled == Spec => []BilledOnce
<1>1. Typed /\ Covers => BilledOnce
  BY DEF Typed, TypeOK, Covers, Vouched, BilledOnce
<1>2. QED
  BY <1>1, CoversInvariant, PTL

\* Turns of one kind exclude each other, by the in-flight guard as far as it
\* covers, by the journey's flag without exception (skills.js:4876-4896, 5037-5064).
THEOREM TurnsExclude == Spec => []TurnsExclusive
<1>1. JsonExclusive /\ NamedTurnsExclusive => TurnsExclusive
  BY DEF TurnsExclusive
<1>2. QED
  BY <1>1, JsonTurnsExclusive, GuardedTurnsExclusive, PTL

-------------------------------------------------------------------------------
(***************************************************************************)
(* How often the stage is completed, however requests overlap.             *)
(***************************************************************************)
Committing == {"commit", "confirm commit"}

\* Requests work on the object in the store.
OnStore == \A r \in Requests : req[r].pc \in {"restored"} \cup Working => req[r].obj = current

\* A request that commits has found the stage open, or was overtaken since.
FoundOpen == \A r \in Requests : req[r].pc \in Committing => entries = 0 \/ r \in late

\* The session knows that its stage has its entry, as long as gate-confirm could
\* complete it or is just about to look.
StoreKnows ==
    /\ entries # 0 /\ current # Nobody
    /\ active \/ \E r \in Requests : req[r].pc = "confirm save"
    => heap[current].stageDone

\* So does every copy an active session can be restored from.
CopiesKnow ==
    entries # 0 /\ active =>
        /\ disk # Nobody => disk.stageDone
        /\ redis # Nobody => redis.done \/ redis.stageDone

\* A request that waits for a restore finds a copy that is not done.
CopyWaits ==
    current = Nobody =>
        \A r \in Requests : req[r].pc = "restoring" => redis # Nobody /\ ~redis.done

OnceParts == OnStore /\ FoundOpen /\ StoreKnows /\ CopiesKnow /\ CopyWaits
Once == ~astray => OnceParts

\* What the steps make of _stageDone.
LEMMA StageDoneOf ==
    ASSUME NEW s \in Session
    PROVE  /\ s.stageDone \in BOOLEAN /\ s.done \in BOOLEAN
           /\ \A t : [s EXCEPT !.turns = t].stageDone = s.stageDone
           /\ \A l : [s EXCEPT !.last = l].stageDone = s.stageDone
           /\ \A a : Guard(s, a).stageDone = s.stageDone
           /\ \A r : Produced(s, r).stageDone = s.stageDone
           /\ [s EXCEPT !.stageDone = TRUE].stageDone = TRUE
           /\ [s EXCEPT !.last.status = "stale"].stageDone = s.stageDone
           /\ \A b : [s EXCEPT !.step1 = b].stageDone = s.stageDone
BY DEF Session, Guard, Produced

\* Where a request may go while no entry is added.
Goes(r) ==
    /\ req'[r].pc \in {"restored"} \cup Working => req'[r].obj = current
    /\ req'[r].pc \in Committing => req[r].pc \in Committing \/ entries = 0
    /\ req'[r].pc = "confirm save" => req[r].pc = "confirm save" \/ active
    /\ req'[r].pc = "restoring" => req[r].pc = "restoring" \/ Restorable

\* A step that adds no entry and keeps what the session and its copies know.
LEMMA OnceKept ==
    ASSUME Once, NEW r \in Requests, ~astray => Goes(r), astray => astray',
           \A q \in Requests \ {r} : req'[q] = req[q],
           UNCHANGED <<current, entries>>, active' => active, late \subseteq late',
           \/ heap' = heap
           \/ current # Nobody /\ (heap[current].stageDone => heap'[current].stageDone),
           \/ astray
           \/ disk' = disk
           \/ current # Nobody /\ (heap[current].stageDone => disk'.stageDone),
           \/ astray
           \/ redis' = redis
           \/ current # Nobody /\ (heap[current].stageDone => redis' = Nobody \/ redis'.stageDone)
    PROVE  Once'
<1> SUFFICES ASSUME ~astray PROVE OnceParts'
  BY DEF Once
<1>1. OnceParts /\ Goes(r)
  BY DEF Once
<1>2. OnStore'
  BY <1>1 DEF OnceParts, OnStore, Goes
<1>3. FoundOpen'
  BY <1>1 DEF OnceParts, FoundOpen, Goes
<1>4. StoreKnows'
  <2> SUFFICES ASSUME entries # 0, current # Nobody,
                      active' \/ \E q \in Requests : req'[q].pc = "confirm save"
               PROVE  heap'[current].stageDone
    BY DEF StoreKnows
  <2>1. active \/ \E q \in Requests : req[q].pc = "confirm save"
    BY <1>1 DEF Goes
  <2>2. QED
    BY <1>1, <2>1 DEF OnceParts, StoreKnows
<1>5. CopiesKnow'
  BY <1>1 DEF OnceParts, StoreKnows, CopiesKnow
<1>6. CopyWaits'
  BY <1>1 DEF OnceParts, CopyWaits, Goes, Restorable
<1>7. QED
  BY <1>2, <1>3, <1>4, <1>5, <1>6 DEF OnceParts

\* A request that ends or is held up, and leaves the sessions alone.
LEMMA QuietOnce ==
    ASSUME Typed, Once, NEW r \in Requests,
           \/ missing(r) \/ restoreGone(r) \/ commitFails(r) \/ confirmFails(r)
           \/ jsonInitOnDone(r)
           \/ \E o \in Objects :
                 \/ jsonBusy(r, o)
                 \/ \E a \in AttemptIds : resumed(r, o, a) \/ refused(r, o, a)
    PROVE  Once' /\ entries' = entries
<1>1. \/ EndAs(r, "ended") \/ EndAs(r, "unsaved")
      \/ Restorable /\ req' = [req EXCEPT ![r].pc = "restoring"]
  BY DEF missing, restoreGone, commitFails, confirmFails, jsonInitOnDone, jsonBusy,
     resumed, refused, End
<1>2. UNCHANGED <<current, heap, disk, redis, entries, active, late, astray>>
  BY DEF missing, restoreGone, commitFails, confirmFails, jsonInitOnDone, jsonBusy,
     resumed, refused, sessionVars, stageVars, ghostVars, onceVars
<1>3. /\ \A q \in Requests \ {r} : req'[q] = req[q]
      /\ \/ req'[r].pc \in {"ended", "unsaved"}
         \/ Restorable /\ req'[r].pc = "restoring"
  BY <1>1 DEF EndAs, Typed, TypeOK
<1>4. Goes(r)
  BY <1>3 DEF Goes, Working, Streaming, Json, Confirming, Committing
<1>5. QED
  BY <1>2, <1>3, <1>4, OnceKept

\* A turn that arrives.
LEMMA BeginOnce ==
    ASSUME Typed, Once, NEW r \in Requests, NEW o \in Objects, NEW a \in AttemptIds,
           \/ initOnDone(r, o, a) \/ initPrecomputed(r, o, a)
           \/ \E init \in BOOLEAN : streamTurn(r, o, a, init)
           \/ jsonArrive(r, o)
    PROVE  Once' /\ entries' = entries
<1>1. /\ UNCHANGED <<current, disk, redis, entries, active, late, astray>>
      /\ Holds(r, o)
  BY DEF initOnDone, initPrecomputed, streamTurn, jsonArrive, Accepted, sessionVars,
     stageVars, onceVars
<1>2. heap[o] \in Session /\ current # Nobody
  BY <1>1, HoldsType, NamesAssumption DEF Typed, TypeOK, Objects
<1>3. ~astray => o = current
  BY <1>1, <1>2 DEF Once, OnceParts, OnStore, Holds
<1>4. /\ \A q \in Requests \ {r} : req'[q] = req[q]
      /\ \/ req'[r].pc = "ended"
         \/ req'[r].pc \in {"model", "body"} /\ req'[r].obj = o
  BY DEF initOnDone, initPrecomputed, streamTurn, jsonArrive, End, EndAs, Typed, TypeOK
<1>5. ~astray => Goes(r)
  BY <1>3, <1>4 DEF Goes, Working, Streaming, Json, Confirming, Committing
<1>6. heap'[current].stageDone = heap[current].stageDone
  <2> DEFINE g == Guard(heap[o], a)
             pre == [heap[o] EXCEPT !.turns = <<Turn("assistant", r)>>]
             t == Append(g.turns, Turn("user", r))
             Last2 == [id |-> a, status |-> "complete"]
  <2>1. g \in Session /\ g.stageDone = heap[o].stageDone
    BY <1>2, SessionType, StageDoneOf
  <2>2. pre \in Session /\ pre.stageDone = heap[o].stageDone
    BY <1>2, SessionType, TurnsType, HoldsType, StageDoneOf
  <2>3. /\ [g EXCEPT !.turns = t].stageDone = heap[o].stageDone
        /\ [pre EXCEPT !.last = Last2].stageDone = heap[o].stageDone
    <3> HIDE DEF g, pre, t, Last2
    <3>1. QED
      BY <2>1, <2>2, StageDoneOf
  <2>4. PICK s : /\ heap' = [heap EXCEPT ![o] = s] \/ heap' = heap
                 /\ s.stageDone = heap[o].stageDone
    <3>1. CASE initOnDone(r, o, a)
      <4>1. heap' = [heap EXCEPT ![o] = g]
        BY <3>1 DEF initOnDone
      <4>2. QED
        BY <2>1, <4>1
    <3>2. CASE initPrecomputed(r, o, a)
      <4>1. \/ heap' = [heap EXCEPT ![o] = pre]
            \/ heap' = [heap EXCEPT ![o] = [pre EXCEPT !.last = Last2]]
        BY <1>2, <3>2 DEF initPrecomputed, Session, Typed, TypeOK
      <4> HIDE DEF pre, Last2
      <4>2. QED
        BY <2>2, <2>3, <4>1
    <3>3. CASE \E init \in BOOLEAN : streamTurn(r, o, a, init)
      <4>1. \/ heap' = [heap EXCEPT ![o] = g]
            \/ heap' = [heap EXCEPT ![o] = [g EXCEPT !.turns = t]]
        BY <3>3 DEF streamTurn
      <4> HIDE DEF g, t
      <4>2. QED
        BY <2>1, <2>3, <4>1
    <3>4. CASE jsonArrive(r, o)
      BY <3>4 DEF jsonArrive, sessionVars
    <3>5. QED
      BY <3>1, <3>2, <3>3, <3>4
  <2>5. QED
    BY <1>2, <2>4 DEF Typed, TypeOK
<1>7. QED
  BY <1>1, <1>2, <1>4, <1>5, <1>6, OnceKept

\* What a request that works writes back, to its object and to the copies.
LEMMA WritesOnce ==
    ASSUME Typed, Once, NEW r \in Requests, req[r].pc \in Working, ~astray => Goes(r),
           astray => astray', \A q \in Requests \ {r} : req'[q] = req[q],
           UNCHANGED <<current, entries>>, active' => active, late \subseteq late',
           NEW s, heap' = [heap EXCEPT ![req[r].obj] = s],
           heap[req[r].obj].stageDone => s.stageDone,
           \/ disk' = disk
           \/ heap[req[r].obj].stageDone => disk'.stageDone,
           \/ redis' = redis
           \/ heap[req[r].obj].stageDone => redis' = Nobody \/ redis'.stageDone
    PROVE  Once'
<1>1. current # Nobody /\ current \in Objects
  BY NamesAssumption DEF Typed, InHand, Objects
<1>2. ~astray => req[r].obj = current
  BY DEF Once, OnceParts, OnStore
<1>3. heap[current].stageDone => heap'[current].stageDone
  BY <1>1 DEF Typed, TypeOK
<1>4. QED
  BY <1>1, <1>2, <1>3, OnceKept

\* A request that stays where it is in the store.
LEMMA GoesOn ==
    ASSUME Typed, Once, NEW r \in Requests, req[r].pc \in Working, ~astray,
           \/ req'[r].pc \in {"ended", "unsaved"}
           \/ /\ req'[r].pc \in Working \ {"confirm save"} /\ req'[r].obj = req[r].obj
              /\ req'[r].pc \in Committing => entries = 0
    PROVE  Goes(r)
BY DEF Once, OnceParts, OnStore, Goes, Working, Streaming, Json, Confirming, Committing

\* The tail of a streamed turn that adds no entry.
LEMMA FinishOnce ==
    ASSUME Typed, Once, NEW r \in Requests, req[r].pc \in Working, NEW s \in Session,
           NEW done \in BOOLEAN, Finish(r, s, done),
           heap[req[r].obj].stageDone => s.stageDone,
           UNCHANGED <<entries, active, late>>
    PROVE  Once'
<1> DEFINE answer == [s EXCEPT !.turns = Append(@, Turn("assistant", r))]
           l == [id |-> req[r].id, status |-> "complete"]
           after == IF req[r].id = NoAttempt THEN answer ELSE [answer EXCEPT !.last = l]
<1>1. answer \in Session /\ answer.stageDone = s.stageDone
  <2>1. answer \in Session
    BY SessionType, TurnsType, HoldsType
  <2>2. QED
    BY <2>1, StageDoneOf
<1>2. after.stageDone = s.stageDone
  <2> HIDE DEF answer, l
  <2>1. QED
    BY <1>1, StageDoneOf
<1>3. /\ heap' = [heap EXCEPT ![req[r].obj] = after] /\ disk' = answer
      /\ redis' \in {Nobody, answer, redis} /\ current' = current /\ (astray => astray')
      /\ EndAs(r, "ended")
  BY DEF Finish, End, Typed, TypeOK
<1> HIDE DEF answer, after
<1>4. /\ \A q \in Requests \ {r} : req'[q] = req[q]
      /\ req'[r].pc = "ended"
  BY <1>3 DEF EndAs, Typed, TypeOK
<1>5. ~astray => Goes(r)
  BY <1>4, GoesOn
<1>6. QED
  BY <1>1, <1>2, <1>3, <1>4, <1>5, WritesOnce

\* The turn that completes the stage: the session and the file know, and Redis
\* has no copy unless it kept the one it was to delete.
LEMMA CommitOnce ==
    ASSUME Typed, Once, NEW r \in Requests, commitEnds(r)
    PROVE  Once'
<1> DEFINE s == [heap[req[r].obj] EXCEPT !.stageDone = TRUE]
           answer == [s EXCEPT !.turns = Append(@, Turn("assistant", r))]
           l == [id |-> req[r].id, status |-> "complete"]
           after == IF req[r].id = NoAttempt THEN answer ELSE [answer EXCEPT !.last = l]
<1>1. s \in Session /\ s.stageDone = TRUE
  BY HoldsType, SessionType, StageDoneOf
<1>2. answer \in Session /\ answer.stageDone = TRUE
  <2> HIDE DEF s
  <2>1. answer \in Session
    BY <1>1, SessionType, TurnsType, HoldsType
  <2>2. QED
    BY <1>1, <2>1, StageDoneOf
<1>3. after.stageDone = TRUE
  <2> HIDE DEF answer, l
  <2>1. QED
    BY <1>2, StageDoneOf
<1>4. /\ heap' = [heap EXCEPT ![req[r].obj] = after] /\ disk' = answer
      /\ (redis' = Nobody \/ astray')
      /\ current' = current /\ (astray => astray')
      /\ EndAs(r, "ended")
  <2>1. Finish(r, s, TRUE)
    BY DEF commitEnds
  <2>2. /\ heap' = [heap EXCEPT ![req[r].obj] = after] /\ disk' = answer
        /\ current' = current /\ EndAs(r, "ended")
    BY <2>1 DEF Finish, End
  <2>3. \/ redis' = Nobody /\ astray' = astray
        \/ astray' = TRUE
    BY <2>1 DEF Finish
  <2>4. QED
    BY <2>2, <2>3
<1> HIDE DEF s, answer, after
<1> SUFFICES ASSUME ~astray' PROVE OnceParts'
  BY DEF Once
<1>5. OnceParts /\ req[r].pc = "commit" /\ active' = active /\ req[r].pc \in Working
  BY <1>4 DEF Once, commitEnds, Working, Streaming
<1>6. /\ \A q \in Requests \ {r} : req'[q] = req[q]
      /\ req'[r].pc = "ended"
  BY <1>4 DEF EndAs, Typed, TypeOK
<1>7. current # Nobody /\ current \in Objects /\ req[r].obj = current
  BY <1>5, NamesAssumption DEF Typed, InHand, Objects, OnceParts, OnStore
<1>8. "ended" \notin {"restored", "restoring", "confirm save"} \cup Working \cup Committing
  BY DEF Working, Streaming, Json, Confirming, Committing
<1>9. OnStore'
  BY <1>4, <1>5, <1>6, <1>8 DEF OnceParts, OnStore
<1>10. FoundOpen'
  <2>1. late' = late \cup {q \in Requests \ {r} : req[q].pc \in {"commit", "confirm commit"}}
    BY DEF commitEnds, Overtakes
  <2>2. QED
    BY <1>6, <1>8, <2>1 DEF FoundOpen, Committing
<1>11. heap'[current].stageDone
  BY <1>3, <1>4, <1>7 DEF Typed, TypeOK
<1>12. StoreKnows'
  BY <1>4, <1>11 DEF StoreKnows
<1>13. CopiesKnow'
  BY <1>2, <1>4 DEF CopiesKnow
<1>14. CopyWaits'
  BY <1>4, <1>7 DEF CopyWaits
<1>15. QED
  BY <1>9, <1>10, <1>12, <1>13, <1>14 DEF OnceParts

\* The model's answer, and what follows it.
LEMMA ModelOnce ==
    ASSUME Typed, Once, NEW r \in Requests, Model(r)
    PROVE  Once' /\ (entries' = entries \/ commitEnds(r))
<1> DEFINE s == heap[req[r].obj]
<1>1. s \in Session /\ r \in Objects
  BY HoldsType
<1>2. /\ Produced(s, r) \in Session
      /\ Produced(s, r).stageDone = s.stageDone
  BY <1>1, SessionType, StageDoneOf
<1>3. ASSUME NEW pc, EndAs(r, pc)
      PROVE  req'[r].pc = pc /\ \A q \in Requests \ {r} : req'[q] = req[q]
  BY <1>3 DEF EndAs, Typed, TypeOK
<1>4. CASE modelError(r) \/ modelEmpty(r)
  <2>1. PICK t : heap' = [heap EXCEPT ![req[r].obj].turns = t]
    BY <1>4 DEF modelError, modelEmpty
  <2>2. heap' = [heap EXCEPT ![req[r].obj] = [s EXCEPT !.turns = t]]
    BY <2>1
  <2>3. [s EXCEPT !.turns = t].stageDone = s.stageDone
    BY <1>1, StageDoneOf
  <2>4. /\ EndAs(r, "ended") /\ req[r].pc = "model"
        /\ UNCHANGED <<current, disk, redis, entries, active, late, astray>>
    BY <1>4 DEF modelError, modelEmpty, End, stageVars, ghostVars, onceVars
  <2>5. req[r].pc \in Working /\ \A q \in Requests \ {r} : req'[q] = req[q]
    BY <1>3, <2>4 DEF Working, Streaming
  <2>6. ~astray => Goes(r)
    BY <1>3, <2>4, <2>5, GoesOn
  <2> HIDE DEF s
  <2>7. QED
    BY <2>2, <2>3, <2>4, <2>5, <2>6, WritesOnce DEF s
<1>5. CASE replyText(r)
  <2>1. /\ Finish(r, s, FALSE) /\ req[r].pc \in Working
        /\ UNCHANGED <<entries, active, late>>
    BY <1>5 DEF replyText, stageVars, Working, Streaming
  <2>2. QED
    BY <1>1, <2>1, FinishOnce
<1>6. CASE replyUnsaved(r)
  <2>1. /\ EndAs(r, "unsaved") /\ req[r].pc = "model"
        /\ UNCHANGED <<current, disk, redis, entries, active, late, astray>>
        /\ heap' = [heap EXCEPT ![req[r].obj] = Produced(s, r)]
    BY <1>6 DEF replyUnsaved, stageVars, onceVars
  <2>2. req[r].pc \in Working /\ \A q \in Requests \ {r} : req'[q] = req[q]
    BY <1>3, <2>1 DEF Working, Streaming
  <2>3. ~astray => Goes(r)
    BY <1>3, <2>1, <2>2, GoesOn
  <2> HIDE DEF s
  <2>4. QED
    BY <1>2, <2>1, <2>2, <2>3, WritesOnce DEF s
<1>7. CASE replyFirst(r)
  <2> DEFINE p == Produced(s, r)
             pc == IF entries = 0 THEN "commit" ELSE "hook"
             new == IF entries = 0 THEN p ELSE [p EXCEPT !.stageDone = TRUE]
  <2>1. /\ UNCHANGED <<current, disk, redis, entries, active, late, astray>>
        /\ req[r].pc = "model" /\ Step(r, pc, new)
    BY <1>7 DEF replyFirst, onceVars
  <2>2. /\ heap' = [heap EXCEPT ![req[r].obj] = new]
        /\ \A q \in Requests \ {r} : req'[q] = req[q]
        /\ req'[r].pc = pc /\ req'[r].obj = req[r].obj
    <3> HIDE DEF new, pc
    <3>1. QED
      BY <2>1 DEF Step, Typed, TypeOK
  <2>3. s.stageDone => new.stageDone
    <3> HIDE DEF s
    <3>1. [p EXCEPT !.stageDone = TRUE].stageDone = TRUE
      BY <1>2, StageDoneOf
    <3> HIDE DEF p
    <3>2. QED
      BY <1>2, <3>1 DEF p
  <2>4. /\ req[r].pc \in Working /\ pc \in Working \ {"confirm save"}
        /\ pc \in Committing => entries = 0
    BY <2>1 DEF Working, Streaming, Committing
  <2> HIDE DEF pc, new, p, s
  <2>5. ~astray => Goes(r)
    BY <2>2, <2>4, GoesOn
  <2>6. QED
    BY <2>1, <2>2, <2>3, <2>4, <2>5, WritesOnce DEF s
<1>8. CASE replyAgain(r)
  <2>1. /\ Finish(r, Produced(s, r), TRUE) /\ req[r].pc \in Working
        /\ UNCHANGED <<entries, active, late>>
    BY <1>8 DEF replyAgain, Working, Streaming
  <2> HIDE DEF s
  <2>2. QED
    BY <1>2, <2>1, FinishOnce DEF s
<1>9. CASE commitFails(r)
  BY <1>9, QuietOnce
<1>10. CASE commitEnds(r)
  BY <1>10, CommitOnce
<1>11. CASE hookEnds(r)
  <2>1. /\ Finish(r, s, TRUE) /\ req[r].pc \in Working
        /\ UNCHANGED <<entries, active, late>>
    BY <1>11 DEF hookEnds, Working, Streaming
  <2>2. QED
    BY <1>1, <2>1, FinishOnce
<1>12. QED
  BY <1>4, <1>5, <1>6, <1>7, <1>8, <1>9, <1>10, <1>11 DEF Model

\* A JSON turn.
LEMMA JsonOnce ==
    ASSUME Typed, Once, NEW r \in Requests, JsonTurn(r)
    PROVE  Once' /\ entries' = entries
<1>1. CASE jsonBody(r)
  <2>1. current # Nobody /\ current \in Objects /\ heap[current] \in Session
    BY <1>1, NamesAssumption DEF jsonBody, Typed, TypeOK, InHand, Working, Json, Objects
  <2>2. UNCHANGED <<current, disk, redis, entries, active, late, astray>>
    BY <1>1 DEF jsonBody, stageVars, onceVars
  <2>3. /\ \A q \in Requests \ {r} : req'[q] = req[q]
        /\ req'[r].pc = "executor" /\ req'[r].obj = current
    BY <1>1 DEF jsonBody, Typed, TypeOK
  <2>4. Goes(r)
    BY <2>3 DEF Goes, Committing
  <2>5. PICK t : heap' = [heap EXCEPT ![current].turns = t]
    BY <1>1 DEF jsonBody
  <2>6. heap'[current] = [heap[current] EXCEPT !.turns = t]
    BY <2>1, <2>5 DEF Typed, TypeOK
  <2>7. heap[current].stageDone => heap'[current].stageDone
    BY <2>1, <2>6, StageDoneOf
  <2>8. QED
    BY <2>1, <2>2, <2>3, <2>4, <2>7, OnceKept
<1>2. CASE jsonInitOnDone(r)
  BY <1>2, QuietOnce
<1>3. ASSUME NEW done \in BOOLEAN, jsonReply(r, done)
      PROVE  Once' /\ entries' = entries
  <2> DEFINE old == heap[req[r].obj]
             new == IF done THEN Produced(old, r) ELSE old
             t == Append(new.turns, Turn("assistant", r))
             s == [new EXCEPT !.turns = t]
  <2>1. new \in Session /\ new.stageDone = old.stageDone
    <3>1. old \in Session
      BY HoldsType
    <3>2. Produced(old, r) \in Session /\ Produced(old, r).stageDone = old.stageDone
      BY <3>1, SessionType, StageDoneOf
    <3> HIDE DEF old
    <3>3. CASE done = TRUE
      BY <3>2, <3>3
    <3>4. CASE done = FALSE
      BY <3>1, <3>4
    <3>5. QED
      BY <3>3, <3>4
  <2>2. s.stageDone = old.stageDone
    <3> HIDE DEF new, t, old
    <3>1. QED
      BY <2>1, StageDoneOf
  <2>3. /\ EndAs(r, "ended") /\ req[r].pc = "executor"
        /\ UNCHANGED <<current, redis, entries, active, late, astray>>
        /\ heap' = [heap EXCEPT ![req[r].obj] = s] /\ disk' = s
    BY <1>3 DEF jsonReply, End, onceVars
  <2> HIDE DEF s, new, old
  <2>4. /\ req[r].pc \in Working
        /\ req'[r].pc = "ended" /\ \A q \in Requests \ {r} : req'[q] = req[q]
    BY <2>3 DEF EndAs, Working, Json, Typed, TypeOK
  <2>5. ~astray => Goes(r)
    BY <2>4, GoesOn
  <2>6. QED
    BY <2>2, <2>3, <2>4, <2>5, WritesOnce DEF old
<1>4. QED
  BY <1>1, <1>2, <1>3 DEF JsonTurn

\* Gate-confirm: what it completes has no entry when it looks, and it ends the
\* active session.
LEMMA ConfirmOnce ==
    ASSUME Typed, Once, NEW r \in Requests, Confirm(r)
    PROVE  Once' /\ (entries' = entries \/ confirmCompletes(r))
<1>1. CASE confirm(r)
  <2>1. UNCHANGED <<current, heap, disk, redis, entries, active, late, astray>>
    BY <1>1 DEF confirm, sessionVars, onceVars
  <2>2. /\ \A q \in Requests \ {r} : req'[q] = req[q]
        /\ req'[r].pc = "confirm save" /\ req'[r].obj = current
    BY <1>1 DEF confirm, Typed, TypeOK
  <2>3. active
    BY <1>1 DEF confirm
  <2>4. Goes(r)
    BY <2>2, <2>3 DEF Goes, Committing
  <2>5. QED
    BY <2>1, <2>2, <2>4, OnceKept
<1>2. CASE confirmSaved(r)
  <2>1. /\ UNCHANGED <<current, heap, disk, redis, entries, late, astray>>
        /\ req[r].pc = "confirm save" /\ (active' => active)
        /\ \/ End(r)
           \/ /\ ~heap[req[r].obj].stageDone
              /\ req' = [req EXCEPT ![r].pc = "confirm commit"]
    BY <1>2 DEF confirmSaved, sessionVars, ghostVars, onceVars
  <2>2. req[r].pc \in Working /\ current # Nobody
    BY <2>1, NamesAssumption DEF Working, Confirming, Typed, InHand, Objects
  <2>3. /\ \A q \in Requests \ {r} : req'[q] = req[q]
        /\ \/ req'[r].pc = "ended"
           \/ /\ ~heap[req[r].obj].stageDone
              /\ req'[r].pc = "confirm commit" /\ req'[r].obj = req[r].obj
    <3>1. CASE End(r)
      BY <3>1 DEF End, EndAs, Typed, TypeOK
    <3>2. CASE /\ ~heap[req[r].obj].stageDone
               /\ req' = [req EXCEPT ![r].pc = "confirm commit"]
      BY <3>2 DEF Typed, TypeOK
    <3>3. QED
      BY <2>1, <3>1, <3>2
  <2>4. ASSUME ~astray, ~heap[req[r].obj].stageDone
        PROVE  entries = 0
    BY <2>1, <2>2, <2>4 DEF Once, OnceParts, OnStore, StoreKnows
  <2>5. "confirm commit" \in Working \ {"confirm save"}
    BY DEF Working, Confirming
  <2>6. ~astray => Goes(r)
    BY <2>2, <2>3, <2>4, <2>5, GoesOn
  <2>7. QED
    BY <2>1, <2>3, <2>6, OnceKept
<1>3. CASE confirmFails(r)
  BY <1>3, QuietOnce
<1>4. CASE confirmCompletes(r)
  <2> SUFFICES ASSUME ~astray' PROVE OnceParts'
    BY <1>4 DEF Once
  <2>1. /\ UNCHANGED <<current, disk, redis, astray>>
        /\ active' = FALSE /\ req[r].pc = "confirm commit"
        /\ heap' = [heap EXCEPT ![req[r].obj].stageDone = TRUE]
        /\ EndAs(r, "ended")
        /\ late' = late \cup {q \in Requests \ {r} : req[q].pc \in Committing}
    BY <1>4 DEF confirmCompletes, End, Overtakes, Committing
  <2>2. OnceParts
    BY <2>1 DEF Once
  <2>3. /\ \A q \in Requests \ {r} : req'[q] = req[q]
        /\ req'[r].pc = "ended"
    BY <2>1 DEF EndAs, Typed, TypeOK
  <2>4. /\ current \in Objects /\ req[r].obj = current /\ current # Nobody
        /\ heap[current] \in Session
    <3>1. req[r].pc \in Working
      BY <2>1 DEF Working, Confirming
    <3>2. QED
      BY <2>2, <3>1, NamesAssumption DEF Typed, TypeOK, InHand, Objects, OnceParts, OnStore
  <2>5. "ended" \notin {"restored", "restoring", "confirm save"} \cup Working \cup Committing
    BY DEF Working, Streaming, Json, Confirming, Committing
  <2>6. OnStore'
    BY <2>1, <2>2, <2>3, <2>5 DEF OnceParts, OnStore
  <2>7. FoundOpen'
    BY <2>1, <2>3, <2>5 DEF FoundOpen
  <2>8. heap'[current].stageDone
    <3>1. heap'[current] = [heap[current] EXCEPT !.stageDone = TRUE]
      BY <2>1, <2>4 DEF Typed, TypeOK
    <3>2. QED
      BY <2>4, <3>1, StageDoneOf
  <2>9. StoreKnows'
    BY <2>1, <2>8 DEF StoreKnows
  <2>10. CopiesKnow'
    BY <2>1 DEF CopiesKnow
  <2>11. CopyWaits'
    BY <2>1, <2>4 DEF CopyWaits
  <2>12. QED
    BY <2>6, <2>7, <2>9, <2>10, <2>11 DEF OnceParts
<1>5. QED
  BY <1>1, <1>2, <1>3, <1>4 DEF Confirm

\* A restore, a save, a minute, a restart.
LEMMA OtherOnce ==
    ASSUME Typed, Once,
           \/ \E r \in Requests : restore(r)
           \/ \E c \in Artefacts : saveSettles(c)
           \/ \E o \in Objects : expire(o)
           \/ \E wiped \in BOOLEAN : restart(wiped)
           \/ UNCHANGED vars
    PROVE  Once' /\ entries' = entries
<1>1. ASSUME NEW r \in Requests, restore(r)
      PROVE  Once' /\ entries' = entries
  <2>1. UNCHANGED <<disk, redis, entries, active, late>>
    BY <1>1 DEF restore, stageVars
  <2> SUFFICES ASSUME ~astray' PROVE OnceParts'
    BY <2>1 DEF Once
  <2>2. current = Nobody /\ OnceParts
    BY <1>1 DEF restore, Once
  <2>3. \A q \in Requests : req[q].pc \notin {"restored"} \cup Working
    BY <2>2, NamesAssumption DEF Typed, InHand, Objects
  <2>4. /\ redis # Nobody /\ ~redis.done /\ redis \in Session
        /\ req[r].pc = "restoring"
    BY <1>1, <2>2 DEF OnceParts, CopyWaits, restore, Typed, TypeOK
  <2>5. /\ \A q \in Requests \ {r} : req'[q] = req[q]
        /\ req'[r].pc = "restored" /\ req'[r].obj = r
        /\ current' = r /\ r \in Objects /\ r # Nobody
    BY <1>1, NamesAssumption DEF restore, Typed, TypeOK, Objects
  <2>6. "restored" \notin {"confirm save"} \cup Working \cup Committing
    BY DEF Working, Streaming, Json, Confirming, Committing
  <2>7. /\ Committing \subseteq Working /\ "confirm save" \in Working
    BY DEF Working, Streaming, Confirming, Committing
  <2>8. OnStore'
    BY <2>3, <2>5 DEF OnStore
  <2>9. FoundOpen'
    BY <2>3, <2>5, <2>6, <2>7 DEF FoundOpen
  <2>10. heap'[r].stageDone = redis.stageDone
    <3>1. heap'[r] = [redis EXCEPT !.step1 = heap[Boot].step1]
      BY <1>1, <2>5 DEF restore, Typed, TypeOK
    <3>2. QED
      BY <2>4, <3>1, StageDoneOf
  <2>11. StoreKnows'
    BY <2>1, <2>2, <2>3, <2>4, <2>5, <2>6, <2>7, <2>10
       DEF StoreKnows, OnceParts, CopiesKnow
  <2>12. CopiesKnow'
    BY <2>1, <2>2 DEF OnceParts, CopiesKnow
  <2>13. CopyWaits'
    BY <2>5 DEF CopyWaits
  <2>14. QED
    BY <2>8, <2>9, <2>11, <2>12, <2>13 DEF OnceParts
<1>2. ASSUME UNCHANGED <<current, entries, active, disk, redis, req, late, astray>>,
             current # Nobody => heap'[current].stageDone = heap[current].stageDone
      PROVE  Once' /\ entries' = entries
  <2> SUFFICES ASSUME ~astray PROVE OnceParts'
    BY <1>2 DEF Once
  <2>1. OnceParts
    BY DEF Once
  <2>2. OnStore' /\ FoundOpen' /\ CopiesKnow' /\ CopyWaits'
    BY <1>2, <2>1 DEF OnceParts, OnStore, FoundOpen, CopiesKnow, CopyWaits
  <2>3. StoreKnows'
    BY <1>2, <2>1 DEF OnceParts, StoreKnows
  <2>4. QED
    BY <2>2, <2>3 DEF OnceParts
<1>3. ASSUME NEW c \in Artefacts, saveSettles(c)
      PROVE  Once' /\ entries' = entries
  BY <1>2, <1>3 DEF saveSettles, sessionVars, onceVars
<1>4. ASSUME NEW o \in Objects, expire(o)
      PROVE  Once' /\ entries' = entries
  <2>1. heap[o] \in Session
    BY DEF Typed, TypeOK
  <2>2. heap' = [heap EXCEPT ![o] = [heap[o] EXCEPT !.last.status = "stale"]]
    BY <1>4 DEF expire
  <2>3. [heap[o] EXCEPT !.last.status = "stale"].stageDone = heap[o].stageDone
    BY <2>1, StageDoneOf
  <2>4. current # Nobody => current \in Objects
    BY DEF Typed, TypeOK
  <2>5. current # Nobody => heap'[current].stageDone = heap[current].stageDone
    BY <2>2, <2>3, <2>4 DEF Typed, TypeOK
  <2>6. UNCHANGED <<current, entries, active, disk, redis, req, late, astray>>
    BY <1>4 DEF expire, stageVars, onceVars
  <2>7. QED
    BY <1>2, <2>5, <2>6
<1>5. ASSUME NEW wiped \in BOOLEAN, restart(wiped)
      PROVE  Once' /\ entries' = entries
  <2>1. /\ UNCHANGED <<redis, entries, active, late, astray>>
        /\ disk' \in {disk, Nobody}
        /\ current' # Nobody => /\ disk' # Nobody /\ current' = Boot
                                /\ heap' = [heap EXCEPT ![Boot] = disk']
    BY <1>5 DEF restart, onceVars
  <2> SUFFICES ASSUME ~astray PROVE OnceParts'
    BY <2>1 DEF Once
  <2>2. OnceParts
    BY DEF Once
  <2>3. \A q \in Requests :
           req'[q].pc \notin {"restored", "restoring", "confirm save"} \cup Working \cup Committing
    <3>1. \A q \in Requests : req'[q].pc \in {"unsent", "ended", "unsaved"}
      BY <1>5 DEF restart, Typed, TypeOK
    <3>2. QED
      BY <3>1 DEF Working, Streaming, Json, Confirming, Committing
  <2>4. OnStore' /\ FoundOpen' /\ CopyWaits'
    BY <2>3 DEF OnStore, FoundOpen, CopyWaits
  <2>5. CopiesKnow'
    BY <2>1, <2>2 DEF OnceParts, CopiesKnow
  <2>6. StoreKnows'
    <3> SUFFICES ASSUME entries # 0, current' # Nobody, active
                 PROVE  heap'[current'].stageDone
      BY <2>1, <2>3 DEF StoreKnows
    <3>1. heap'[current'] = disk' /\ disk' = disk /\ disk # Nobody
      BY <2>1 DEF Typed, TypeOK, Objects
    <3>2. QED
      BY <2>2, <3>1 DEF OnceParts, CopiesKnow
  <2>7. QED
    BY <2>4, <2>5, <2>6 DEF OnceParts
<1>6. CASE UNCHANGED vars
  BY <1>2, <1>6 DEF vars
<1>7. QED
  BY <1>1, <1>3, <1>4, <1>5, <1>6

LEMMA OnceInit == Init => Once
<1> SUFFICES ASSUME Init PROVE OnceParts
  BY DEF Once
<1>1. \A r \in Requests : req[r].pc = "unsent"
  BY DEF Init
<1>2. "unsent" \notin {"restored", "restoring", "confirm save"} \cup Working \cup Committing
  BY DEF Working, Streaming, Json, Confirming, Committing
<1>3. entries # 0 => ~active
  BY DEF Init
<1>4. QED
  BY <1>1, <1>2, <1>3 DEF OnceParts, OnStore, FoundOpen, StoreKnows, CopiesKnow, CopyWaits

\* An entry is added by a turn that commits or a gate-confirm that completes.
LEMMA OnceStep ==
    ASSUME Typed, Once, [Next]_vars
    PROVE  /\ Once'
           /\ \/ entries' = entries
              \/ \E r \in Requests : commitEnds(r) \/ confirmCompletes(r)
<1>1. ASSUME NEW r \in Requests, NEW o \in Objects, Stream(r, o)
      PROVE  Once' /\ entries' = entries
  BY <1>1, QuietOnce, BeginOnce DEF Stream, AttemptIds
<1>2. ASSUME NEW r \in Requests, NEW o \in Objects, jsonBusy(r, o) \/ jsonArrive(r, o)
      PROVE  Once' /\ entries' = entries
  <2>1. NoAttempt \in AttemptIds
    BY DEF AttemptIds
  <2>2. QED
    BY <1>2, <2>1, QuietOnce, BeginOnce
<1>3. ASSUME NEW r \in Requests, missing(r) \/ restoreGone(r)
      PROVE  Once' /\ entries' = entries
  BY <1>3, QuietOnce
<1>4. ASSUME NEW r \in Requests, Model(r) \/ JsonTurn(r) \/ Confirm(r)
      PROVE  Once' /\ (entries' = entries \/ commitEnds(r) \/ confirmCompletes(r))
  BY <1>4, ModelOnce, JsonOnce, ConfirmOnce
<1>5. QED
  BY <1>1, <1>2, <1>3, <1>4, OtherOnce DEF Next

\* A stage has one completedStages entry.  A further one comes only from a
\* request that had found the stage open before another completed it, or once
\* the session was replaced by a second restore or restored from a copy Redis
\* was told to delete (skills.js:5799, journey.js:2673).
THEOREM StageCompletedOnce == Spec => CompletedOnce
<1> DEFINE Further == entries' > entries => \/ entries = 0
                                            \/ astray
                                            \/ \E r \in late : req'[r].pc # req[r].pc
<1>1. Typed /\ Once /\ [Next]_vars => Further
  <2> SUFFICES ASSUME Typed, Once, [Next]_vars, entries' > entries, entries # 0, ~astray
               PROVE  \E r \in late : req'[r].pc # req[r].pc
    OBVIOUS
  <2>1. entries' # entries
    BY DEF Typed, TypeOK
  <2>2. PICK r \in Requests : commitEnds(r) \/ confirmCompletes(r)
    BY <2>1, OnceStep
  <2>3. req[r].pc \in Committing /\ End(r)
    BY <2>2 DEF commitEnds, confirmCompletes, Finish, Committing
  <2>4. r \in late
    BY <2>3 DEF Once, OnceParts, FoundOpen
  <2>5. req'[r].pc = "ended"
    BY <2>3 DEF End, EndAs, Typed, TypeOK
  <2>6. QED
    BY <2>3, <2>4, <2>5 DEF Committing
<1>2. Typed /\ Once /\ [Next]_vars => Once'
  BY OnceStep
<1>3. QED
  BY <1>1, <1>2, OnceInit, CoversInvariant, PTL DEF Spec, CompletedOnce
-------------------------------------------------------------------------------
(***************************************************************************)
(* Requests that do not overlap.  The server may go on from three copies   *)
(* of the session: the object in the store, the file, the Redis copy.  The *)
(* stage depends on an outline of them.                                    *)
(***************************************************************************)
Outline(c) ==
    IF c = Nobody
    THEN [held |-> FALSE, done |-> FALSE, content |-> Nobody, stageDone |-> FALSE]
    ELSE [held |-> TRUE, done |-> c.done, content |-> c.content, stageDone |-> c.stageDone]

Live == IF current = Nobody THEN Outline(Nobody) ELSE Outline(heap[current])
OnDisk == Outline(disk)
InRedis == Outline(redis)
Copies == {Live, OnDisk, InRedis}

\* One request works at a time, on the object in the store.
Alone ==
    /\ \A r \in Requests : req[r].pc \in {"restored"} \cup Working => req[r].obj = current
    /\ \A r, q \in Requests : req[r].pc \in Working /\ req[q].pc \in Working => r = q

\* A session is done when it has an artefact of its own, its stage only then.
Formed ==
    \A c \in Copies : /\ c.done <=> c.content \in Requests
                      /\ c.stageDone => c.done

\* A request about to complete the stage has the artefact, and unless it waits
\* for the hook or its save, the stage has no entry yet.
AtWork ==
    \A r \in Requests :
        /\ req[r].pc \in {"commit", "hook"} => Live.content = r /\ Live.done
        /\ req[r].pc \in Confirming => Live.done /\ active
        /\ req[r].pc \in {"commit", "confirm commit"} => entries = 0

\* An active session whose stage has its entry knows, whichever copy it is
\* restored from.
OneEntry ==
    /\ entries <= 1
    /\ entries = 1 /\ active => \A c \in Copies : c.held => c.stageDone

\* The earlier artefact is in the file of a reopened session only, until that
\* session has completed the stage again.
NotEarlier ==
    /\ active => file # Earlier
    /\ \A r \in Requests : req[r].pc \in {"commit", "hook"} => file # Earlier
    /\ \A c \in Copies : c.stageDone => file # Earlier

\* A request that waits for a restore finds the copy it was promised.
Waiting ==
    current = Nobody =>
        \A r \in Requests : req[r].pc = "restoring" => InRedis.held /\ ~InRedis.done

Steady ==
    ~disturbed => Alone /\ Formed /\ AtWork /\ OneEntry /\ NotEarlier /\ Waiting

\* A save that has not settled is of the session's artefact.
SavesKnown ==
    saves # {} => Live.content \in Requests /\ saves \subseteq {Live.content}

\* The session's artefact is in its file as well, or could not be stored, or is
\* just being stored.
ArtefactKnown ==
    Live.content \in Requests =>
        \/ req[Live.content].pc \in {"unsaved", "commit", "hook"}
        \/ OnDisk.content = Live.content

\* What the working tree holds is the session's artefact, unless that one could
\* not be stored.
FileKnown ==
    \/ file \in {Nobody, Earlier, Live.content}
    \/ file \in Requests /\ req[file].pc = "unsaved"

\* A session file that says the stage is complete is that of the session.
DiskKnown ==
    OnDisk.stageDone => Live.stageDone /\ Live.content = OnDisk.content

\* The artefact of a complete stage has reached the row, or is about to.
RowKnown ==
    Live.stageDone \/ (\E r \in Requests : req[r].pc \in Confirming) =>
        \/ row = Live.content
        \/ Live.content \in saves
        \/ \E r \in Requests : req[r].pc = "hook"

Faithful ==
    ~disturbed /\ ~revised =>
        SavesKnown /\ ArtefactKnown /\ FileKnown /\ DiskKnown /\ RowKnown

Settled == Steady /\ Faithful

Outlines == [held : BOOLEAN, done : BOOLEAN, content : Artefacts, stageDone : BOOLEAN]

\* What the steps make of an outline.
LEMMA OutlineOf ==
    /\ Outline(Nobody) \in Outlines
    /\ Outline(Nobody).held = FALSE /\ Outline(Nobody).done = FALSE
    /\ Outline(Nobody).content = Nobody /\ Outline(Nobody).stageDone = FALSE
    /\ \A s \in Session : /\ Outline(s) \in Outlines
                          /\ Outline(s).held = TRUE /\ Outline(s).done = s.done
                          /\ Outline(s).content = s.content
                          /\ Outline(s).stageDone = s.stageDone
    /\ \A s, t \in Session :
          s.done = t.done /\ s.content = t.content /\ s.stageDone = t.stageDone
             => Outline(s) = Outline(t)
<1>1. /\ Outline(Nobody) \in Outlines
      /\ Outline(Nobody).held = FALSE /\ Outline(Nobody).done = FALSE
      /\ Outline(Nobody).content = Nobody /\ Outline(Nobody).stageDone = FALSE
  BY DEF Outline, Outlines, Artefacts
<1>2. ASSUME NEW s \in Session
      PROVE  /\ Outline(s) = [held |-> TRUE, done |-> s.done, content |-> s.content,
                              stageDone |-> s.stageDone]
             /\ s.done \in BOOLEAN /\ s.content \in Artefacts /\ s.stageDone \in BOOLEAN
  <2>1. s # Nobody
    BY CopyAssumption
  <2>2. s.done \in BOOLEAN /\ s.content \in Artefacts /\ s.stageDone \in BOOLEAN
    BY DEF Session
  <2>3. QED
    BY <2>1, <2>2 DEF Outline
<1>3. ASSUME NEW s \in Session
      PROVE  /\ Outline(s) \in Outlines
             /\ Outline(s).held = TRUE /\ Outline(s).done = s.done
             /\ Outline(s).content = s.content /\ Outline(s).stageDone = s.stageDone
  <2>1. Outline(s) \in Outlines
    <3>1. ASSUME NEW d \in BOOLEAN, NEW a \in Artefacts, NEW e \in BOOLEAN
          PROVE  [held |-> TRUE, done |-> d, content |-> a, stageDone |-> e] \in Outlines
      BY DEF Outlines
    <3>2. QED
      BY <1>2, <3>1
  <2>2. Outline(s).held = TRUE
    BY <1>2
  <2>3. Outline(s).done = s.done
    BY <1>2
  <2>4. Outline(s).content = s.content
    BY <1>2
  <2>5. Outline(s).stageDone = s.stageDone
    BY <1>2
  <2>6. QED
    BY <2>1, <2>2, <2>3, <2>4, <2>5
<1>4. ASSUME NEW s \in Session, NEW t \in Session,
             s.done = t.done, s.content = t.content, s.stageDone = t.stageDone
      PROVE  Outline(s) = Outline(t)
  BY <1>2, <1>4
<1>5. QED
  BY <1>1, <1>3, <1>4

\* The copies are outlines, and a request that works is on the live one.
LEMMA CopiesType ==
    ASSUME Typed
    PROVE  /\ Live \in Outlines /\ OnDisk \in Outlines /\ InRedis \in Outlines
           /\ Live.held = TRUE <=> current # Nobody
           /\ OnDisk.held = TRUE <=> disk # Nobody
           /\ InRedis.held = TRUE <=> redis # Nobody
           /\ current # Nobody =>
                /\ current \in Objects /\ heap[current] \in Session
                /\ Live = Outline(heap[current])
                /\ Live.done = heap[current].done
                /\ Live.content = heap[current].content
                /\ Live.stageDone = heap[current].stageDone
           /\ redis # Nobody => redis \in Session
           /\ disk # Nobody => disk \in Session
<1>1. /\ current = Nobody \/ (current \in Objects /\ heap[current] \in Session)
      /\ disk = Nobody \/ disk \in Session
      /\ redis = Nobody \/ redis \in Session
  BY DEF Typed, TypeOK
<1>2. Nobody \notin Session /\ Nobody \notin Objects
  BY CopyAssumption, NamesAssumption DEF Objects
<1>3. OnDisk \in Outlines /\ (OnDisk.held = TRUE <=> disk # Nobody)
  BY <1>1, <1>2, OutlineOf DEF OnDisk
<1>4. InRedis \in Outlines /\ (InRedis.held = TRUE <=> redis # Nobody)
  BY <1>1, <1>2, OutlineOf DEF InRedis
<1>5. Live \in Outlines /\ (Live.held = TRUE <=> current # Nobody)
  BY <1>1, <1>2, OutlineOf DEF Live
<1>6. QED
  BY <1>1, <1>2, <1>3, <1>4, <1>5, OutlineOf DEF Live

\* The objects a step may leave a session in.
LEMMA UpdatedOutline ==
    ASSUME NEW s \in Session
    PROVE  /\ \A t \in Turns : Outline([s EXCEPT !.turns = t]) = Outline(s)
           /\ \A l \in Remembering : Outline([s EXCEPT !.last = l]) = Outline(s)
           /\ \A a \in AttemptIds : Outline(Guard(s, a)) = Outline(s)
           /\ \A r \in Requests : /\ Outline(Produced(s, r)).done = TRUE
                                  /\ Outline(Produced(s, r)).content = r
                                  /\ Outline(Produced(s, r)).stageDone = s.stageDone
                                  /\ Outline(Produced(s, r)).held = TRUE
           /\ Outline([s EXCEPT !.stageDone = TRUE]).done = s.done
           /\ Outline([s EXCEPT !.stageDone = TRUE]).content = s.content
           /\ Outline([s EXCEPT !.stageDone = TRUE]).stageDone = TRUE
           /\ Outline([s EXCEPT !.stageDone = TRUE]).held = TRUE
<1>1. \A t \in Turns : Outline([s EXCEPT !.turns = t]) = Outline(s)
  <2>1. ASSUME NEW t \in Turns
        PROVE  /\ [s EXCEPT !.turns = t] \in Session
               /\ [s EXCEPT !.turns = t].done = s.done
               /\ [s EXCEPT !.turns = t].content = s.content
               /\ [s EXCEPT !.turns = t].stageDone = s.stageDone
    BY DEF Session
  <2>2. QED
    BY <2>1, OutlineOf
<1>2. \A l \in Remembering : Outline([s EXCEPT !.last = l]) = Outline(s)
  <2>1. ASSUME NEW l \in Remembering
        PROVE  /\ [s EXCEPT !.last = l] \in Session
               /\ [s EXCEPT !.last = l].done = s.done
               /\ [s EXCEPT !.last = l].content = s.content
               /\ [s EXCEPT !.last = l].stageDone = s.stageDone
    BY DEF Session
  <2>2. QED
    BY <2>1, OutlineOf
<1>3. \A a \in AttemptIds : Outline(Guard(s, a)) = Outline(s)
  <2>1. \A a \in Attempts : [id |-> a, status |-> "in-flight"] \in Remembering
    BY DEF Remembering
  <2>2. QED
    BY <1>2, <2>1 DEF Guard, AttemptIds
<1>4. ASSUME NEW r \in Requests
      PROVE  /\ Outline(Produced(s, r)).done = TRUE
             /\ Outline(Produced(s, r)).content = r
             /\ Outline(Produced(s, r)).stageDone = s.stageDone
             /\ Outline(Produced(s, r)).held = TRUE
  <2>1. /\ Produced(s, r) \in Session
        /\ Produced(s, r).done = TRUE
        /\ Produced(s, r).content = r
        /\ Produced(s, r).stageDone = s.stageDone
    BY DEF Produced, Session, Artefacts
  <2>2. QED
    BY <2>1, OutlineOf
<1>5. /\ Outline([s EXCEPT !.stageDone = TRUE]).done = s.done
      /\ Outline([s EXCEPT !.stageDone = TRUE]).content = s.content
      /\ Outline([s EXCEPT !.stageDone = TRUE]).stageDone = TRUE
      /\ Outline([s EXCEPT !.stageDone = TRUE]).held = TRUE
  <2>1. /\ [s EXCEPT !.stageDone = TRUE] \in Session
        /\ [s EXCEPT !.stageDone = TRUE].done = s.done
        /\ [s EXCEPT !.stageDone = TRUE].content = s.content
        /\ [s EXCEPT !.stageDone = TRUE].stageDone = TRUE
    BY DEF Session
  <2>2. QED
    BY <2>1, OutlineOf
<1>6. QED
  BY <1>1, <1>2, <1>3, <1>4, <1>5

\* A request that moves without storing or completing anything.
LEMMA QuietlySettled ==
    ASSUME Typed, Typed', Settled, NEW r \in Requests, NEW q \in Request,
           req' = [req EXCEPT ![r] = q],
           Live' = Live, OnDisk' = OnDisk, InRedis' = InRedis, current' = current,
           UNCHANGED <<active, entries, file, row, saves, revised>>,
           disturbed => disturbed',
           req[r].pc \notin {"hook", "unsaved"},
           q.pc \in {"restoring", "ended", "unsaved", "model", "body", "executor"},
           req[r].pc = "commit" => q.pc = "unsaved",
           q.pc = "restoring" /\ current = Nobody => InRedis.held /\ ~InRedis.done,
           q.pc \in Working /\ ~disturbed' =>
              q.obj = current /\ \A p \in Requests \ {r} : req[p].pc \notin Working
    PROVE  Settled'
<1>1. /\ req'[r] = q
      /\ \A p \in Requests \ {r} : req'[p] = req[p]
  BY DEF Typed, TypeOK
<1>2. q.pc \notin {"restored", "commit", "hook"} \cup Confirming
  BY DEF Confirming
<1>3. ASSUME ~disturbed', Alone PROVE Alone'
  BY <1>1, <1>2, <1>3 DEF Alone
<1>4. ASSUME Formed PROVE Formed'
  BY <1>4 DEF Formed, Copies
<1>5. ASSUME AtWork PROVE AtWork'
  BY <1>1, <1>2, <1>5 DEF AtWork
<1>6. ASSUME OneEntry PROVE OneEntry'
  BY <1>6 DEF OneEntry, Copies
<1>7. ASSUME NotEarlier PROVE NotEarlier'
  BY <1>1, <1>2, <1>7 DEF NotEarlier, Copies
<1>8. ASSUME Waiting PROVE Waiting'
  BY <1>1, <1>8 DEF Waiting
<1>9. Steady'
  BY <1>3, <1>4, <1>5, <1>6, <1>7, <1>8 DEF Settled, Steady
<1>10. ASSUME SavesKnown PROVE SavesKnown'
  BY <1>10 DEF SavesKnown
<1>11. ASSUME ArtefactKnown PROVE ArtefactKnown'
  BY <1>1, <1>11 DEF ArtefactKnown
<1>12. ASSUME FileKnown PROVE FileKnown'
  BY <1>1, <1>12 DEF FileKnown
<1>13. ASSUME DiskKnown PROVE DiskKnown'
  BY <1>13 DEF DiskKnown
<1>14. ASSUME RowKnown PROVE RowKnown'
  BY <1>1, <1>2, <1>14 DEF RowKnown
<1>15. QED
  BY <1>9, <1>10, <1>11, <1>12, <1>13, <1>14 DEF Settled, Faithful

\* The object in the store changes, or another one does.
LEMMA LiveBecomes ==
    ASSUME Typed, current' = current, NEW o \in Objects, NEW s \in Session,
           heap' = [heap EXCEPT ![o] = s]
    PROVE  /\ Outline(s) = Outline(heap[o]) => Live' = Live
           /\ current = o => Live' = Outline(s)
<1>1. o # Nobody
  BY NamesAssumption DEF Objects
<1>2. heap \in [Objects -> Session] /\ current \in Objects \cup {Nobody}
  BY DEF Typed, TypeOK
<1>3. QED
  BY <1>1, <1>2 DEF Live

\* As long as requests do not overlap, a request has the live object in hand,
\* and begins to work with no other at work.
LEMMA BeginsAlone ==
    ASSUME Typed, Alone, NEW r \in Requests
    PROVE  /\ \A o \in Objects : Holds(r, o) => o = current /\ req[r].pc \in {"unsent", "restored"}
           /\ req[r].pc \in Working => req[r].obj = current
           /\ Enter(r, current) /\ ~disturbed' =>
                 \A p \in Requests \ {r} : req[p].pc \notin Working
<1>1. \A o \in Objects : Holds(r, o) => o = current /\ req[r].pc \in {"unsent", "restored"}
  BY DEF Alone, Holds, Arrives
<1>2. req[r].pc \in Working => req[r].obj = current
  BY DEF Alone
<1>3. ASSUME Enter(r, current), ~disturbed', NEW p \in Requests \ {r}
      PROVE  req[p].pc \notin Working
  <2>1. p \notin Workers(current)
    BY <1>3 DEF Enter
  <2>2. QED
    BY <2>1 DEF Workers, Alone
<1>4. QED
  BY <1>1, <1>2, <1>3

\* A step that ends the request without a store.
LEMMA EndsQuietly ==
    ASSUME Typed, Typed', Settled, NEW r \in Requests, NEW pc \in {"ended", "unsaved"},
           EndAs(r, pc),
           Live' = Live, OnDisk' = OnDisk, InRedis' = InRedis, current' = current,
           UNCHANGED <<active, entries, file, row, saves, revised>>,
           disturbed => disturbed',
           req[r].pc \notin {"hook", "unsaved"},
           req[r].pc = "commit" => pc = "unsaved"
    PROVE  Settled'
<1> DEFINE q == [req[r] EXCEPT !.pc = pc, !.obj = Boot, !.art = Nobody]
<1>1. req[r] \in Request
  BY HoldsType
<1>2. q \in Request /\ q.pc = pc
  BY <1>1, RequestType DEF Request
<1>3. req' = [req EXCEPT ![r] = q]
  BY DEF EndAs
<1>4. pc \notin Working
  BY DEF Working, Streaming, Json, Confirming
<1> HIDE DEF q
<1>5. QED
  BY <1>2, <1>3, <1>4, QuietlySettled

\* Requests that are answered without work, or whose commit is refused.
LEMMA QuietSettled ==
    ASSUME Typed, Typed', Settled, NEW r \in Requests,
           \/ missing(r) \/ restoreGone(r) \/ commitFails(r) \/ confirmFails(r)
           \/ jsonInitOnDone(r)
           \/ \E o \in Objects :
                 \/ jsonBusy(r, o)
                 \/ \E a \in AttemptIds : resumed(r, o, a) \/ refused(r, o, a)
    PROVE  Settled'
<1>1. /\ UNCHANGED <<current, heap, disk, redis>>
      /\ UNCHANGED <<active, entries, file, row, saves, revised>>
      /\ disturbed => disturbed'
  <2>1. UNCHANGED sessionVars
    BY DEF missing, restoreGone, commitFails, confirmFails, jsonInitOnDone, jsonBusy,
       resumed, refused
  <2>2. /\ UNCHANGED <<active, entries, file, row, saves, revised>>
        /\ UNCHANGED disturbed
    BY DEF missing, restoreGone, commitFails, confirmFails, jsonInitOnDone, jsonBusy,
       resumed, refused, stageVars, ghostVars
  <2>3. QED
    BY <2>1, <2>2 DEF sessionVars
<1>2. Live' = Live /\ OnDisk' = OnDisk /\ InRedis' = InRedis
  BY <1>1 DEF Live, OnDisk, InRedis
<1>3. /\ req[r].pc \notin {"hook", "unsaved"}
      /\ req[r].pc = "commit" => commitFails(r)
  BY DEF missing, restoreGone, commitFails, confirmFails, jsonInitOnDone, jsonBusy,
     resumed, refused, Holds, Arrives
<1>4. CASE missing(r) /\ ~End(r)
  <2> DEFINE q == [req[r] EXCEPT !.pc = "restoring"]
  <2>1. req' = [req EXCEPT ![r] = q] /\ Restorable /\ req[r].pc = "unsent"
    BY <1>4 DEF missing, Arrives
  <2>2. q \in Request /\ q.pc = "restoring"
    BY HoldsType, RequestType DEF Request
  <2>3. "restoring" \notin Working
    BY DEF Working, Streaming, Json, Confirming
  <2>4. InRedis.held /\ ~InRedis.done
    BY <2>1, CopiesType, OutlineOf DEF Restorable, InRedis
  <2> HIDE DEF q
  <2>5. QED
    BY <1>1, <1>2, <2>1, <2>2, <2>3, <2>4, QuietlySettled
<1>5. CASE ~(missing(r) /\ ~End(r))
  <2>1. EndAs(r, "unsaved") \/ (End(r) /\ ~commitFails(r))
    BY <1>5 DEF missing, restoreGone, commitFails, confirmFails, jsonInitOnDone,
       jsonBusy, resumed, refused, Holds, Arrives
  <2>2. QED
    BY <1>1, <1>2, <1>3, <2>1, EndsQuietly DEF End
<1>6. QED
  BY <1>4, <1>5

\* An attempt is accepted, or a JSON turn.
LEMMA BeginSettled ==
    ASSUME Typed, Typed', Settled, NEW r \in Requests, NEW o \in Objects, NEW a \in AttemptIds,
           \/ initOnDone(r, o, a) \/ initPrecomputed(r, o, a)
           \/ \E init \in BOOLEAN : streamTurn(r, o, a, init)
           \/ jsonArrive(r, o)
    PROVE  Settled'
<1>1. heap[o] \in Session /\ heap \in [Objects -> Session]
  BY DEF Typed, TypeOK
<1>2. req[r] \in Request
  BY HoldsType
<1>3. Holds(r, o) /\ req[r].pc \in {"unsent", "restored"}
  BY DEF initOnDone, initPrecomputed, streamTurn, jsonArrive, Accepted, Holds, Arrives
<1>4. CASE initOnDone(r, o, a)
  <2>1. Live' = Live
    <3>1. Guard(heap[o], a) \in Session /\ Outline(Guard(heap[o], a)) = Outline(heap[o])
      BY <1>1, SessionType, UpdatedOutline
    <3>2. heap' = [heap EXCEPT ![o] = Guard(heap[o], a)] /\ current' = current
      BY <1>4 DEF initOnDone
    <3>3. QED
      BY <3>1, <3>2, LiveBecomes
  <2>2. OnDisk' = OnDisk /\ InRedis' = InRedis
    BY <1>4 DEF initOnDone, OnDisk, InRedis
  <2>3. QED
    BY <1>3, <1>4, <2>1, <2>2, EndsQuietly DEF initOnDone, End, stageVars
<1>5. CASE initPrecomputed(r, o, a)
  <2> DEFINE t == [heap[o] EXCEPT !.turns = <<Turn("assistant", r)>>]
             s == IF a = NoAttempt THEN t ELSE [t EXCEPT !.last = [id |-> a, status |-> "complete"]]
  <2>1. t \in Session /\ Outline(t) = Outline(heap[o])
    <3>1. heap[o].turns \in Turns /\ r \in Objects
      BY <1>1, SessionType, HoldsType
    <3>2. <<Turn("assistant", r)>> \in Turns
      BY <3>1, TurnsType
    <3>3. QED
      BY <1>1, <3>2, SessionType, UpdatedOutline
  <2>2. a # NoAttempt => [id |-> a, status |-> "complete"] \in Remembering
    BY DEF AttemptIds, Remembering
  <2>3. s \in Session /\ Outline(s) = Outline(heap[o])
    BY <2>1, <2>2, SessionType, UpdatedOutline DEF AttemptIds
  <2>4. heap' = [heap EXCEPT ![o] = s]
    BY <1>5, <1>1 DEF initPrecomputed, Session
  <2> HIDE DEF s
  <2>5. current' = current
    BY <1>5 DEF initPrecomputed
  <2>6. Live' = Live
    BY <2>3, <2>4, <2>5, LiveBecomes
  <2>7. OnDisk' = OnDisk /\ InRedis' = InRedis
    BY <1>5 DEF initPrecomputed, OnDisk, InRedis
  <2>8. QED
    BY <1>3, <1>5, <2>6, <2>7, EndsQuietly DEF initPrecomputed, End, stageVars
<1>6. ASSUME NEW init \in BOOLEAN, streamTurn(r, o, a, init)
      PROVE  Settled'
  <2> DEFINE g == Guard(heap[o], a)
             s == IF init /\ g.turns = <<>> THEN g
                  ELSE [g EXCEPT !.turns = Append(@, Turn("user", r))]
             q == [req[r] EXCEPT !.pc = "model", !.obj = o, !.id = a]
  <2>1. g \in Session /\ Outline(g) = Outline(heap[o])
    BY <1>1, SessionType, UpdatedOutline
  <2>2. Append(g.turns, Turn("user", r)) \in Turns
    BY <2>1, SessionType, TurnsType, HoldsType
  <2> HIDE DEF g
  <2>3. s \in Session /\ Outline(s) = Outline(heap[o])
    BY <2>1, <2>2, SessionType, UpdatedOutline
  <2>4. heap' = [heap EXCEPT ![o] = s] /\ current' = current
    BY <1>6 DEF streamTurn, g
  <2>5. q \in Request /\ q.pc = "model" /\ q.obj = o
    BY <1>2, RequestType DEF Request, Working, Streaming
  <2>6. req' = [req EXCEPT ![r] = q]
    BY <1>6 DEF streamTurn
  <2> HIDE DEF s, q
  <2>7. Live' = Live
    BY <2>3, <2>4, LiveBecomes
  <2>8. OnDisk' = OnDisk /\ InRedis' = InRedis
    BY <1>6 DEF streamTurn, OnDisk, InRedis
  <2>9. (disturbed => disturbed') /\ Enter(r, o)
    BY <1>6 DEF streamTurn, Enter
  <2>10. ~disturbed' => o = current /\ \A p \in Requests \ {r} : req[p].pc \notin Working
    BY <1>3, <2>9, BeginsAlone DEF Settled, Steady
  <2>11. UNCHANGED <<active, entries, file, row, saves, revised>>
    BY <1>6 DEF streamTurn, stageVars
  <2>12. QED
    BY <1>3, <2>4, <2>5, <2>6, <2>7, <2>8, <2>9, <2>10, <2>11, QuietlySettled
<1>7. CASE jsonArrive(r, o)
  <2> DEFINE q == [req[r] EXCEPT !.pc = "body", !.obj = o]
  <2>1. q \in Request /\ q.pc = "body" /\ q.obj = o
    BY <1>2, RequestType DEF Request, Working, Json
  <2>2. req' = [req EXCEPT ![r] = q]
    BY <1>7 DEF jsonArrive
  <2> HIDE DEF q
  <2>3. UNCHANGED <<current, heap, disk, redis>> /\ UNCHANGED <<active, entries, file, row, saves, revised>>
    BY <1>7 DEF jsonArrive, sessionVars
  <2>4. Live' = Live /\ OnDisk' = OnDisk /\ InRedis' = InRedis
    BY <2>3 DEF Live, OnDisk, InRedis
  <2>5. (disturbed => disturbed') /\ Enter(r, o)
    BY <1>7 DEF jsonArrive, Enter
  <2>6. ~disturbed' => o = current /\ \A p \in Requests \ {r} : req[p].pc \notin Working
    BY <1>3, <2>5, BeginsAlone DEF Settled, Steady
  <2>7. QED
    BY <1>3, <2>1, <2>2, <2>3, <2>4, <2>5, <2>6, QuietlySettled
<1>8. QED
  BY <1>4, <1>5, <1>6, <1>7

\* A JSON turn's body arrives.
LEMMA BodySettled ==
    ASSUME Typed, Typed', Settled, NEW r \in Requests, jsonBody(r)
    PROVE  Settled'
<1> DEFINE s == [heap[current] EXCEPT !.turns = Append(@, Turn("user", r))]
           q == [req[r] EXCEPT !.pc = "executor", !.obj = current]
<1>1. current \in Objects /\ heap[current] \in Session
  BY DEF jsonBody, Typed, TypeOK, InHand, Working, Json
<1>2. s \in Session /\ Outline(s) = Outline(heap[current])
  BY <1>1, SessionType, TurnsType, HoldsType, UpdatedOutline
<1>3. req[r] \in Request
  BY HoldsType
<1>4. q \in Request /\ q.pc = "executor" /\ q.obj = current
  BY <1>1, <1>3, RequestType DEF Request, Working, Json
<1>5. heap' = [heap EXCEPT ![current] = s] /\ req' = [req EXCEPT ![r] = q] /\ current' = current
  BY DEF jsonBody
<1> HIDE DEF s, q
<1>6. Live' = Live
  BY <1>1, <1>2, <1>5, LiveBecomes
<1>7. OnDisk' = OnDisk /\ InRedis' = InRedis
  BY DEF jsonBody, OnDisk, InRedis
<1>8. (disturbed => disturbed') /\ Enter(r, current) /\ req[r].pc = "body"
  BY DEF jsonBody, Enter
<1>9. ~disturbed' => \A p \in Requests \ {r} : req[p].pc \notin Working
  BY <1>8, BeginsAlone DEF Settled, Steady
<1>10. UNCHANGED <<active, entries, file, row, saves, revised>>
  BY DEF jsonBody, stageVars
<1>11. QED
  BY <1>4, <1>5, <1>6, <1>7, <1>8, <1>9, <1>10, QuietlySettled

\* The model fails.
LEMMA FailureSettled ==
    ASSUME Typed, Typed', Settled, NEW r \in Requests, modelError(r) \/ modelEmpty(r)
    PROVE  Settled'
<1> DEFINE o == req[r].obj
<1>1. o \in Objects /\ heap[o] \in Session /\ heap[o].turns \in Turns
  BY HoldsType, SessionType DEF Request
<1>2. \E t \in Turns : heap' = [heap EXCEPT ![o].turns = t]
  <2>1. heap[o].turns # <<>> => Front(heap[o].turns) \in Turns
    BY <1>1, TurnsType
  <2>2. \E t \in {heap[o].turns, Front(heap[o].turns)} :
           /\ t # Front(heap[o].turns) \/ heap[o].turns # <<>> \/ t = heap[o].turns
           /\ heap' = [heap EXCEPT ![o].turns = t]
    BY <1>1 DEF modelError, modelEmpty, Typed, TypeOK
  <2>3. QED
    BY <1>1, <2>1, <2>2
<1>3. PICK t \in Turns : heap' = [heap EXCEPT ![o].turns = t]
  BY <1>2
<1> DEFINE s == [heap[o] EXCEPT !.turns = t]
<1>4. s \in Session /\ Outline(s) = Outline(heap[o])
  BY <1>1, SessionType, UpdatedOutline
<1>5. heap' = [heap EXCEPT ![o] = s]
  BY <1>3
<1>6. /\ current' = current /\ disk' = disk /\ redis' = redis
      /\ UNCHANGED <<active, entries, file, row, saves, revised>>
      /\ disturbed' = disturbed
      /\ req[r].pc = "model" /\ EndAs(r, "ended")
  BY DEF modelError, modelEmpty, stageVars, ghostVars, End
<1> HIDE DEF s
<1>7. Live' = Live
  BY <1>1, <1>4, <1>5, <1>6, LiveBecomes
<1>8. OnDisk' = OnDisk /\ InRedis' = InRedis
  BY <1>6 DEF OnDisk, InRedis
<1>9. QED
  BY <1>6, <1>7, <1>8, EndsQuietly

\* Sixty seconds pass.
LEMMA ExpireSettled ==
    ASSUME Typed, Settled, NEW o \in Objects, expire(o)
    PROVE  Settled'
<1> DEFINE s == [heap[o] EXCEPT !.last.status = "stale"]
<1>1. heap[o] \in Session
  BY DEF Typed, TypeOK
<1>2. heap[o].last.status = "in-flight"
  BY DEF expire
<1>3. s \in Session
  BY <1>1, <1>2, SessionType
<1>4. s.done = heap[o].done /\ s.content = heap[o].content /\ s.stageDone = heap[o].stageDone
  BY <1>1 DEF Session
<1>5. heap' = [heap EXCEPT ![o] = s]
  BY DEF expire, Typed, TypeOK
<1> HIDE DEF s
<1>6. Outline(s) = Outline(heap[o])
  BY <1>1, <1>3, <1>4, OutlineOf
<1>7. UNCHANGED <<current, disk, redis, req, disturbed, revised>> /\ UNCHANGED stageVars
  BY DEF expire
<1>8. Live' = Live /\ OnDisk' = OnDisk /\ InRedis' = InRedis
  BY <1>3, <1>5, <1>6, <1>7, LiveBecomes DEF OnDisk, InRedis
<1>9. Steady'
  BY <1>7, <1>8 DEF Settled, Steady, Alone, Formed, Copies, AtWork, OneEntry, NotEarlier,
     Waiting, stageVars
<1>10. Faithful'
  BY <1>7, <1>8 DEF Settled, Faithful, SavesKnown, ArtefactKnown, FileKnown, DiskKnown,
     RowKnown, stageVars
<1>11. QED
  BY <1>9, <1>10 DEF Settled

\* A session comes back from Redis: with no overlap, no request is at work.
LEMMA RestoreSettled ==
    ASSUME Typed, Typed', Settled, NEW r \in Requests, restore(r)
    PROVE  Settled'
<1> DEFINE s == [redis EXCEPT !.step1 = heap[Boot].step1]
           q == [req[r] EXCEPT !.pc = "restored", !.obj = r]
<1>1. redis \in Session /\ redis # Nobody /\ heap[Boot].step1 \in BOOLEAN
  BY CopiesType DEF restore, Typed, TypeOK, Session, Objects
<1>2. s \in Session /\ s.done = redis.done /\ s.content = redis.content /\ s.stageDone = redis.stageDone
  BY <1>1 DEF Session
<1>3. heap' = [heap EXCEPT ![r] = s] /\ req' = [req EXCEPT ![r] = q] /\ current' = r
  BY DEF restore
<1>4. q.pc = "restored" /\ q.obj = r
  BY HoldsType DEF Request
<1> HIDE DEF s, q
<1>5. r # Nobody /\ r \in Objects
  BY NamesAssumption DEF Objects
<1>6. Live' = InRedis
  <2>1. heap'[r] = s
    BY <1>3, <1>5 DEF Typed, TypeOK
  <2>2. Outline(s) = Outline(redis)
    BY <1>1, <1>2, OutlineOf
  <2>3. QED
    BY <1>3, <1>5, <2>1, <2>2 DEF Live, InRedis
<1>7. OnDisk' = OnDisk /\ InRedis' = InRedis /\ UNCHANGED <<active, entries, file, row, saves, revised>>
  BY DEF restore, OnDisk, InRedis, stageVars
<1>8. ~disturbed' => current = Nobody /\ ~disturbed
  BY DEF restore
<1>9. /\ req'[r] = q
      /\ \A p \in Requests \ {r} : req'[p] = req[p]
  BY <1>3 DEF Typed, TypeOK
<1>10. "restored" \notin Working \cup {"commit", "hook"} \cup Confirming
  BY DEF Working, Streaming, Json, Confirming
<1>11. SUFFICES ASSUME ~disturbed' PROVE Settled'
  BY DEF Settled, Steady, Faithful
<1>12. \A p \in Requests : req[p].pc \notin {"restored"} \cup Working
  BY <1>8, <1>11, NamesAssumption DEF Typed, InHand, Objects
<1>13. \A p \in Requests : req'[p].pc \notin Working /\ (req'[p].pc = "restored" => p = r)
  BY <1>4, <1>9, <1>10, <1>12
<1>14. InRedis.held /\ ~InRedis.done /\ ~InRedis.stageDone /\ InRedis.content \notin Requests
  <2>1. InRedis.held = TRUE
    BY <1>1, CopiesType
  <2>2. InRedis.done = FALSE
    BY <1>1, <1>8, <1>11, CopiesType DEF Settled, Steady, Waiting, restore, Outlines
  <2>3. QED
    BY <1>8, <1>11, <2>1, <2>2 DEF Settled, Steady, Formed, Copies
<1>15. Alone'
  BY <1>3, <1>4, <1>9, <1>13 DEF Alone
<1>16. Formed'
  BY <1>6, <1>7, <1>8, <1>11 DEF Settled, Steady, Formed, Copies
<1>17. AtWork'
  BY <1>13 DEF AtWork, Working, Streaming, Confirming
<1>18. OneEntry'
  BY <1>6, <1>7, <1>8, <1>11 DEF Settled, Steady, OneEntry, Copies
<1>19. NotEarlier'
  BY <1>6, <1>7, <1>8, <1>11, <1>13
  DEF Settled, Steady, NotEarlier, Copies, Working, Streaming
<1>20. Waiting'
  BY <1>3, <1>5 DEF Waiting
<1>21. ASSUME ~revised', Faithful PROVE Faithful'
  <2>1. SavesKnown /\ ArtefactKnown /\ FileKnown /\ DiskKnown
    BY <1>7, <1>8, <1>11, <1>21 DEF Faithful
  <2>2. Live.held = FALSE /\ Live.content = Nobody /\ Live.stageDone = FALSE
    BY <1>8, <1>11, OutlineOf DEF Live
  <2>3. SavesKnown'
    BY <1>7, <2>1, <2>2, NamesAssumption DEF SavesKnown
  <2>4. ArtefactKnown'
    BY <1>6, <1>14 DEF ArtefactKnown
  <2>5. FileKnown'
    <3>1. req[r].pc = "restoring"
      BY DEF restore
    <3>2. QED
      BY <1>7, <1>9, <2>1, <2>2, <3>1 DEF FileKnown
  <2>6. DiskKnown'
    BY <1>7, <2>1, <2>2 DEF DiskKnown
  <2>7. RowKnown'
    BY <1>6, <1>13, <1>14 DEF RowKnown, Working
  <2>8. QED
    BY <2>3, <2>4, <2>5, <2>6, <2>7 DEF Faithful
<1>22. QED
  BY <1>15, <1>16, <1>17, <1>18, <1>19, <1>20, <1>21 DEF Settled, Steady, Faithful

\* Gate-confirm begins: the file if there is none, and the save.
LEMMA ConfirmSettled ==
    ASSUME Typed, Typed', Settled, NEW r \in Requests, confirm(r)
    PROVE  Settled'
<1> DEFINE q == [req[r] EXCEPT !.pc = "confirm save", !.obj = current,
                               !.art = heap[current].content]
<1>1. /\ current # Nobody /\ current \in Objects /\ heap[current] \in Session
      /\ Live.done = TRUE /\ Live.content = heap[current].content
  BY CopiesType DEF confirm, Session, Typed, TypeOK
<1>2. q.pc = "confirm save" /\ q.obj = current
  BY HoldsType DEF Request
<1>3. req' = [req EXCEPT ![r] = q] /\ req[r].pc = "unsent"
  BY DEF confirm, Arrives
<1> HIDE DEF q
<1>4. /\ file' = IF file = Nobody THEN Live.content ELSE file
      /\ saves' = saves \cup {Live.content}
      /\ active /\ UNCHANGED <<active, entries, row, revised>>
      /\ UNCHANGED <<current, heap, disk, redis>>
  BY <1>1 DEF confirm, sessionVars
<1>5. Live' = Live /\ OnDisk' = OnDisk /\ InRedis' = InRedis
  BY <1>4 DEF Live, OnDisk, InRedis
<1>6. /\ req'[r] = q
      /\ \A p \in Requests \ {r} : req'[p] = req[p]
  BY <1>3 DEF Typed, TypeOK
<1>7. (disturbed => disturbed') /\ Enter(r, current)
  BY DEF confirm, Enter
<1>8. SUFFICES ASSUME ~disturbed' PROVE Settled'
  BY DEF Settled, Steady, Faithful
<1>9. ~disturbed /\ Alone /\ Formed /\ AtWork /\ OneEntry /\ NotEarlier /\ Waiting
  BY <1>7, <1>8 DEF Settled, Steady
<1>10. \A p \in Requests \ {r} : req[p].pc \notin Working
  BY <1>7, <1>8, <1>9, BeginsAlone
<1>11. Live.content \in Requests
  BY <1>1, <1>9 DEF Formed, Copies
<1>12. Alone'
  BY <1>2, <1>4, <1>6, <1>9, <1>10 DEF Alone
<1>13. Formed'
  BY <1>5, <1>9 DEF Formed, Copies
<1>14. AtWork'
  BY <1>1, <1>2, <1>4, <1>5, <1>6, <1>9 DEF AtWork
<1>15. OneEntry'
  BY <1>4, <1>5, <1>9 DEF OneEntry, Copies
<1>16. NotEarlier'
  BY <1>4, <1>5, <1>9, <1>11, NamesAssumption DEF NotEarlier
<1>17. Waiting'
  BY <1>1, <1>4 DEF Waiting
<1>18. ASSUME ~revised', Faithful PROVE Faithful'
  <2>1. SavesKnown /\ ArtefactKnown /\ FileKnown /\ DiskKnown
    BY <1>4, <1>9, <1>18 DEF Faithful
  <2>2. SavesKnown'
    BY <1>4, <1>5, <1>11, <2>1 DEF SavesKnown
  <2>3. ArtefactKnown'
    BY <1>3, <1>5, <1>6, <2>1 DEF ArtefactKnown
  <2>4. FileKnown'
    BY <1>3, <1>4, <1>5, <1>6, <2>1 DEF FileKnown
  <2>5. DiskKnown'
    BY <1>5, <2>1 DEF DiskKnown
  <2>6. RowKnown'
    BY <1>4, <1>5 DEF RowKnown
  <2>7. QED
    BY <2>2, <2>3, <2>4, <2>5, <2>6 DEF Faithful
<1>19. QED
  BY <1>12, <1>13, <1>14, <1>15, <1>16, <1>17, <1>18 DEF Settled, Steady, Faithful

\* The save of gate-confirm has settled.
LEMMA ConfirmSavedSettled ==
    ASSUME Typed, Typed', Settled, NEW r \in Requests, confirmSaved(r)
    PROVE  Settled'
<1>1. /\ req[r].pc = "confirm save"
      /\ UNCHANGED <<current, heap, disk, redis>>
      /\ UNCHANGED <<entries, file, row, saves, disturbed, revised>>
  BY DEF confirmSaved, sessionVars, ghostVars
<1>2. Live' = Live /\ OnDisk' = OnDisk /\ InRedis' = InRedis
  BY <1>1 DEF Live, OnDisk, InRedis
<1>3. SUFFICES ASSUME ~disturbed PROVE Settled'
  BY <1>1 DEF Settled, Steady, Faithful
<1>4. Alone /\ Formed /\ AtWork /\ OneEntry /\ NotEarlier /\ Waiting
  BY <1>3 DEF Settled, Steady
<1>5. /\ req[r].obj = current /\ current \in Objects
      /\ Live.stageDone = heap[req[r].obj].stageDone
      /\ Live.stageDone \in BOOLEAN
  BY <1>1, <1>4, BeginsAlone, CopiesType, NamesAssumption
     DEF Typed, InHand, Working, Confirming, Objects, Outlines
<1>6. CASE Live.stageDone = TRUE
  <2>1. End(r) /\ active' = FALSE
    BY <1>5, <1>6 DEF confirmSaved
  <2>2. /\ \A p \in Requests \ {r} : req'[p] = req[p]
        /\ req'[r].pc = "ended"
    BY <2>1 DEF End, EndAs, Typed, TypeOK
  <2>3. "ended" \notin Working \cup {"restored", "commit", "hook"} \cup Confirming
    BY DEF Working, Streaming, Json, Confirming
  <2>8. \A p \in Requests \ {r} : req[p].pc \notin Working
    BY <1>1, <1>4 DEF Alone, Working, Confirming
  <2>9. Alone' /\ Formed'
    BY <1>1, <1>2, <1>4, <2>2, <2>3 DEF Alone, Formed, Copies
  <2>4. AtWork'
    BY <2>2, <2>3, <2>8 DEF AtWork, Working, Streaming, Json, Confirming
  <2>5. OneEntry' /\ NotEarlier' /\ Waiting'
    BY <1>1, <1>2, <1>4, <2>1, <2>2, <2>3 DEF OneEntry, NotEarlier, Waiting, Copies
  <2>6. Faithful'
    BY <1>1, <1>2, <1>6, <2>2, <2>3
    DEF Settled, Faithful, SavesKnown, ArtefactKnown, FileKnown, DiskKnown, RowKnown
  <2>7. QED
    BY <2>4, <2>9, <2>5, <2>6 DEF Settled, Steady
<1>7. CASE Live.stageDone = FALSE
  <2> DEFINE q == [req[r] EXCEPT !.pc = "confirm commit"]
  <2>1. req' = [req EXCEPT ![r] = q] /\ active' = active
    BY <1>5, <1>7 DEF confirmSaved
  <2>2. q.pc = "confirm commit" /\ q.obj = current
    BY <1>5, HoldsType DEF Request
  <2> HIDE DEF q
  <2>3. /\ req'[r] = q
        /\ \A p \in Requests \ {r} : req'[p] = req[p]
    BY <2>1 DEF Typed, TypeOK
  <2>4. Live.held = TRUE /\ entries \in Nat
    BY <1>5, CopiesType, NamesAssumption DEF Objects, Typed, TypeOK
  <2>5. entries = 0
    <3>1. active
      BY <1>1, <1>4 DEF AtWork, Confirming
    <3>2. entries # 1
      BY <1>4, <1>7, <2>4, <3>1 DEF OneEntry, Copies
    <3>3. QED
      BY <1>4, <2>4, <3>2 DEF OneEntry
  <2>6. "confirm save" \in Working /\ "confirm save" \in Confirming /\ "confirm commit" \in Confirming
    BY DEF Working, Confirming
  <2>7. Alone'
    <3>1. req[r].pc \in Working /\ current' = current
      BY <1>1, <2>6
    <3>2. \A p \in Requests : req'[p].pc \in Working => req[p].pc \in Working
      BY <2>3, <3>1
    <3>3. \A p \in Requests \ {r} :
             req'[p].pc \in {"restored"} \cup Working => req'[p].obj = current
      BY <1>4, <2>3 DEF Alone
    <3>4. \A p, s \in Requests :
             req'[p].pc \in Working /\ req'[s].pc \in Working => p = s
      BY <1>4, <3>2 DEF Alone
    <3>5. QED
      BY <2>2, <2>3, <3>1, <3>3, <3>4 DEF Alone
  <2>8. AtWork'
    BY <1>1, <1>2, <1>4, <2>1, <2>2, <2>3, <2>5, <2>6 DEF AtWork
  <2>9. Formed' /\ OneEntry' /\ NotEarlier' /\ Waiting'
    BY <1>1, <1>2, <1>4, <2>1, <2>2, <2>3 DEF Formed, OneEntry, NotEarlier, Waiting, Copies
  <2>10. Faithful'
    BY <1>1, <1>2, <2>2, <2>3, <2>6
    DEF Settled, Faithful, SavesKnown, ArtefactKnown, FileKnown, DiskKnown, RowKnown
  <2>11. QED
    BY <2>7, <2>8, <2>9, <2>10 DEF Settled, Steady
<1>8. QED
  BY <1>5, <1>6, <1>7

\* Gate-confirm completes the stage.
LEMMA ConfirmCompletesSettled ==
    ASSUME Typed, Typed', Settled, NEW r \in Requests, confirmCompletes(r)
    PROVE  Settled'
<1> DEFINE s == [heap[req[r].obj] EXCEPT !.stageDone = TRUE]
<1>1. /\ req[r].pc = "confirm commit" /\ EndAs(r, "ended")
      /\ entries' = entries + 1 /\ active' = FALSE
      /\ UNCHANGED <<current, disk, redis, file, row, saves, disturbed, revised>>
  BY DEF confirmCompletes, ghostVars, End
<1>2. heap' = [heap EXCEPT ![req[r].obj] = s]
  BY DEF confirmCompletes, Typed, TypeOK
<1>3. SUFFICES ASSUME ~disturbed PROVE Settled'
  BY <1>1 DEF Settled, Steady, Faithful
<1>4. Alone /\ Formed /\ AtWork /\ OneEntry /\ NotEarlier /\ Waiting
  BY <1>3 DEF Settled, Steady
<1>5. "confirm commit" \in Working /\ "confirm commit" \in Confirming
  BY DEF Working, Confirming
<1>6. /\ req[r].obj = current /\ current \in Objects /\ current # Nobody
      /\ heap[current] \in Session
  BY <1>1, <1>4, <1>5, BeginsAlone, CopiesType, NamesAssumption DEF Typed, InHand, Objects
<1>7. s \in Session
  BY <1>6, SessionType
<1>8. /\ Live' = Outline(s)
      /\ OnDisk' = OnDisk /\ InRedis' = InRedis
  <2> HIDE DEF s
  <2>1. QED
    BY <1>1, <1>2, <1>6, <1>7, LiveBecomes DEF OnDisk, InRedis
<1>9. /\ Live'.stageDone = TRUE /\ Live'.held = TRUE
      /\ Live'.done = Live.done /\ Live'.content = Live.content
      /\ Live.done = TRUE /\ entries = 0 /\ active
  <2>1. Live.done = TRUE /\ entries = 0 /\ active
    BY <1>1, <1>4, <1>5, <1>6, CopiesType DEF AtWork, Session
  <2>2. QED
    BY <1>6, <1>8, <2>1, UpdatedOutline, CopiesType
<1> HIDE DEF s
<1>10. /\ \A p \in Requests \ {r} : req'[p] = req[p]
       /\ req'[r].pc = "ended"
  BY <1>1 DEF EndAs, Typed, TypeOK
<1>11. "ended" \notin Working \cup {"restored", "commit", "hook"} \cup Confirming
  BY DEF Working, Streaming, Json, Confirming
<1>12. \A p \in Requests \ {r} : req[p].pc \notin Working
  BY <1>1, <1>4, <1>5 DEF Alone
<1>13. \A p \in Requests : req'[p].pc \notin Working
  BY <1>10, <1>11, <1>12
<1>14. Alone'
  BY <1>1, <1>4, <1>10, <1>11 DEF Alone
<1>15. Formed'
  BY <1>4, <1>8, <1>9 DEF Formed, Copies
<1>16. AtWork'
  BY <1>13 DEF AtWork, Working, Streaming, Json, Confirming
<1>17. OneEntry'
  <2>1. entries' = entries + 1
    BY <1>1
  <2>2. entries = 0
    BY <1>9
  <2>3. entries' = 1
    BY <2>1, <2>2
  <2>4. active' = FALSE
    BY <1>1
  <2>5. entries' <= 1
    BY <2>3
  <2>6. QED
    BY <2>4, <2>5 DEF OneEntry
<1>18. NotEarlier'
  BY <1>1, <1>4, <1>8, <1>9, <1>13 DEF NotEarlier, Copies, Working, Streaming
<1>19. Waiting'
  BY <1>1, <1>6 DEF Waiting
<1>20. ASSUME ~revised, Faithful PROVE Faithful'
  <2>1. SavesKnown /\ ArtefactKnown /\ FileKnown /\ DiskKnown /\ RowKnown
    BY <1>3, <1>20 DEF Faithful
  <2>2. SavesKnown' /\ FileKnown' /\ DiskKnown'
    BY <1>1, <1>8, <1>9, <1>10, <1>11, <2>1 DEF SavesKnown, FileKnown, DiskKnown
  <2>3. ArtefactKnown'
    BY <1>1, <1>8, <1>9, <1>10, <1>11, <2>1 DEF ArtefactKnown
  <2>4. RowKnown'
    <3>1. \A p \in Requests : req[p].pc # "hook"
      BY <1>1, <1>12 DEF Working, Streaming
    <3>2. QED
      BY <1>1, <1>5, <1>9, <2>1, <3>1 DEF RowKnown
  <2>5. QED
    BY <2>2, <2>3, <2>4 DEF Faithful
<1>21. QED
  BY <1>1, <1>14, <1>15, <1>16, <1>17, <1>18, <1>19, <1>20 DEF Settled, Steady, Faithful

\* A background save settles.
LEMMA SaveSettled ==
    ASSUME Typed, Typed', Settled, NEW c \in Artefacts, saveSettles(c)
    PROVE  Settled'
<1>1. /\ UNCHANGED <<current, heap, disk, redis>>
      /\ UNCHANGED <<active, entries, file, req, revised>>
      /\ c \in saves /\ saves' = saves \ {c}
      /\ disturbed => disturbed'
      /\ ~disturbed' => row' = c
  BY DEF saveSettles, sessionVars
<1>2. Live' = Live /\ OnDisk' = OnDisk /\ InRedis' = InRedis
  BY <1>1 DEF Live, OnDisk, InRedis
<1>3. Steady'
  BY <1>1, <1>2
  DEF Settled, Steady, Alone, Formed, Copies, AtWork, OneEntry, NotEarlier, Waiting
<1>4. ASSUME ~disturbed', ~revised' PROVE Faithful'
  <2>1. SavesKnown /\ ArtefactKnown /\ FileKnown /\ DiskKnown
    BY <1>1, <1>4 DEF Settled, Faithful
  <2>2. c = Live.content
    BY <1>1, <2>1 DEF SavesKnown
  <2>3. SavesKnown' /\ RowKnown'
    BY <1>1, <1>2, <1>4, <2>1, <2>2 DEF SavesKnown, RowKnown
  <2>4. ArtefactKnown' /\ FileKnown' /\ DiskKnown'
    BY <1>1, <1>2, <2>1 DEF ArtefactKnown, FileKnown, DiskKnown
  <2>5. QED
    BY <2>3, <2>4 DEF Faithful
<1>5. QED
  BY <1>3, <1>4 DEF Settled, Faithful

\* The server restarts: the live session is that of the file, if it is there.
LEMMA RestartSettled ==
    ASSUME Typed, Typed', Settled, NEW wiped \in BOOLEAN, restart(wiped)
    PROVE  Settled'
<1>1. SUFFICES ASSUME ~disturbed' PROVE Settled'
  BY DEF Settled, Steady, Faithful
<1>2. /\ ~disturbed
      /\ \A r \in Requests : req[r].pc \in {"unsent", "ended", "unsaved"}
      /\ saves = {}
  BY <1>1 DEF restart
<1>3. Alone /\ Formed /\ AtWork /\ OneEntry /\ NotEarlier /\ Waiting
  BY <1>2 DEF Settled, Steady
<1> DEFINE copy == IF wiped THEN Nobody ELSE disk
<1>4. /\ disk' = copy
      /\ file' = IF wiped THEN Nobody ELSE file
      /\ current' = IF copy = Nobody THEN Nobody ELSE Boot
      /\ heap' = [heap EXCEPT ![Boot] = IF copy = Nobody THEN @ ELSE copy]
      /\ row' \in saves \cup {row} /\ saves' = {}
      /\ UNCHANGED <<redis, active, entries, revised>>
  BY DEF restart
<1>5. \A r \in Requests : req'[r].pc \in {"unsent", "ended", "unsaved"} /\ (req'[r].pc = req[r].pc)
  BY <1>2 DEF restart
<1>6. "unsent" \notin Working /\ "ended" \notin Working /\ "unsaved" \notin Working
  BY DEF Working, Streaming, Json, Confirming
<1>7. \A r \in Requests : req'[r].pc \notin Working
  BY <1>5, <1>6
<1>8. Live' = Outline(copy) /\ OnDisk' = Outline(copy) /\ InRedis' = InRedis
  <2>1. Boot \in Objects /\ Boot # Nobody
    BY NamesAssumption DEF Objects
  <2>2. copy # Nobody => heap'[Boot] = copy
    BY <1>4, <2>1 DEF Typed, TypeOK
  <2>3. QED
    BY <1>4, <2>1, <2>2 DEF Live, OnDisk, InRedis
<1>9. /\ wiped => Live' = Outline(Nobody)
      /\ ~wiped => Live' = OnDisk
  BY <1>8 DEF OnDisk
<1> HIDE DEF copy
<1>10. Alone'
  BY <1>5, <1>7 DEF Alone
<1>11. Formed'
  BY <1>3, <1>8, <1>9, OutlineOf, NamesAssumption DEF Formed, Copies
<1>12. AtWork'
  BY <1>7 DEF AtWork, Working, Streaming, Json, Confirming
<1>13. OneEntry'
  BY <1>3, <1>4, <1>8, <1>9, OutlineOf DEF OneEntry, Copies
<1>14. NotEarlier'
  BY <1>3, <1>4, <1>7, <1>8, <1>9, OutlineOf, NamesAssumption
  DEF NotEarlier, Copies, Working, Streaming
<1>15. Waiting'
  BY <1>5 DEF Waiting
<1>16. ASSUME ~revised, Faithful PROVE Faithful'
  <2>1. SavesKnown /\ ArtefactKnown /\ FileKnown /\ DiskKnown /\ RowKnown
    BY <1>2, <1>16 DEF Faithful
  <2>2. SavesKnown' /\ ArtefactKnown' /\ DiskKnown'
    BY <1>4, <1>8, OutlineOf DEF SavesKnown, ArtefactKnown, DiskKnown
  <2>3. FileKnown'
    <3>1. CASE wiped
      BY <1>4, <3>1 DEF FileKnown
    <3>2. CASE ~wiped /\ file = Live.content /\ file \in Requests
      BY <1>2, <1>4, <1>5, <1>9, <2>1, <3>2 DEF FileKnown, ArtefactKnown
    <3>3. CASE ~wiped /\ ~(file = Live.content /\ file \in Requests)
      BY <1>4, <1>5, <2>1, <3>3, CopiesType DEF FileKnown, Outlines, Artefacts
    <3>4. QED
      BY <3>1, <3>2, <3>3
  <2>4. RowKnown'
    BY <1>2, <1>4, <1>5, <1>7, <1>9, <2>1, OutlineOf DEF RowKnown, DiskKnown, Working
  <2>5. QED
    BY <2>2, <2>3, <2>4 DEF Faithful
<1>17. QED
  BY <1>2, <1>4, <1>10, <1>11, <1>12, <1>13, <1>14, <1>15, <1>16
  DEF Settled, Steady, Faithful

\* A turn ends with the object and the file at s.
LEMMA TailSettled ==
    ASSUME Typed, Typed', Settled, NEW r \in Requests, NEW s \in Session,
           EndAs(r, "ended"), req[r].pc \in Working, current' = current,
           disturbed => disturbed',
           ~disturbed' =>
              /\ Live' = Outline(s) /\ OnDisk' = Outline(s)
              /\ \/ InRedis' \in {Outline(Nobody), Outline(s)}
                 \/ InRedis' = InRedis /\ UNCHANGED <<entries, active, file>>
              /\ s.done <=> s.content \in Requests
              /\ s.stageDone => s.done /\ file' # Earlier
              /\ active' => file' # Earlier
              /\ entries' <= 1 /\ (entries' = 1 /\ active' => s.stageDone),
           ~disturbed' /\ ~revised' /\ Faithful =>
              /\ saves' # {} => s.content \in Requests /\ saves' \subseteq {s.content}
              /\ \/ file' \in {Nobody, Earlier, s.content}
                 \/ file' \in Requests /\ req[file'].pc = "unsaved"
              /\ s.stageDone => row' = s.content \/ s.content \in saves'
    PROVE  Settled'
<1>1. SUFFICES ASSUME ~disturbed' PROVE Settled'
  BY DEF Settled, Steady, Faithful
<1>2. Alone /\ Formed /\ AtWork /\ OneEntry /\ NotEarlier /\ Waiting
  BY <1>1 DEF Settled, Steady
<1>3. /\ \A p \in Requests \ {r} : req'[p] = req[p] /\ req[p].pc \notin Working
      /\ req'[r].pc = "ended"
  BY <1>2 DEF EndAs, Typed, TypeOK, Alone
<1>4. "ended" \notin Working \cup {"restored"}
  BY DEF Working, Streaming, Json, Confirming
<1>5. \A p \in Requests : req'[p].pc \notin Working
  BY <1>3, <1>4
<1>6. current # Nobody
  BY NamesAssumption DEF Typed, InHand, Objects
<1>7. /\ Outline(s).held = TRUE /\ Outline(s).done = s.done
      /\ Outline(s).content = s.content /\ Outline(s).stageDone = s.stageDone
  BY OutlineOf
<1>8. Alone'
  BY <1>2, <1>3, <1>4, <1>5 DEF Alone
<1>9. Formed'
  <2>1. \A c \in {Outline(s), Outline(Nobody), InRedis} :
           /\ c.done <=> c.content \in Requests
           /\ c.stageDone => c.done
    BY <1>1, <1>2, <1>7, OutlineOf, NamesAssumption DEF Formed, Copies
  <2>2. QED
    BY <1>1, <2>1 DEF Formed, Copies
<1>10. AtWork'
  BY <1>5 DEF AtWork, Working, Streaming, Json, Confirming
<1>11. OneEntry'
  <2>1. entries' <= 1
    BY <1>1
  <2>2. ASSUME entries' = 1, active' PROVE \A c \in Copies' : c.held => c.stageDone
    BY <1>1, <1>2, <1>7, <2>2, OutlineOf DEF OneEntry, Copies
  <2>3. QED
    BY <2>1, <2>2 DEF OneEntry
<1>12. NotEarlier'
  <2>1. \A p \in Requests : req'[p].pc \notin {"commit", "hook"}
    BY <1>5 DEF Working, Streaming
  <2>2. \A c \in Copies' : c.stageDone => file' # Earlier
    BY <1>1, <1>2, <1>7, OutlineOf DEF NotEarlier, Copies
  <2>3. QED
    BY <1>1, <2>1, <2>2 DEF NotEarlier
<1>13. Waiting'
  BY <1>6 DEF Waiting
<1>14. ASSUME ~revised', Faithful PROVE Faithful'
  <2>1. SavesKnown' /\ ArtefactKnown' /\ DiskKnown'
    BY <1>1, <1>7, <1>14 DEF SavesKnown, ArtefactKnown, DiskKnown
  <2>2. FileKnown'
    <3>1. req[r].pc # "unsaved"
      BY DEF Working, Streaming, Json, Confirming
    <3>2. QED
      BY <1>1, <1>3, <1>7, <1>14, <3>1 DEF FileKnown
  <2>3. RowKnown'
    BY <1>1, <1>5, <1>7, <1>14 DEF RowKnown, Working
  <2>4. QED
    BY <2>1, <2>2, <2>3 DEF Faithful
<1>15. QED
  BY <1>8, <1>9, <1>10, <1>11, <1>12, <1>13, <1>14 DEF Settled, Steady, Faithful

\* What the tail of a streamed turn leaves.
LEMMA FinishShape ==
    ASSUME Typed, Typed', Settled, NEW r \in Requests, NEW s \in Session, NEW done \in BOOLEAN,
           Finish(r, s, done), req[r].pc \in Streaming
    PROVE  /\ EndAs(r, "ended") /\ req[r].pc \in Working /\ current' = current
           /\ disturbed => disturbed'
           /\ ~disturbed' =>
                 /\ Live' = Outline(s) /\ OnDisk' = Outline(s)
                 /\ InRedis' \in {Outline(Nobody), Outline(s)}
<1> DEFINE answer == [s EXCEPT !.turns = Append(@, Turn("assistant", r))]
           after == IF req[r].id = NoAttempt THEN answer
                    ELSE [answer EXCEPT !.last = [id |-> req[r].id, status |-> "complete"]]
<1>1. answer \in Session /\ Outline(answer) = Outline(s)
  BY SessionType, TurnsType, HoldsType, UpdatedOutline
<1>2. req[r].id \in Attempts \/ req[r].id = NoAttempt
  BY HoldsType DEF Request, AttemptIds
<1>3. after \in Session /\ Outline(after) = Outline(s)
  <2> HIDE DEF answer
  <2>1. \A a \in Attempts : [id |-> a, status |-> "complete"] \in Remembering
    BY DEF Remembering
  <2>2. QED
    BY <1>1, <1>2, <2>1, SessionType, UpdatedOutline
<1>4. heap' = [heap EXCEPT ![req[r].obj] = after]
  BY DEF Finish
<1>5. /\ disk' = answer /\ current' = current /\ EndAs(r, "ended")
      /\ redis' = (IF done THEN Nobody ELSE answer) \/ disturbed'
      /\ disturbed => disturbed'
  BY DEF Finish, End
<1> HIDE DEF answer, after
<1>6. req[r].pc \in Working
  BY DEF Working
<1>7. ASSUME ~disturbed' PROVE Live' = Outline(s)
  <2>1. req[r].obj = current /\ current \in Objects
    BY <1>5, <1>6, <1>7, BeginsAlone DEF Settled, Steady, Typed, InHand
  <2>2. QED
    BY <1>3, <1>4, <1>5, <2>1, LiveBecomes
<1>8. QED
  BY <1>1, <1>5, <1>6, <1>7 DEF OnDisk, InRedis

\* What is known while a request works, if none overlaps it.
LEMMA WhileAtWork ==
    ASSUME Typed, Settled, ~disturbed, NEW r \in Requests, req[r].pc \in Working
    PROVE  /\ req[r].obj = current /\ current \in Objects
           /\ \A p \in Requests \ {r} : req[p].pc \notin Working
           /\ Live.held = TRUE
           /\ Live.done = heap[req[r].obj].done
           /\ Live.content = heap[req[r].obj].content
           /\ Live.stageDone = heap[req[r].obj].stageDone
           /\ Alone /\ Formed /\ AtWork /\ OneEntry /\ NotEarlier /\ Waiting
           /\ Live.done <=> Live.content \in Requests
           /\ Live.stageDone => Live.done /\ file # Earlier
           /\ active => file # Earlier
           /\ entries \in Nat /\ entries <= 1
           /\ entries = 1 /\ active => Live.stageDone
<1>1. Alone /\ Formed /\ AtWork /\ OneEntry /\ NotEarlier /\ Waiting
  BY DEF Settled, Steady
<1>2. req[r].obj = current /\ current \in Objects
  BY <1>1, BeginsAlone DEF Typed, InHand
<1>3. \A p \in Requests \ {r} : req[p].pc \notin Working
  BY <1>1 DEF Alone
<1>4. /\ Live.held = TRUE
      /\ Live.done = heap[req[r].obj].done
      /\ Live.content = heap[req[r].obj].content
      /\ Live.stageDone = heap[req[r].obj].stageDone
  BY <1>2, CopiesType, NamesAssumption DEF Objects
<1>5. /\ Live.done <=> Live.content \in Requests
      /\ Live.stageDone => Live.done /\ file # Earlier
      /\ active => file # Earlier
  BY <1>1 DEF Formed, NotEarlier, Copies
<1>6. /\ entries \in Nat /\ entries <= 1
      /\ entries = 1 /\ active => Live.stageDone
  BY <1>1, <1>4 DEF OneEntry, Copies, Typed, TypeOK
<1>7. QED
  BY <1>1, <1>2, <1>3, <1>4, <1>5, <1>6

\* What is known in addition if there was no second artefact.
LEMMA WhileFaithful ==
    ASSUME ~disturbed, ~revised, Faithful
    PROVE  /\ SavesKnown /\ ArtefactKnown /\ FileKnown /\ DiskKnown /\ RowKnown
           /\ saves # {} => Live.content \in Requests /\ saves \subseteq {Live.content}
           /\ \/ file \in {Nobody, Earlier, Live.content}
              \/ file \in Requests /\ req[file].pc = "unsaved"
BY DEF Faithful, SavesKnown, FileKnown

LEMMA ReplyTextSettled ==
    ASSUME Typed, Typed', Settled, NEW r \in Requests, replyText(r)
    PROVE  Settled'
<1> DEFINE s == heap[req[r].obj]
<1>1. s \in Session
  BY HoldsType
<1>2. Finish(r, s, FALSE) /\ req[r].pc = "model" /\ UNCHANGED stageVars /\ UNCHANGED revised
  BY DEF replyText
<1> HIDE DEF s
<1>3. req[r].pc \in Streaming /\ "hook" \in Working
  BY <1>2 DEF Streaming, Working
<1>4. /\ EndAs(r, "ended") /\ req[r].pc \in Working /\ current' = current
      /\ disturbed => disturbed'
      /\ ~disturbed' => /\ Live' = Outline(s) /\ OnDisk' = Outline(s)
                        /\ InRedis' \in {Outline(Nobody), Outline(s)}
  BY <1>1, <1>2, <1>3, FinishShape
<1>5. UNCHANGED <<entries, active, file, saves, row>>
  BY <1>2 DEF stageVars
<1>6. ASSUME ~disturbed'
      PROVE  /\ s.done <=> s.content \in Requests
             /\ s.stageDone => s.done /\ file' # Earlier
             /\ active' => file' # Earlier
             /\ entries' <= 1 /\ (entries' = 1 /\ active' => s.stageDone)
  BY <1>4, <1>5, <1>6, WhileAtWork DEF s
<1>7. ASSUME ~disturbed', ~revised', Faithful
      PROVE  /\ saves' # {} => s.content \in Requests /\ saves' \subseteq {s.content}
             /\ \/ file' \in {Nobody, Earlier, s.content}
                \/ file' \in Requests /\ req[file'].pc = "unsaved"
             /\ s.stageDone => row' = s.content \/ s.content \in saves'
  <2>1. /\ Live.content = s.content /\ Live.stageDone = s.stageDone
        /\ \A p \in Requests : req[p].pc # "hook"
    BY <1>2, <1>3, <1>4, <1>7, WhileAtWork DEF s
  <2>2. RowKnown
    BY <1>2, <1>4, <1>7, WhileFaithful
  <2>3. s.stageDone => row' = s.content \/ s.content \in saves'
    BY <1>5, <2>1, <2>2 DEF RowKnown
  <2>4. QED
    BY <1>2, <1>4, <1>5, <1>7, <2>1, <2>3, WhileFaithful
<1>8. QED
  BY <1>1, <1>4, <1>6, <1>7, TailSettled

LEMMA ReplyAgainSettled ==
    ASSUME Typed, Typed', Settled, NEW r \in Requests, replyAgain(r)
    PROVE  Settled'
<1> DEFINE old == heap[req[r].obj]
           s == Produced(old, r)
<1>1. old \in Session
  BY HoldsType
<1>2. /\ s \in Session /\ s.done = TRUE /\ s.content = r /\ s.stageDone = old.stageDone
  BY <1>1 DEF Produced, Session, Artefacts
<1>3. /\ Finish(r, s, TRUE) /\ req[r].pc = "model" /\ s.stageDone
      /\ file' = r /\ Produce(r) /\ UNCHANGED <<entries, active>>
  BY DEF replyAgain
<1> HIDE DEF s
<1>4. req[r].pc \in Streaming
  BY <1>3 DEF Streaming
<1>5. /\ EndAs(r, "ended") /\ req[r].pc \in Working /\ current' = current
      /\ disturbed => disturbed'
      /\ ~disturbed' => /\ Live' = Outline(s) /\ OnDisk' = Outline(s)
                        /\ InRedis' \in {Outline(Nobody), Outline(s)}
  BY <1>2, <1>3, <1>4, FinishShape
<1>6. ASSUME ~disturbed'
      PROVE  /\ entries' <= 1
             /\ revised'
    BY <1>2, <1>3, <1>5, <1>6, WhileAtWork DEF Produce
<1>7. r # Earlier
  BY NamesAssumption
<1>8. QED
  BY <1>2, <1>3, <1>5, <1>6, <1>7, TailSettled

LEMMA CommitEndsSettled ==
    ASSUME Typed, Typed', Settled, NEW r \in Requests, commitEnds(r)
    PROVE  Settled'
<1> DEFINE old == heap[req[r].obj]
           s == [old EXCEPT !.stageDone = TRUE]
<1>1. old \in Session
  BY HoldsType
<1>2. s \in Session /\ s.done = old.done /\ s.content = old.content /\ s.stageDone = TRUE
  BY <1>1 DEF Session
<1>3. /\ Finish(r, s, TRUE) /\ req[r].pc = "commit"
      /\ saves' = saves \cup {old.content}
      /\ UNCHANGED <<active, file, row, revised>>
  BY DEF commitEnds
<1>4. entries' = entries + 1
  BY DEF commitEnds
<1> HIDE DEF s, old
<1>5. req[r].pc \in Streaming
  BY <1>3 DEF Streaming
<1>6. /\ EndAs(r, "ended") /\ req[r].pc \in Working /\ current' = current
      /\ disturbed => disturbed'
      /\ ~disturbed' => /\ Live' = Outline(s) /\ OnDisk' = Outline(s)
                        /\ InRedis' \in {Outline(Nobody), Outline(s)}
  BY <1>2, <1>3, <1>5, FinishShape
<1>7. ASSUME ~disturbed'
      PROVE  /\ Live.content = s.content /\ s.content = r /\ s.done = TRUE
             /\ entries = 0 /\ file # Earlier
  <2>1. AtWork /\ NotEarlier /\ Live.content = s.content /\ Live.done = s.done /\ s.done \in BOOLEAN
    BY <1>1, <1>2, <1>6, <1>7, WhileAtWork DEF old, Session
  <2>2. QED
    BY <1>3, <2>1 DEF AtWork, NotEarlier
<1>8. ~disturbed' => entries' <= 1
  BY <1>4, <1>7
<1>9. ASSUME ~disturbed', ~revised', Faithful
      PROVE  /\ saves' # {} => s.content \in Requests /\ saves' \subseteq {s.content}
             /\ \/ file' \in {Nobody, Earlier, s.content}
                \/ file' \in Requests /\ req[file'].pc = "unsaved"
             /\ s.content \in saves'
  BY <1>2, <1>3, <1>6, <1>7, <1>9, WhileFaithful
<1>10. QED
  BY <1>2, <1>3, <1>6, <1>7, <1>8, <1>9, TailSettled

LEMMA HookEndsSettled ==
    ASSUME Typed, Typed', Settled, NEW r \in Requests, hookEnds(r)
    PROVE  Settled'
<1> DEFINE s == heap[req[r].obj]
<1>1. s \in Session
  BY HoldsType
<1>2. /\ Finish(r, s, TRUE) /\ req[r].pc = "hook"
      /\ saves' = saves \cup {s.content}
      /\ UNCHANGED <<active, entries, file, row, revised>>
  BY DEF hookEnds
<1> HIDE DEF s
<1>3. req[r].pc \in Streaming
  BY <1>2 DEF Streaming
<1>4. /\ EndAs(r, "ended") /\ req[r].pc \in Working /\ current' = current
      /\ disturbed => disturbed'
      /\ ~disturbed' => /\ Live' = Outline(s) /\ OnDisk' = Outline(s)
                        /\ InRedis' \in {Outline(Nobody), Outline(s)}
  BY <1>1, <1>2, <1>3, FinishShape
<1>5. ASSUME ~disturbed'
      PROVE  /\ s.done <=> s.content \in Requests
             /\ s.stageDone => s.done /\ file' # Earlier
             /\ active' => file' # Earlier
             /\ entries' <= 1 /\ (entries' = 1 /\ active' => s.stageDone)
  BY <1>2, <1>4, <1>5, WhileAtWork DEF s
<1>6. ASSUME ~disturbed', ~revised', Faithful
      PROVE  /\ saves' # {} => s.content \in Requests /\ saves' \subseteq {s.content}
             /\ \/ file' \in {Nobody, Earlier, s.content}
                \/ file' \in Requests /\ req[file'].pc = "unsaved"
             /\ s.content \in saves'
  <2>1. AtWork /\ Live.content = s.content
    BY <1>4, <1>6, WhileAtWork DEF s
  <2>2. s.content = r
    BY <1>2, <2>1 DEF AtWork
  <2>3. QED
    BY <1>2, <1>4, <1>6, <2>1, <2>2, WhileFaithful
<1>7. QED
  BY <1>1, <1>4, <1>5, <1>6, TailSettled

LEMMA JsonReplySettled ==
    ASSUME Typed, Typed', Settled, NEW r \in Requests, NEW done \in BOOLEAN, jsonReply(r, done)
    PROVE  Settled'
<1> DEFINE old == heap[req[r].obj]
           new == IF done THEN Produced(old, r) ELSE old
           s   == [new EXCEPT !.turns = Append(@, Turn("assistant", r))]
<1>1. old \in Session
  BY HoldsType
<1>2. /\ new \in Session
      /\ done => new.done = TRUE /\ new.content = r
      /\ ~done => new.done = old.done /\ new.content = old.content
      /\ new.stageDone = old.stageDone
  BY <1>1 DEF Produced, Session, Artefacts
<1>3. /\ heap' = [heap EXCEPT ![req[r].obj] = s] /\ disk' = s /\ redis' = redis
      /\ req[r].pc = "executor" /\ EndAs(r, "ended") /\ current' = current
      /\ UNCHANGED <<entries, active, file, saves, row, disturbed>>
      /\ IF done THEN revised' = (revised \/ old.content \in Requests) ELSE revised' = revised
  BY DEF jsonReply, End, Produce
<1> HIDE DEF new
<1>4. /\ s \in Session /\ Outline(s) = Outline(new)
      /\ s.done = new.done /\ s.content = new.content /\ s.stageDone = new.stageDone
  <2>1. Append(new.turns, Turn("assistant", r)) \in Turns
    BY <1>2, SessionType, TurnsType, HoldsType
  <2>2. \A t \in Turns : LET u == [new EXCEPT !.turns = t]
                         IN  /\ u \in Session /\ Outline(u) = Outline(new)
                             /\ u.done = new.done /\ u.content = new.content
                             /\ u.stageDone = new.stageDone
    <3>1. ASSUME NEW t \in Turns
          PROVE  LET u == [new EXCEPT !.turns = t]
                 IN  /\ u.done = new.done /\ u.content = new.content
                     /\ u.stageDone = new.stageDone
      BY <1>2 DEF Session
    <3>2. QED
      BY <1>2, <3>1, SessionType, UpdatedOutline
  <2>3. QED
    BY <2>1, <2>2
<1> HIDE DEF s
<1>5. req[r].pc \in Working /\ "hook" \in Working
  BY <1>3 DEF Working, Json, Streaming
<1>6. ASSUME ~disturbed'
      PROVE  /\ Live' = Outline(s) /\ OnDisk' = Outline(s) /\ InRedis' = InRedis
  <2>1. req[r].obj = current /\ current \in Objects
    BY <1>3, <1>5, <1>6, WhileAtWork
  <2>2. QED
    BY <1>3, <1>4, <2>1, LiveBecomes DEF OnDisk, InRedis
<1>7. ASSUME ~disturbed'
      PROVE  /\ Live.done = old.done /\ Live.content = old.content /\ Live.stageDone = old.stageDone
             /\ s.done <=> s.content \in Requests
             /\ s.stageDone => s.done /\ file' # Earlier
             /\ active' => file' # Earlier
             /\ entries' <= 1 /\ (entries' = 1 /\ active' => s.stageDone)
  <2>1. /\ Live.done = old.done /\ Live.content = old.content /\ Live.stageDone = old.stageDone
        /\ Live.done <=> Live.content \in Requests
        /\ Live.stageDone => Live.done /\ file # Earlier
        /\ active => file # Earlier
        /\ entries \in Nat /\ entries <= 1
        /\ entries = 1 /\ active => Live.stageDone
    BY <1>3, <1>5, <1>7, WhileAtWork
  <2> HIDE DEF old
  <2>2. s.done <=> s.content \in Requests
    BY <1>2, <1>4, <2>1
  <2>3. s.stageDone => s.done /\ file' # Earlier
    BY <1>2, <1>3, <1>4, <2>1
  <2>4. /\ active' => file' # Earlier
        /\ entries' <= 1 /\ (entries' = 1 /\ active' => s.stageDone)
    BY <1>2, <1>3, <1>4, <2>1
  <2>5. QED
    BY <2>1, <2>2, <2>3, <2>4
<1>8. ASSUME ~disturbed', ~revised', Faithful
      PROVE  /\ saves' # {} => s.content \in Requests /\ saves' \subseteq {s.content}
             /\ \/ file' \in {Nobody, Earlier, s.content}
                \/ file' \in Requests /\ req[file'].pc = "unsaved"
             /\ s.stageDone => row' = s.content \/ s.content \in saves'
  <2>1. ~disturbed /\ ~revised
    BY <1>3, <1>8
  <2>2. /\ saves # {} => Live.content \in Requests /\ saves \subseteq {Live.content}
        /\ \/ file \in {Nobody, Earlier, Live.content}
           \/ file \in Requests /\ req[file].pc = "unsaved"
        /\ RowKnown
    BY <1>8, <2>1, WhileFaithful
  <2>3. /\ \A p \in Requests : req[p].pc # "hook"
        /\ Live.done <=> Live.content \in Requests
        /\ Live.stageDone => Live.done
        /\ Live.content \in Artefacts
    BY <1>3, <1>5, <2>1, WhileAtWork, CopiesType DEF Outlines
  <2>4. CASE done
    <3>1. Live.content \in {Nobody, Earlier} /\ Live.stageDone = FALSE
      BY <1>3, <1>7, <1>8, <2>3, <2>4, CopiesType DEF Artefacts, Outlines
    <3>2. saves = {} /\ s.stageDone = FALSE
      BY <1>2, <1>4, <1>7, <1>8, <2>2, <3>1, NamesAssumption
    <3>3. QED
      BY <1>3, <2>2, <3>1, <3>2
  <2>5. CASE ~done
    <3>1. s.content = Live.content /\ s.stageDone = Live.stageDone
      BY <1>2, <1>4, <1>7, <1>8, <2>5
    <3>2. s.stageDone => row' = s.content \/ s.content \in saves'
      BY <1>3, <2>2, <2>3, <3>1 DEF RowKnown
    <3>3. QED
      BY <1>3, <2>2, <3>1, <3>2
  <2>6. QED
    BY <2>4, <2>5
<1>9. QED
  BY <1>3, <1>4, <1>5, <1>6, <1>7, <1>8, TailSettled

\* The artefact could not be written.
LEMMA ReplyUnsavedSettled ==
    ASSUME Typed, Typed', Settled, NEW r \in Requests, replyUnsaved(r)
    PROVE  Settled'
<1> DEFINE old == heap[req[r].obj]
           s == Produced(old, r)
<1>1. old \in Session
  BY HoldsType
<1>2. s \in Session
  BY <1>1 DEF Produced, Session, Artefacts
<1>3. /\ heap' = [heap EXCEPT ![req[r].obj] = s]
      /\ EndAs(r, "unsaved") /\ Produce(r) /\ req[r].pc = "model"
      /\ UNCHANGED <<current, disk, redis, active, entries, file, row, saves, disturbed>>
  BY DEF replyUnsaved, stageVars
<1>4. Outline(s).done = TRUE /\ Outline(s).content = r /\ Outline(s).stageDone = old.stageDone
        /\ Outline(s).held = TRUE
  BY <1>1, UpdatedOutline
<1> HIDE DEF s
<1>5. SUFFICES ASSUME ~disturbed PROVE Settled'
  BY <1>3 DEF Settled, Steady, Faithful
<1>6. req[r].pc \in Working
  BY <1>3 DEF Working, Streaming
<1>7. /\ req[r].obj = current /\ current \in Objects
      /\ \A p \in Requests \ {r} : req[p].pc \notin Working
      /\ Live.held = TRUE /\ Live.content = old.content /\ Live.stageDone = old.stageDone
      /\ Alone /\ Formed /\ AtWork /\ OneEntry /\ NotEarlier /\ Waiting
      /\ Live.done <=> Live.content \in Requests
      /\ Live.stageDone => Live.done
  BY <1>5, <1>6, WhileAtWork
<1>8. Live' = Outline(s) /\ OnDisk' = OnDisk /\ InRedis' = InRedis
  BY <1>2, <1>3, <1>7, LiveBecomes DEF OnDisk, InRedis
<1>9. /\ Live'.done = TRUE /\ Live'.content = r /\ Live'.stageDone = Live.stageDone
      /\ Live'.held = TRUE
  BY <1>4, <1>7, <1>8
<1> HIDE DEF old
<1>10. /\ \A p \in Requests \ {r} : req'[p] = req[p]
       /\ req'[r].pc = "unsaved"
  BY <1>3 DEF EndAs, Typed, TypeOK
<1>11. "unsaved" \notin Working \cup {"restored"}
  BY DEF Working, Streaming, Json, Confirming
<1>12. \A p \in Requests : req'[p].pc \notin Working
  BY <1>7, <1>10, <1>11
<1>13. Alone'
  BY <1>3, <1>7, <1>10, <1>11 DEF Alone
<1>14. Formed'
  BY <1>7, <1>8, <1>9 DEF Formed, Copies
<1>15. AtWork'
  BY <1>12 DEF AtWork, Working, Streaming, Json, Confirming
<1>16. OneEntry'
  BY <1>3, <1>7, <1>8, <1>9 DEF OneEntry, Copies
<1>17. NotEarlier'
  BY <1>3, <1>7, <1>8, <1>9, <1>12 DEF NotEarlier, Copies, Working, Streaming
<1>18. Waiting'
  BY <1>3, <1>7, NamesAssumption DEF Waiting, Objects
<1>19. ASSUME ~revised', Faithful PROVE Faithful'
  <2>1. ~revised /\ Live.content \notin Requests
    BY <1>3, <1>7, <1>19 DEF Produce, old
  <2>2. /\ DiskKnown
        /\ saves # {} => Live.content \in Requests
        /\ \/ file \in {Nobody, Earlier, Live.content}
           \/ file \in Requests /\ req[file].pc = "unsaved"
    BY <1>5, <1>19, <2>1, WhileFaithful
  <2>3. saves = {} /\ Live.stageDone = FALSE
    BY <1>7, <2>1, <2>2, CopiesType DEF Outlines
  <2>4. Live.content \in {Nobody, Earlier}
    BY <2>1, CopiesType DEF Outlines, Artefacts
  <2>5. SavesKnown' /\ ArtefactKnown'
    BY <1>3, <1>9, <1>10, <2>3 DEF SavesKnown, ArtefactKnown
  <2>6. FileKnown'
    BY <1>3, <1>10, <2>2, <2>4 DEF FileKnown
  <2>7. DiskKnown'
    BY <1>8, <2>2, <2>3 DEF DiskKnown
  <2>8. RowKnown'
    BY <1>9, <1>12, <2>3 DEF RowKnown, Working
  <2>9. QED
    BY <2>5, <2>6, <2>7, <2>8 DEF Faithful
<1>20. QED
  BY <1>3, <1>13, <1>14, <1>15, <1>16, <1>17, <1>18, <1>19 DEF Settled, Steady, Faithful

\* The session's first artefact on disk.
LEMMA ReplyFirstSettled ==
    ASSUME Typed, Typed', Settled, NEW r \in Requests, replyFirst(r)
    PROVE  Settled'
<1> DEFINE old == heap[req[r].obj]
           p == Produced(old, r)
           s == IF entries = 0 THEN p ELSE [p EXCEPT !.stageDone = TRUE]
           pc == IF entries = 0 THEN "commit" ELSE "hook"
<1>1. old \in Session
  BY HoldsType
<1>2. /\ p \in Session /\ p.done = TRUE /\ p.content = r /\ p.stageDone = old.stageDone
  BY <1>1 DEF Produced, Session, Artefacts
<1> HIDE DEF p
<1>3. /\ s \in Session
      /\ Outline(s).held = TRUE /\ Outline(s).done = TRUE /\ Outline(s).content = r
      /\ entries = 0 => Outline(s).stageDone = old.stageDone
      /\ entries # 0 => Outline(s).stageDone = TRUE
  BY <1>2, SessionType, UpdatedOutline, OutlineOf
<1>4. /\ heap' = [heap EXCEPT ![req[r].obj] = s]
      /\ req' = [req EXCEPT ![r].pc = pc]
  BY DEF replyFirst, Step, p
<1> HIDE DEF s
<1>5. /\ Produce(r) /\ req[r].pc = "model" /\ ~old.stageDone /\ file' = r
      /\ UNCHANGED <<current, disk, redis, active, entries, row, saves, disturbed>>
  <2>1. Produce(r) /\ req[r].pc = "model" /\ file' = r
    BY DEF replyFirst
  <2>2. ~old.stageDone
    BY <1>1 DEF replyFirst, Produced, Session
  <2>3. UNCHANGED <<current, disk, redis, active, entries, row, saves, disturbed>>
    BY DEF replyFirst
  <2>4. QED
    BY <2>1, <2>2, <2>3
<1>6. SUFFICES ASSUME ~disturbed PROVE Settled'
  BY <1>5 DEF Settled, Steady, Faithful
<1>7. req[r].pc \in Working /\ pc \in Working /\ pc \notin {"restored"} \cup Confirming
  BY <1>5 DEF Working, Streaming, Confirming
<1>8. /\ req[r].obj = current /\ current \in Objects
      /\ \A q \in Requests \ {r} : req[q].pc \notin Working
      /\ Live.held = TRUE /\ Live.content = old.content /\ Live.stageDone = old.stageDone
      /\ Alone /\ Formed /\ AtWork /\ OneEntry /\ NotEarlier /\ Waiting
      /\ Live.done <=> Live.content \in Requests
      /\ entries \in Nat /\ entries <= 1
  BY <1>6, <1>7, WhileAtWork
<1>9. Live' = Outline(s) /\ OnDisk' = OnDisk /\ InRedis' = InRedis
  BY <1>3, <1>4, <1>5, <1>8, LiveBecomes DEF OnDisk, InRedis
<1>10. old.stageDone = FALSE
  BY <1>1, <1>5 DEF Session
<1> HIDE DEF old
<1>11. /\ Live'.done = TRUE /\ Live'.content = r /\ Live'.held = TRUE
       /\ entries = 0 => Live'.stageDone = FALSE
       /\ entries # 0 => Live'.stageDone = TRUE
  BY <1>3, <1>9, <1>10
<1>12. /\ \A q \in Requests \ {r} : req'[q] = req[q]
       /\ req'[r].pc = pc /\ req'[r].obj = req[r].obj
  BY <1>4, HoldsType DEF Request, Typed, TypeOK
<1>13. r # Earlier
  BY NamesAssumption
<1>14. \A q \in Requests \ {r} : req'[q].pc \notin {"commit", "hook"} \cup Confirming
  BY <1>8, <1>12 DEF Working, Streaming
<1>15. Alone'
  BY <1>5, <1>7, <1>8, <1>12 DEF Alone
<1>16. Formed'
  BY <1>8, <1>9, <1>11 DEF Formed, Copies
<1>17. AtWork'
  <2>1. pc = "commit" => entries' = 0
    BY <1>5
  <2>2. pc \notin Confirming /\ pc # "confirm commit"
    BY <1>7
  <2> HIDE DEF pc
  <2>3. QED
    BY <1>11, <1>12, <1>14, <2>1, <2>2 DEF AtWork, Confirming
<1>18. OneEntry'
  <2>1. entries = 1 /\ active => \A c \in {OnDisk, InRedis} : c.held => c.stageDone
    BY <1>8 DEF OneEntry, Copies
  <2>2. entries = 1 => Live'.stageDone = TRUE
    BY <1>11
  <2>3. entries' = entries /\ active' = active /\ entries <= 1
    BY <1>5, <1>8
  <2>4. QED
    BY <1>9, <2>1, <2>2, <2>3 DEF OneEntry, Copies
<1>19. NotEarlier'
  BY <1>5, <1>13 DEF NotEarlier
<1>20. Waiting'
  BY <1>5, <1>8, NamesAssumption DEF Waiting, Objects
<1>21. ASSUME ~revised', Faithful PROVE Faithful'
  <2>1. ~revised /\ Live.content \notin Requests
    BY <1>5, <1>8, <1>21 DEF Produce, old
  <2>2. DiskKnown /\ (saves # {} => Live.content \in Requests)
    BY <1>6, <1>21, <2>1, WhileFaithful
  <2>3. saves = {} /\ OnDisk.stageDone = FALSE
    BY <1>8, <1>10, <2>1, <2>2, CopiesType DEF DiskKnown, Outlines
  <2>4. SavesKnown'
    BY <1>5, <2>3 DEF SavesKnown
  <2>5. ArtefactKnown'
    BY <1>11, <1>12 DEF ArtefactKnown
  <2>6. FileKnown'
    BY <1>5, <1>11 DEF FileKnown
  <2>7. DiskKnown'
    BY <1>9, <2>3 DEF DiskKnown
  <2>8. RowKnown'
    BY <1>7, <1>11, <1>12, <1>14 DEF RowKnown
  <2>9. QED
    BY <2>4, <2>5, <2>6, <2>7, <2>8 DEF Faithful
<1>22. QED
  BY <1>5, <1>15, <1>16, <1>17, <1>18, <1>19, <1>20, <1>21 DEF Settled, Steady, Faithful

LEMMA SettledInit == Init => Settled
<1> SUFFICES ASSUME Init PROVE Settled
  OBVIOUS
<1>1. Typed
  BY TypedInit
<1>2. PICK reopened, step1, moved \in BOOLEAN :
          LET new == Registered(reopened, step1)
          IN  /\ heap = [o \in Objects |-> new]
              /\ current = IF moved THEN Nobody ELSE Boot
              /\ redis = IF moved
                         THEN [new EXCEPT !.turns = <<Turn("assistant", Boot)>>]
                         ELSE Nobody
              /\ crashes = IF moved THEN 1 ELSE 0
              /\ entries = IF reopened THEN 1 ELSE 0
              /\ active = ~reopened
              /\ file = IF reopened /\ ~moved THEN Earlier ELSE Nobody
              /\ row = IF reopened THEN Earlier ELSE Nobody
  BY DEF Init
<1> DEFINE new == Registered(reopened, step1)
<1>3. /\ new.done = FALSE /\ new.stageDone = FALSE /\ new.content \in {Earlier, Nobody}
  BY DEF Registered
<1>4. redis # Nobody => /\ redis.done = FALSE /\ redis.stageDone = FALSE
                        /\ redis.content \in {Earlier, Nobody}
  BY <1>2 DEF Registered
<1>5. heap[Boot] = new /\ Boot # Nobody
  BY <1>2, NamesAssumption DEF Objects
<1> HIDE DEF new
<1>6. \A c \in Copies : c.done = FALSE /\ c.stageDone = FALSE /\ c.content \in {Earlier, Nobody}
  <2>1. Live.done = FALSE /\ Live.stageDone = FALSE /\ Live.content \in {Earlier, Nobody}
    BY <1>1, <1>2, <1>3, <1>5, CopiesType, OutlineOf DEF Live
  <2>2. InRedis.done = FALSE /\ InRedis.stageDone = FALSE /\ InRedis.content \in {Earlier, Nobody}
    BY <1>1, <1>4, CopiesType, OutlineOf DEF InRedis
  <2>3. OnDisk.done = FALSE /\ OnDisk.stageDone = FALSE /\ OnDisk.content \in {Earlier, Nobody}
    BY OutlineOf DEF OnDisk, Init
  <2>4. QED
    BY <2>1, <2>2, <2>3 DEF Copies
<1>7. \A r \in Requests : req[r].pc = "unsent"
  BY DEF Init
<1>8. "unsent" \notin {"restoring", "restored", "commit", "hook"} \cup Working \cup Confirming
  BY DEF Working, Streaming, Json, Confirming
<1>9. /\ active => entries = 0 /\ file # Earlier
      /\ entries \in {0, 1}
      /\ file \in {Nobody, Earlier}
      /\ saves = {}
  BY <1>2, NamesAssumption DEF Init
<1>10. Alone /\ AtWork /\ Waiting
  BY <1>7, <1>8 DEF Alone, AtWork, Waiting
<1>11. Formed
  BY <1>6, NamesAssumption DEF Formed
<1>12. OneEntry
  BY <1>9 DEF OneEntry
<1>13. NotEarlier
  BY <1>6, <1>7, <1>9 DEF NotEarlier
<1>14. SavesKnown /\ FileKnown
  BY <1>9 DEF SavesKnown, FileKnown
<1>15. ArtefactKnown /\ DiskKnown /\ RowKnown
  BY <1>6, <1>7, <1>8, NamesAssumption DEF ArtefactKnown, DiskKnown, RowKnown, Copies
<1>16. QED
  BY <1>10, <1>11, <1>12, <1>13, <1>14, <1>15 DEF Settled, Steady, Faithful

LEMMA SettledStep ==
    ASSUME Typed, Typed', Settled, [Next]_vars
    PROVE  Settled'
<1>1. CASE UNCHANGED vars
  <2>1. /\ UNCHANGED <<current, heap, disk, redis>>
        /\ UNCHANGED <<active, entries, file, row, saves, req, disturbed, revised>>
    BY <1>1 DEF vars
  <2>2. Live' = Live /\ OnDisk' = OnDisk /\ InRedis' = InRedis
    BY <2>1 DEF Live, OnDisk, InRedis
  <2>3. Steady'
    BY <2>1, <2>2 DEF Settled, Steady, Alone, Formed, Copies, AtWork, OneEntry, NotEarlier,
       Waiting
  <2>4. Faithful'
    BY <2>1, <2>2 DEF Settled, Faithful, SavesKnown, ArtefactKnown, FileKnown, DiskKnown,
       RowKnown
  <2>5. QED
    BY <2>3, <2>4 DEF Settled
<1>2. ASSUME NEW r \in Requests, missing(r) \/ restoreGone(r)
      PROVE  Settled'
  BY <1>2, QuietSettled
<1>3. ASSUME NEW r \in Requests, restore(r)
      PROVE  Settled'
  BY <1>3, RestoreSettled
<1>4. ASSUME NEW r \in Requests, NEW o \in Objects, Stream(r, o) \/ jsonBusy(r, o) \/ jsonArrive(r, o)
      PROVE  Settled'
  <2>1. NoAttempt \in AttemptIds /\ AttemptIds = Attempts \cup {NoAttempt}
    BY DEF AttemptIds
  <2>2. CASE Stream(r, o)
    <3>1. PICK a \in AttemptIds :
             \/ resumed(r, o, a)
             \/ refused(r, o, a)
             \/ initOnDone(r, o, a)
             \/ initPrecomputed(r, o, a)
             \/ \E init \in BOOLEAN : streamTurn(r, o, a, init)
      BY <2>1, <2>2 DEF Stream
    <3>2. CASE resumed(r, o, a) \/ refused(r, o, a)
      BY <3>2, QuietSettled
    <3>3. CASE ~(resumed(r, o, a) \/ refused(r, o, a))
      BY <3>1, <3>3, BeginSettled
    <3>4. QED
      BY <3>2, <3>3
  <2>3. CASE jsonBusy(r, o)
    BY <2>3, QuietSettled
  <2>4. CASE jsonArrive(r, o)
    BY <2>1, <2>4, BeginSettled
  <2>5. QED
    BY <1>4, <2>2, <2>3, <2>4
<1>5. ASSUME NEW r \in Requests, Model(r)
      PROVE  Settled'
  <2>1. CASE modelError(r) \/ modelEmpty(r)
    BY <2>1, FailureSettled
  <2>2. CASE commitFails(r)
    BY <2>2, QuietSettled
  <2>3. QED
    BY <1>5, <2>1, <2>2, ReplyTextSettled, ReplyUnsavedSettled, ReplyFirstSettled,
       ReplyAgainSettled, CommitEndsSettled, HookEndsSettled DEF Model
<1>6. ASSUME NEW r \in Requests, JsonTurn(r)
      PROVE  Settled'
  <2>1. CASE jsonInitOnDone(r)
    BY <2>1, QuietSettled
  <2>2. QED
    BY <1>6, <2>1, BodySettled, JsonReplySettled DEF JsonTurn
<1>7. ASSUME NEW r \in Requests, Confirm(r)
      PROVE  Settled'
  <2>1. CASE confirmFails(r)
    BY <2>1, QuietSettled
  <2>2. QED
    BY <1>7, <2>1, ConfirmSettled, ConfirmSavedSettled, ConfirmCompletesSettled DEF Confirm
<1>8. ASSUME NEW c \in Artefacts, saveSettles(c)
      PROVE  Settled'
  BY <1>8, SaveSettled
<1>9. ASSUME NEW o \in Objects, expire(o)
      PROVE  Settled'
  BY <1>9, ExpireSettled
<1>10. ASSUME NEW wiped \in BOOLEAN, restart(wiped)
       PROVE  Settled'
  BY <1>10, RestartSettled
<1>11. QED
  BY <1>1, <1>2, <1>3, <1>4, <1>5, <1>6, <1>7, <1>8, <1>9, <1>10 DEF Next

LEMMA SettledInvariant == Spec => [](Typed /\ Settled)
<1>1. Init => Typed /\ Settled
  BY TypedInit, SettledInit
<1>2. Typed /\ Settled /\ [Next]_vars => (Typed /\ Settled)'
  BY TypedStep, SettledStep
<1>3. QED
  BY <1>1, <1>2, PTL DEF Spec

(***************************************************************************)
(* With nothing under way, the row of a complete stage is its file, unless *)
(* the file is the one of a turn that could not save its artefact          *)
(* (skills.js:5571-5814, journey.js:2606-2647).                            *)
(***************************************************************************)
THEOREM RowIsTheFile == Spec => []RowMatchesFile
<1>1. Typed /\ Settled => RowMatchesFile
  <2> SUFFICES ASSUME Typed, Settled, ~disturbed, ~revised, current # Nobody,
                      heap[current].stageDone, saves = {}, Workers(current) = {},
                      file \notin {row, Nobody}
               PROVE  file \in Requests /\ req[file].pc = "unsaved"
    BY DEF RowMatchesFile
  <2>1. SavesKnown /\ ArtefactKnown /\ FileKnown /\ DiskKnown /\ RowKnown
    BY DEF Settled, Faithful
  <2>2. Live.stageDone = TRUE
    BY CopiesType DEF Outlines
  <2>3. \A r \in Requests : req[r].pc # "hook"
    BY DEF Settled, Steady, Alone, Workers, Working, Streaming
  <2>4. row = Live.content
    BY <2>1, <2>2, <2>3 DEF RowKnown
  <2>5. file # Earlier
    BY <2>2 DEF Settled, Steady, NotEarlier, Copies
  <2>6. QED
    BY <2>1, <2>4, <2>5 DEF FileKnown
<1>2. QED
  BY <1>1, SettledInvariant, PTL

-------------------------------------------------------------------------------
(***************************************************************************)
(* The history.  A user turn is answered by the next turn, unless its      *)
(* request is one of those, U, that ended with their artefact unsaved.     *)
(***************************************************************************)
Answers(t, u, U) == u = Turn("assistant", t.by) \/ t.by \in U

Alternates(s, U) == \A i \in 1 .. Len(s) - 1 : s[i].role = "user" => Answers(s[i], s[i + 1], U)

\* Nothing at the end waits for an answer.
Answered(s, U) == s = <<>> \/ Last(s).role = "assistant" \/ Last(s).by \in U

LEMMA AppendedTurn ==
    ASSUME NEW s \in Turns, NEW o \in Objects, NEW role \in {"user", "assistant"}
    PROVE  /\ Append(s, Turn(role, o)) \in Turns
           /\ Len(Append(s, Turn(role, o))) = Len(s) + 1
           /\ Len(s) \in Nat
           /\ \A i \in 1 .. Len(s) : Append(s, Turn(role, o))[i] = s[i]
           /\ Append(s, Turn(role, o))[Len(s) + 1] = Turn(role, o)
           /\ Last(Append(s, Turn(role, o))) = Turn(role, o)
           /\ Append(s, Turn(role, o)) # <<>>
<1> DEFINE Entry == [role : {"user", "assistant"}, by : Objects]
           e == Turn(role, o)
<1>1. s \in Seq(Entry) /\ e \in Entry
  BY DEF Turns, Turn
<1> HIDE DEF Entry, e
<1>2. /\ Append(s, e) \in Seq(Entry)
      /\ Len(Append(s, e)) = Len(s) + 1
      /\ Len(s) \in Nat
      /\ \A i \in 1 .. Len(s) : Append(s, e)[i] = s[i]
      /\ Append(s, e)[Len(s) + 1] = e
  BY <1>1, AppendProperties
<1>3. Last(Append(s, e)) = e
  BY <1>2 DEF Last
<1>4. Append(s, e) # <<>>
  BY <1>2, EmptySeq
<1>5. QED
  BY <1>2, <1>3, <1>4 DEF e, Entry, Turns

\* A new user turn, after one that has been answered.
LEMMA UserTurn ==
    ASSUME NEW s \in Turns, NEW U, Alternates(s, U), Answered(s, U), NEW r \in Requests
    PROVE  /\ Alternates(Append(s, Turn("user", r)), U)
           /\ Last(Append(s, Turn("user", r))) = Turn("user", r)
<1> DEFINE t == Append(s, Turn("user", r))
<1>1. r \in Objects
  BY DEF Objects
<1>2. /\ Len(t) = Len(s) + 1
      /\ Len(s) \in Nat
      /\ \A i \in 1 .. Len(s) : t[i] = s[i]
      /\ Last(t) = Turn("user", r)
  BY <1>1, AppendedTurn
<1> HIDE DEF t
<1>3. ASSUME NEW i \in 1 .. Len(t) - 1, t[i].role = "user"
      PROVE  Answers(t[i], t[i + 1], U)
  <2>1. i \in 1 .. Len(s) /\ t[i] = s[i]
    BY <1>2
  <2>2. CASE i = Len(s)
    <3>1. s # <<>> /\ t[i] = Last(s)
      BY <1>2, <2>1, <2>2, EmptySeq DEF Last
    <3>2. QED
      BY <1>3, <3>1 DEF Answered, Answers
  <2>3. CASE i # Len(s)
    <3>1. i \in 1 .. Len(s) - 1 /\ i + 1 \in 1 .. Len(s)
      BY <1>2, <2>1, <2>3
    <3>2. QED
      BY <1>2, <1>3, <2>1, <3>1 DEF Alternates
  <2>4. QED
    BY <2>2, <2>3
<1>4. QED
  BY <1>2, <1>3 DEF Alternates, t

\* The answer to it, or the assistant's opening.
LEMMA AssistantTurn ==
    ASSUME NEW s \in Turns, NEW U, Alternates(s, U), NEW r \in Requests,
           s = <<>> \/ Last(s) = Turn("user", r)
    PROVE  /\ Alternates(Append(s, Turn("assistant", r)), U)
           /\ Answered(Append(s, Turn("assistant", r)), U)
<1> DEFINE t == Append(s, Turn("assistant", r))
<1>1. r \in Objects
  BY DEF Objects
<1>2. /\ Len(t) = Len(s) + 1
      /\ Len(s) \in Nat
      /\ \A i \in 1 .. Len(s) : t[i] = s[i]
      /\ t[Len(s) + 1] = Turn("assistant", r)
      /\ Last(t) = Turn("assistant", r)
  BY <1>1, AppendedTurn
<1> HIDE DEF t
<1>3. ASSUME NEW i \in 1 .. Len(t) - 1, t[i].role = "user"
      PROVE  Answers(t[i], t[i + 1], U)
  <2>1. i \in 1 .. Len(s) /\ t[i] = s[i]
    BY <1>2
  <2>2. CASE i = Len(s)
    <3>1. s # <<>> /\ t[i] = Last(s)
      BY <1>2, <2>1, <2>2, EmptySeq DEF Last
    <3>2. t[i].by = r
      BY <3>1 DEF Turn
    <3>3. QED
      BY <1>2, <2>2, <3>2 DEF Answers
  <2>3. CASE i # Len(s)
    <3>1. i \in 1 .. Len(s) - 1 /\ i + 1 \in 1 .. Len(s)
      BY <1>2, <2>1, <2>3
    <3>2. QED
      BY <1>2, <1>3, <2>1, <3>1 DEF Alternates
  <2>4. QED
    BY <2>2, <2>3
<1>4. Last(t).role = "assistant"
  BY <1>2 DEF Turn
<1>5. QED
  BY <1>3, <1>4 DEF Alternates, Answered, t

\* A user turn taken back.
LEMMA TakenBack ==
    ASSUME NEW s \in Turns, NEW U, Alternates(s, U), s # <<>>, Last(s).role = "user"
    PROVE  Alternates(Front(s), U) /\ Answered(Front(s), U)
<1> DEFINE t == Front(s)
           Entry == [role : {"user", "assistant"}, by : Objects]
<1>1. s \in Seq(Entry) /\ \A e \in Entry : e.role \in {"user", "assistant"}
  BY DEF Turns
<1> HIDE DEF Entry
<1>8. \A i \in 1 .. Len(s) : s[i] \in Entry
  BY <1>1
<1>2. Len(s) \in Nat \ {0}
  BY <1>1, EmptySeq
<1>3. /\ Len(t) = Len(s) - 1
      /\ \A i \in 1 .. Len(s) - 1 : t[i] = s[i]
  <2> DEFINE n == Len(s) - 1
  <2>1. n \in Nat /\ \A i \in 1 .. n : s[i] \in Entry
    BY <1>2, <1>8
  <2> HIDE DEF n
  <2>2. /\ Len(SubSeq(s, 1, n)) = IF 1 <= n THEN n - 1 + 1 ELSE 0
        /\ \A i \in 1 .. n - 1 + 1 : SubSeq(s, 1, n)[i] = s[1 + i - 1]
    BY <2>1, SubSeqProperties
  <2>3. /\ Len(SubSeq(s, 1, n)) = n
        /\ \A i \in 1 .. n : SubSeq(s, 1, n)[i] = s[i]
    BY <2>1, <2>2
  <2>4. QED
    BY <2>3 DEF Front, n
<1>4. t \in Turns
  BY TurnsType
<1> HIDE DEF t
<1>5. Alternates(t, U)
  <2>1. \A i \in 1 .. Len(t) - 1 : i \in 1 .. Len(s) - 1 /\ t[i] = s[i] /\ t[i + 1] = s[i + 1]
    BY <1>2, <1>3
  <2>2. QED
    BY <2>1 DEF Alternates
<1>6. ASSUME t # <<>> PROVE Last(t).role = "assistant" \/ Last(t).by \in U
  <2>1. Len(t) \in 1 .. Len(s) - 1
    BY <1>2, <1>3, <1>4, <1>6, EmptySeq DEF Turns
  <2>2. Last(t) = s[Len(t)] /\ Last(s) = s[Len(t) + 1]
    BY <1>2, <1>3, <2>1 DEF Last
  <2>3. s[Len(t)].role \in {"user", "assistant"}
    <3>1. Len(t) \in 1 .. Len(s)
      BY <1>2, <2>1
    <3>2. s[Len(t)] \in Entry
      BY <1>8, <3>1
    <3>3. QED
      BY <1>1, <3>2
  <2>4. Last(s) # Turn("assistant", s[Len(t)].by)
    BY DEF Turn
  <2>5. QED
    BY <2>1, <2>2, <2>3, <2>4 DEF Alternates, Answers
<1>7. QED
  BY <1>5, <1>6 DEF Answered, t

\* More requests have ended with their artefact unsaved.
LEMMA StillAlternates ==
    ASSUME NEW U, NEW V, U \subseteq V, NEW s
    PROVE  /\ Alternates(s, U) => Alternates(s, V)
           /\ Answered(s, U) => Answered(s, V)
BY DEF Alternates, Answers, Answered

(***************************************************************************)
(* The history of the three copies.                                        *)
(***************************************************************************)
LiveTurns == IF current = Nobody THEN <<>> ELSE heap[current].turns
LiveStep1 == IF current = Nobody THEN FALSE ELSE heap[current].step1
DiskTurns == IF disk = Nobody THEN <<>> ELSE disk.turns
RedisTurns == IF redis = Nobody THEN <<>> ELSE redis.turns

Unsaved == {r \in Requests : req[r].pc = "unsaved"}

\* The request has asked, and its answer is not in the history yet.
Answering == {"model", "commit", "hook", "executor"}

InOrder ==
    /\ Alternates(LiveTurns, Unsaved)
    /\ Alternates(DiskTurns, Unsaved)
    /\ Alternates(RedisTurns, Unsaved)

CopiesAnswered == Answered(DiskTurns, Unsaved) /\ Answered(RedisTurns, Unsaved)

\* The user turn of a request that is to be answered is the last one; an
\* opening without one has no precomputed summary to be overtaken by.
Expecting ==
    \A r \in Requests : req[r].pc \in Answering =>
        \/ LiveTurns # <<>> /\ Last(LiveTurns) = Turn("user", r)
        \/ LiveTurns = <<>> /\ ~LiveStep1

Resting == (\A r \in Requests : req[r].pc \notin Answering) => Answered(LiveTurns, Unsaved)

Told == ~disturbed => InOrder /\ CopiesAnswered /\ Expecting /\ Resting

LEMMA TurnsTypes ==
    ASSUME Typed
    PROVE  /\ LiveTurns \in Turns /\ DiskTurns \in Turns /\ RedisTurns \in Turns
           /\ Answering \subseteq Working
           /\ current # Nobody => LiveTurns = heap[current].turns /\ LiveStep1 = heap[current].step1
<1>1. /\ current # Nobody => heap[current] \in Session
      /\ disk # Nobody => disk \in Session
      /\ redis # Nobody => redis \in Session
  BY DEF Typed, TypeOK
<1>2. <<>> \in Turns /\ \A s \in Session : s.turns \in Turns
  BY EmptySeq DEF Session, Turns
<1>3. Answering \subseteq Working
  BY DEF Answering, Working, Streaming, Json
<1>4. QED
  BY <1>1, <1>2, <1>3 DEF LiveTurns, DiskTurns, RedisTurns, LiveStep1

\* The history stays; a request may end with its artefact unsaved.
LEMMA TurnsKept ==
    ASSUME Told, LiveTurns' = LiveTurns, DiskTurns' = DiskTurns, RedisTurns' = RedisTurns,
           LiveStep1' = LiveStep1, disturbed => disturbed', Unsaved \subseteq Unsaved',
           \A p \in Requests : req'[p].pc \in Answering => req[p].pc \in Answering,
           \A p \in Requests :
              req[p].pc \in Answering => req'[p].pc \in Answering \/ p \in Unsaved'
    PROVE  Told'
<1>1. SUFFICES ASSUME ~disturbed' PROVE Told'
  BY DEF Told
<1>2. InOrder /\ CopiesAnswered /\ Expecting /\ Resting
  BY <1>1 DEF Told
<1>3. InOrder' /\ CopiesAnswered'
  BY <1>2, StillAlternates DEF InOrder, CopiesAnswered
<1>4. Expecting'
  <2>1. ASSUME NEW r \in Requests, req'[r].pc \in Answering
        PROVE  \/ LiveTurns # <<>> /\ Last(LiveTurns) = Turn("user", r)
               \/ LiveTurns = <<>> /\ ~LiveStep1
    BY <1>2, <2>1 DEF Expecting
  <2>2. Answering' = Answering
    BY DEF Answering
  <2>3. QED
    BY <2>1, <2>2 DEF Expecting
<1>5. ASSUME \A r \in Requests : req'[r].pc \notin Answering
      PROVE  Answered(LiveTurns, Unsaved')
  <2>1. CASE \A r \in Requests : req[r].pc \notin Answering
    BY <1>2, <2>1, StillAlternates DEF Resting
  <2>2. ASSUME NEW r \in Requests, req[r].pc \in Answering
        PROVE  Answered(LiveTurns, Unsaved')
    <3>1. r \in Unsaved' /\ Turn("user", r).by = r
      BY <1>5, <2>2 DEF Turn
    <3>2. LiveTurns = <<>> \/ Last(LiveTurns) = Turn("user", r)
      BY <1>2, <2>2 DEF Expecting
    <3>3. QED
      BY <3>1, <3>2 DEF Answered
  <2>3. QED
    BY <2>1, <2>2
<1>6. Resting'
  BY <1>5 DEF Resting, Answering
<1>7. QED
  BY <1>3, <1>4, <1>6 DEF Told

\* A request that answers nothing moves on, or one that answers does not.
LEMMA MoveKept ==
    ASSUME Typed, Told, NEW r \in Requests, NEW q \in Request, req' = [req EXCEPT ![r] = q],
           LiveTurns' = LiveTurns, DiskTurns' = DiskTurns, RedisTurns' = RedisTurns,
           LiveStep1' = LiveStep1, disturbed => disturbed',
           req[r].pc # "unsaved",
           q.pc \in Answering => req[r].pc \in Answering,
           req[r].pc \in Answering => q.pc \in Answering \cup {"unsaved"}
    PROVE  Told'
<1>1. /\ req'[r] = q
      /\ \A p \in Requests \ {r} : req'[p] = req[p]
  BY DEF Typed, TypeOK
<1>2. Unsaved \subseteq Unsaved' /\ (q.pc = "unsaved" => r \in Unsaved')
  BY <1>1 DEF Unsaved
<1>3. QED
  BY <1>1, <1>2, TurnsKept

LEMMA EndKept ==
    ASSUME Typed, Told, NEW r \in Requests, NEW pc \in {"ended", "unsaved"}, EndAs(r, pc),
           LiveTurns' = LiveTurns, DiskTurns' = DiskTurns, RedisTurns' = RedisTurns,
           LiveStep1' = LiveStep1, disturbed => disturbed',
           req[r].pc # "unsaved",
           req[r].pc \in Answering => pc = "unsaved"
    PROVE  Told'
<1> DEFINE q == [req[r] EXCEPT !.pc = pc, !.obj = Boot, !.art = Nobody]
<1>1. req[r] \in Request
  BY HoldsType
<1>2. q \in Request /\ q.pc = pc
  BY <1>1, RequestType DEF Request
<1>3. req' = [req EXCEPT ![r] = q]
  BY DEF EndAs
<1>4. pc \notin Answering
  BY DEF Answering
<1> HIDE DEF q
<1>5. QED
  BY <1>2, <1>3, <1>4, MoveKept

\* A turn is asked: with no overlap, no other waits for its answer.
LEMMA AskTold ==
    ASSUME Typed, Typed', Settled, Told, NEW r \in Requests, NEW q \in Request,
           req' = [req EXCEPT ![r] = q], q.pc \in Answering,
           req[r].pc \notin Answering \cup {"unsaved"},
           DiskTurns' = DiskTurns, RedisTurns' = RedisTurns, disturbed => disturbed',
           ~disturbed' =>
              /\ \A p \in Requests \ {r} : req[p].pc \notin Working
              /\ \/ LiveTurns' = Append(LiveTurns, Turn("user", r))
                 \/ LiveTurns = <<>> /\ LiveTurns' = <<>> /\ ~LiveStep1'
    PROVE  Told'
<1>1. SUFFICES ASSUME ~disturbed' PROVE Told'
  BY DEF Told
<1>2. InOrder /\ CopiesAnswered /\ Expecting /\ Resting
  BY <1>1 DEF Told
<1>3. /\ req'[r] = q
      /\ \A p \in Requests \ {r} : req'[p] = req[p]
  BY DEF Typed, TypeOK
<1>4. Unsaved' = Unsaved
  BY <1>3 DEF Unsaved, Answering
<1>5. \A p \in Requests : req[p].pc \notin Answering
  BY <1>1, TurnsTypes
<1>6. Answered(LiveTurns, Unsaved) /\ LiveTurns \in Turns
  BY <1>2, <1>5, TurnsTypes DEF Resting
<1>7. Alternates(LiveTurns', Unsaved)
  BY <1>1, <1>2, <1>6, UserTurn DEF InOrder
<1>8. \/ LiveTurns' # <<>> /\ Last(LiveTurns') = Turn("user", r)
      \/ LiveTurns' = <<>> /\ ~LiveStep1'
  <2>1. r \in Objects /\ "user" \in {"user", "assistant"}
    BY DEF Objects
  <2>2. /\ Last(Append(LiveTurns, Turn("user", r))) = Turn("user", r)
        /\ Append(LiveTurns, Turn("user", r)) # <<>>
    BY <1>6, <2>1, AppendedTurn
  <2>3. QED
    BY <1>1, <2>2
<1>9. InOrder' /\ CopiesAnswered'
  BY <1>2, <1>4, <1>7 DEF InOrder, CopiesAnswered
<1>10. Expecting'
  <2>1. \A p \in Requests \ {r} : req'[p].pc \notin Answering
    BY <1>3, <1>5
  <2>2. QED
    BY <1>8, <2>1 DEF Expecting, Answering
<1>11. Resting'
  BY <1>3 DEF Resting, Answering
<1>12. QED
  BY <1>9, <1>10, <1>11 DEF Told

\* A turn is answered.
LEMMA AnswerTold ==
    ASSUME Typed, Typed', Settled, Told, NEW r \in Requests, EndAs(r, "ended"),
           req[r].pc \in Answering, disturbed => disturbed',
           ~disturbed' =>
              /\ LiveTurns' = Append(LiveTurns, Turn("assistant", r))
              /\ DiskTurns' = LiveTurns'
              /\ RedisTurns' \in {<<>>, RedisTurns, LiveTurns'}
    PROVE  Told'
<1>1. SUFFICES ASSUME ~disturbed' PROVE Told'
  BY DEF Told
<1>2. InOrder /\ CopiesAnswered /\ Expecting /\ Resting
  BY <1>1 DEF Told
<1>3. req[r].pc \in Working
  BY TurnsTypes
<1>4. /\ \A p \in Requests \ {r} : req'[p] = req[p] /\ req[p].pc \notin Working
      /\ req'[r].pc = "ended"
  BY <1>1, <1>3 DEF EndAs, Typed, TypeOK, Settled, Steady, Alone
<1>5. Unsaved' = Unsaved
  BY <1>4 DEF Unsaved, Answering
<1>6. LiveTurns \in Turns /\ (LiveTurns = <<>> \/ Last(LiveTurns) = Turn("user", r))
  BY <1>2, TurnsTypes DEF Expecting
<1>7. Alternates(LiveTurns', Unsaved) /\ Answered(LiveTurns', Unsaved)
  BY <1>1, <1>2, <1>6, AssistantTurn DEF InOrder
<1>8. Alternates(<<>>, Unsaved) /\ Answered(<<>>, Unsaved)
  <2>1. Len(<<>>) = 0
    BY EmptySeq
  <2>2. QED
    BY <2>1 DEF Alternates, Answered
<1>9. InOrder' /\ CopiesAnswered'
  BY <1>1, <1>2, <1>5, <1>7, <1>8 DEF InOrder, CopiesAnswered
<1>10. \A p \in Requests : req'[p].pc \notin Answering
  BY <1>4, TurnsTypes DEF Answering
<1>11. Expecting' /\ Resting'
  BY <1>5, <1>7, <1>10 DEF Expecting, Resting, Answering
<1>12. QED
  BY <1>9, <1>11 DEF Told

LEMMA LiveTurnsBecome ==
    ASSUME Typed, current' = current, NEW o \in Objects, NEW s \in Session,
           heap' = [heap EXCEPT ![o] = s]
    PROVE  /\ s.turns = heap[o].turns /\ s.step1 = heap[o].step1 =>
                 LiveTurns' = LiveTurns /\ LiveStep1' = LiveStep1
           /\ current = o => LiveTurns' = s.turns /\ LiveStep1' = s.step1
<1>1. o # Nobody
  BY NamesAssumption DEF Objects
<1>2. heap \in [Objects -> Session] /\ current \in Objects \cup {Nobody}
  BY DEF Typed, TypeOK
<1>3. QED
  BY <1>1, <1>2 DEF LiveTurns, LiveStep1

\* What the steps leave of a session's history.
LEMMA UpdatedTurns ==
    ASSUME NEW s \in Session
    PROVE  /\ \A t \in Turns : /\ [s EXCEPT !.turns = t].turns = t
                               /\ [s EXCEPT !.turns = t].step1 = s.step1
           /\ \A l \in Remembering : /\ [s EXCEPT !.last = l].turns = s.turns
                                     /\ [s EXCEPT !.last = l].step1 = s.step1
           /\ \A a \in AttemptIds : /\ Guard(s, a).turns = s.turns
                                    /\ Guard(s, a).step1 = s.step1
           /\ \A r \in Requests : /\ Produced(s, r).turns = s.turns
                                  /\ Produced(s, r).step1 = s.step1
           /\ [s EXCEPT !.stageDone = TRUE].turns = s.turns
           /\ [s EXCEPT !.stageDone = TRUE].step1 = s.step1
<1>1. \A t \in Turns : /\ [s EXCEPT !.turns = t].turns = t
                       /\ [s EXCEPT !.turns = t].step1 = s.step1
  BY DEF Session
<1>2. \A l \in Remembering : /\ [s EXCEPT !.last = l].turns = s.turns
                             /\ [s EXCEPT !.last = l].step1 = s.step1
  BY DEF Session
<1>3. \A a \in AttemptIds : /\ Guard(s, a).turns = s.turns
                            /\ Guard(s, a).step1 = s.step1
  BY DEF Guard, Session
<1>4. \A r \in Requests : /\ Produced(s, r).turns = s.turns
                          /\ Produced(s, r).step1 = s.step1
  BY DEF Produced, Session
<1>5. /\ [s EXCEPT !.stageDone = TRUE].turns = s.turns
      /\ [s EXCEPT !.stageDone = TRUE].step1 = s.step1
  BY DEF Session
<1>6. QED
  BY <1>1, <1>2, <1>3, <1>4, <1>5

\* Steps that ask and answer nothing.
LEMMA QuietTold ==
    ASSUME Typed, Told, NEW r \in Requests,
           \/ missing(r) \/ restoreGone(r) \/ commitFails(r) \/ confirmFails(r)
           \/ jsonInitOnDone(r) \/ confirmSaved(r) \/ confirm(r)
           \/ \E o \in Objects :
                 \/ jsonBusy(r, o) \/ jsonArrive(r, o)
                 \/ \E a \in AttemptIds : resumed(r, o, a) \/ refused(r, o, a)
    PROVE  Told'
<1>1. /\ UNCHANGED <<current, heap, disk, redis>>
      /\ disturbed => disturbed'
  <2>1. UNCHANGED sessionVars
    BY DEF missing, restoreGone, commitFails, confirmFails, jsonInitOnDone, jsonBusy,
       resumed, refused, confirmSaved, confirm, jsonArrive
  <2>2. disturbed => disturbed'
    BY DEF missing, restoreGone, commitFails, confirmFails, jsonInitOnDone, jsonBusy,
       resumed, refused, confirmSaved, confirm, jsonArrive, Enter, ghostVars
  <2>3. QED
    BY <2>1, <2>2 DEF sessionVars
<1>2. /\ LiveTurns' = LiveTurns /\ DiskTurns' = DiskTurns /\ RedisTurns' = RedisTurns
      /\ LiveStep1' = LiveStep1
  BY <1>1 DEF LiveTurns, DiskTurns, RedisTurns, LiveStep1
<1>3. /\ req[r].pc # "unsaved"
      /\ ~commitFails(r) => req[r].pc \notin Answering
  BY DEF missing, restoreGone, commitFails, confirmFails, jsonInitOnDone, jsonBusy,
     resumed, refused, confirmSaved, confirm, jsonArrive, Holds, Arrives, Answering
<1>4. CASE End(r) \/ EndAs(r, "unsaved")
  <2>1. CASE EndAs(r, "unsaved")
    BY <1>1, <1>2, <1>3, <2>1, EndKept
  <2>2. CASE End(r) /\ req[r].pc \notin Answering
    BY <1>1, <1>2, <1>3, <2>2, EndKept DEF End
  <2>3. CASE commitFails(r)
    BY <1>1, <1>2, <1>3, <2>3, EndKept DEF commitFails
  <2>4. QED
    BY <1>3, <1>4, <2>1, <2>2, <2>3
<1>5. ASSUME ~(End(r) \/ EndAs(r, "unsaved"))
      PROVE  \E q \in Request : req' = [req EXCEPT ![r] = q] /\ q.pc \notin Answering
  <2>1. req[r] \in Request
    BY HoldsType
  <2>2. CASE missing(r)
    <3>1. req' = [req EXCEPT ![r].pc = "restoring"]
      BY <1>5, <2>2 DEF missing
    <3>2. [req[r] EXCEPT !.pc = "restoring"] \in Request /\ [req[r] EXCEPT !.pc = "restoring"].pc = "restoring"
      BY <2>1, RequestType DEF Request
    <3>3. QED
      BY <3>1, <3>2 DEF Answering
  <2>3. CASE confirmSaved(r)
    <3>1. req' = [req EXCEPT ![r].pc = "confirm commit"]
      BY <1>5, <2>3 DEF confirmSaved
    <3>2. /\ [req[r] EXCEPT !.pc = "confirm commit"] \in Request
          /\ [req[r] EXCEPT !.pc = "confirm commit"].pc = "confirm commit"
      BY <2>1, RequestType DEF Request, Working, Confirming
    <3>3. QED
      BY <3>1, <3>2 DEF Answering
  <2>4. CASE confirm(r)
    <3> DEFINE q == [req[r] EXCEPT !.pc = "confirm save", !.obj = current,
                                   !.art = heap[current].content]
    <3>1. current \in Objects /\ heap[current].content \in Artefacts
      BY <2>4 DEF confirm, Typed, TypeOK, Session
    <3>2. q \in Request /\ q.pc = "confirm save"
      BY <2>1, <3>1, RequestType DEF Request, Working, Confirming
    <3>3. req' = [req EXCEPT ![r] = q]
      BY <2>4 DEF confirm
    <3> HIDE DEF q
    <3>4. QED
      BY <3>2, <3>3 DEF Answering
  <2>5. ASSUME NEW o \in Objects, jsonArrive(r, o)
        PROVE  \E q \in Request : req' = [req EXCEPT ![r] = q] /\ q.pc \notin Answering
    <3>1. req' = [req EXCEPT ![r].pc = "body", ![r].obj = o]
      BY <2>5 DEF jsonArrive
    <3>2. /\ [req[r] EXCEPT !.pc = "body", !.obj = o] \in Request
          /\ [req[r] EXCEPT !.pc = "body", !.obj = o].pc = "body"
      BY <2>1, RequestType DEF Request, Working, Json
    <3>3. QED
      BY <3>1, <3>2 DEF Answering
  <2>6. QED
    BY <1>5, <2>2, <2>3, <2>4, <2>5 DEF restoreGone, commitFails, confirmFails,
       jsonInitOnDone, jsonBusy, resumed, refused
<1>6. CASE ~(End(r) \/ EndAs(r, "unsaved"))
  <2>1. PICK q \in Request : req' = [req EXCEPT ![r] = q] /\ q.pc \notin Answering
    BY <1>5, <1>6
  <2>2. ~commitFails(r)
    BY <1>6 DEF commitFails
  <2>3. QED
    BY <1>1, <1>2, <1>3, <2>1, <2>2, MoveKept
<1>7. QED
  BY <1>4, <1>6

LEMMA InitOnDoneTold ==
    ASSUME Typed, Told, NEW r \in Requests, NEW o \in Objects, NEW a \in AttemptIds,
           initOnDone(r, o, a)
    PROVE  Told'
<1> DEFINE s == Guard(heap[o], a)
<1>1. heap[o] \in Session
  BY DEF Typed, TypeOK
<1>2. s \in Session /\ s.turns = heap[o].turns /\ s.step1 = heap[o].step1
  BY <1>1, SessionType, UpdatedTurns
<1>3. /\ heap' = [heap EXCEPT ![o] = s] /\ current' = current /\ disturbed' = disturbed
      /\ disk' = disk /\ redis' = redis
      /\ EndAs(r, "ended") /\ req[r].pc \in {"unsent", "restored"}
  BY DEF initOnDone, End, Accepted, Holds, Arrives
<1> HIDE DEF s
<1>4. LiveTurns' = LiveTurns /\ LiveStep1' = LiveStep1
  BY <1>2, <1>3, LiveTurnsBecome
<1>5. DiskTurns' = DiskTurns /\ RedisTurns' = RedisTurns
  BY <1>3 DEF DiskTurns, RedisTurns
<1>6. QED
  BY <1>3, <1>4, <1>5, EndKept DEF Answering

\* The precomputed summary opens a session that no request has asked anything.
LEMMA PrecomputedTold ==
    ASSUME Typed, Typed', Settled, Told, NEW r \in Requests, NEW o \in Objects,
           NEW a \in AttemptIds, initPrecomputed(r, o, a)
    PROVE  Told'
<1> DEFINE t == [heap[o] EXCEPT !.turns = <<Turn("assistant", r)>>]
           s == IF a = NoAttempt THEN t ELSE [t EXCEPT !.last = [id |-> a, status |-> "complete"]]
<1>1. heap[o] \in Session
  BY DEF Typed, TypeOK
<1>2. <<Turn("assistant", r)>> \in Turns
  BY TurnsType, SessionType, HoldsType
<1>3. t \in Session /\ t.turns = <<Turn("assistant", r)>>
  BY <1>1, <1>2, SessionType, UpdatedTurns
<1>4. s \in Session /\ s.turns = <<Turn("assistant", r)>>
  <2> HIDE DEF t
  <2>1. a # NoAttempt => a \in Attempts /\ [id |-> a, status |-> "complete"] \in Remembering
    BY DEF AttemptIds, Remembering
  <2>2. QED
    BY <1>3, <2>1, SessionType, UpdatedTurns
<1>5. heap' = [heap EXCEPT ![o] = s]
  BY <1>1 DEF initPrecomputed, Session, Typed, TypeOK
<1> HIDE DEF s
<1>6. /\ current' = current /\ disk' = disk /\ redis' = redis /\ disturbed' = disturbed
      /\ EndAs(r, "ended") /\ req[r].pc \in {"unsent", "restored"} /\ Holds(r, o)
  BY DEF initPrecomputed, End, Accepted, Holds, Arrives
<1>7. heap[o].turns = <<>> /\ heap[o].step1
  BY DEF initPrecomputed, Unopened
<1>8. SUFFICES ASSUME ~disturbed PROVE Told'
  BY <1>6 DEF Told
<1>9. InOrder /\ CopiesAnswered /\ Expecting /\ Resting
  BY <1>8 DEF Told
<1>10. o = current /\ current # Nobody
  BY <1>6, <1>8, BeginsAlone, NamesAssumption DEF Settled, Steady, Objects
<1>11. LiveTurns = <<>> /\ LiveStep1
  BY <1>7, <1>10 DEF LiveTurns, LiveStep1
<1>12. \A p \in Requests : req[p].pc \notin Answering
  BY <1>9, <1>11 DEF Expecting
<1>13. /\ \A p \in Requests \ {r} : req'[p] = req[p]
       /\ req'[r].pc = "ended"
  BY <1>6 DEF EndAs, Typed, TypeOK
<1>14. Unsaved' = Unsaved
  BY <1>6, <1>13 DEF Unsaved
<1>15. LiveTurns' = <<Turn("assistant", r)>>
  BY <1>4, <1>5, <1>6, <1>10, LiveTurnsBecome
<1>16. Alternates(LiveTurns', Unsaved) /\ Answered(LiveTurns', Unsaved)
  <2>1. /\ Len(<<Turn("assistant", r)>>) = 1
        /\ <<Turn("assistant", r)>>[1] = Turn("assistant", r)
    OBVIOUS
  <2>2. Last(<<Turn("assistant", r)>>).role = "assistant"
    BY <2>1 DEF Last, Turn
  <2>3. QED
    BY <1>15, <2>1, <2>2 DEF Alternates, Answered
<1>17. DiskTurns' = DiskTurns /\ RedisTurns' = RedisTurns
  BY <1>6 DEF DiskTurns, RedisTurns
<1>18. InOrder' /\ CopiesAnswered'
  BY <1>9, <1>14, <1>16, <1>17 DEF InOrder, CopiesAnswered
<1>19. \A p \in Requests : req'[p].pc \notin Answering
  BY <1>12, <1>13 DEF Answering
<1>20. Expecting' /\ Resting'
  BY <1>14, <1>16, <1>19 DEF Expecting, Resting, Answering
<1>21. QED
  BY <1>18, <1>20 DEF Told

LEMMA StreamTurnTold ==
    ASSUME Typed, Typed', Settled, Told, NEW r \in Requests, NEW o \in Objects,
           NEW a \in AttemptIds, NEW init \in BOOLEAN, streamTurn(r, o, a, init)
    PROVE  Told'
<1> DEFINE g == Guard(heap[o], a)
           s == IF init /\ g.turns = <<>> THEN g
                ELSE [g EXCEPT !.turns = Append(@, Turn("user", r))]
           q == [req[r] EXCEPT !.pc = "model", !.obj = o, !.id = a]
<1>1. heap[o] \in Session /\ req[r] \in Request
  BY HoldsType DEF Typed, TypeOK
<1>2. /\ g \in Session /\ g.turns = heap[o].turns /\ g.step1 = heap[o].step1 
      /\ g.step1 \in BOOLEAN /\ g.done = heap[o].done
  <2>1. g.done = heap[o].done /\ g.step1 \in BOOLEAN
    BY <1>1 DEF Guard, Session
  <2>2. QED
    BY <1>1, <2>1, SessionType, UpdatedTurns
<1>3. /\ Accepted(r, o, a)
      /\ init => ~g.done /\ ~Unopened(g)
      /\ req' = [req EXCEPT ![r] = q]
      /\ heap' = [heap EXCEPT ![o] = s]
      /\ Enter(r, o) /\ disturbed => disturbed'
      /\ current' = current /\ disk' = disk /\ redis' = redis
  BY DEF streamTurn, Enter
<1> HIDE DEF g
<1>4. Append(g.turns, Turn("user", r)) \in Turns
  BY <1>2, SessionType, TurnsType, HoldsType
<1>5. /\ s \in Session
      /\ \/ s.turns = Append(heap[o].turns, Turn("user", r))
         \/ heap[o].turns = <<>> /\ s.turns = <<>> /\ ~s.step1
  <2>1. CASE init /\ g.turns = <<>>
    BY <1>2, <1>3, <2>1 DEF Unopened
  <2>2. CASE ~(init /\ g.turns = <<>>)
    <3> DEFINE t == Append(g.turns, Turn("user", r))
               u == [g EXCEPT !.turns = t]
    <3>1. s = u
      BY <2>2
    <3>2. t \in Turns
      BY <1>4
    <3> HIDE DEF t
    <3>3. u \in Session /\ u.turns = t
      BY <1>2, <3>2, SessionType, UpdatedTurns
    <3> HIDE DEF s, u
    <3>4. QED
      BY <1>2, <3>1, <3>3 DEF t
  <2>3. QED
    BY <2>1, <2>2
<1>6. q \in Request /\ q.pc = "model"
  BY <1>1, RequestType DEF Request, Working, Streaming
<1> HIDE DEF s, q
<1>7. /\ req[r].pc \in {"unsent", "restored"} /\ Holds(r, o)
  BY <1>3 DEF Accepted, Holds, Arrives
<1>8. DiskTurns' = DiskTurns /\ RedisTurns' = RedisTurns
  BY <1>3 DEF DiskTurns, RedisTurns
<1>9. disturbed => disturbed'
  BY DEF streamTurn, Enter
<1>10. ASSUME ~disturbed'
      PROVE  /\ \A p \in Requests \ {r} : req[p].pc \notin Working
             /\ \/ LiveTurns' = Append(LiveTurns, Turn("user", r))
                \/ LiveTurns = <<>> /\ LiveTurns' = <<>> /\ ~LiveStep1'
  <2>1. o = current /\ current # Nobody /\ Alone
    BY <1>7, <1>9, <1>10, BeginsAlone, NamesAssumption DEF Settled, Steady, Objects
  <2>2. \A p \in Requests \ {r} : req[p].pc \notin Working
    BY <1>10, <2>1, BeginsAlone DEF streamTurn
  <2>3. LiveTurns' = s.turns /\ LiveStep1' = s.step1 /\ LiveTurns = heap[o].turns
    BY <1>3, <1>5, <2>1, LiveTurnsBecome, TurnsTypes
  <2>4. QED
    BY <1>5, <2>2, <2>3
<1>11. req[r].pc \notin Answering \cup {"unsaved"} /\ q.pc \in Answering
  BY <1>6, <1>7 DEF Answering
<1>12. QED
  BY <1>3, <1>6, <1>8, <1>9, <1>10, <1>11, AskTold

LEMMA BodyTold ==
    ASSUME Typed, Typed', Settled, Told, NEW r \in Requests, jsonBody(r)
    PROVE  Told'
<1> DEFINE s == [heap[current] EXCEPT !.turns = Append(@, Turn("user", r))]
           q == [req[r] EXCEPT !.pc = "executor", !.obj = current]
<1>1. current \in Objects /\ heap[current] \in Session /\ req[r] \in Request
  BY HoldsType DEF jsonBody, Typed, TypeOK, InHand, Working, Json
<1>2. Append(heap[current].turns, Turn("user", r)) \in Turns
  BY <1>1, SessionType, TurnsType, HoldsType
<1>3. s \in Session /\ s.turns = Append(heap[current].turns, Turn("user", r))
  BY <1>1, <1>2, SessionType, UpdatedTurns
<1>4. q \in Request /\ q.pc = "executor"
  BY <1>1, RequestType DEF Request, Working, Json
<1>5. /\ heap' = [heap EXCEPT ![current] = s] /\ req' = [req EXCEPT ![r] = q]
      /\ current' = current /\ disk' = disk /\ redis' = redis
      /\ req[r].pc = "body" /\ Enter(r, current)
  BY DEF jsonBody
<1> HIDE DEF s, q
<1>6. disturbed => disturbed'
  BY <1>5 DEF Enter
<1>7. DiskTurns' = DiskTurns /\ RedisTurns' = RedisTurns
  BY <1>5 DEF DiskTurns, RedisTurns
<1>8. LiveTurns' = Append(LiveTurns, Turn("user", r))
  BY <1>1, <1>3, <1>5, LiveTurnsBecome, TurnsTypes, NamesAssumption DEF Objects
<1>9. ~disturbed' => \A p \in Requests \ {r} : req[p].pc \notin Working
  BY <1>5, <1>6, BeginsAlone DEF Settled, Steady
<1>10. req[r].pc \notin Answering \cup {"unsaved"} /\ q.pc \in Answering
  BY <1>4, <1>5 DEF Answering
<1>11. QED
  BY <1>4, <1>5, <1>6, <1>7, <1>8, <1>9, <1>10, AskTold

\* The turn of a call that failed is taken back.
LEMMA FailureTold ==
    ASSUME Typed, Typed', Settled, Told, NEW r \in Requests, modelError(r) \/ modelEmpty(r)
    PROVE  Told'
<1> DEFINE o == req[r].obj
<1>1. /\ disk' = disk /\ redis' = redis /\ current' = current /\ disturbed' = disturbed
      /\ EndAs(r, "ended") /\ req[r].pc = "model"
  BY DEF modelError, modelEmpty, ghostVars, End
<1>2. SUFFICES ASSUME ~disturbed PROVE Told'
  BY <1>1 DEF Told
<1>3. InOrder /\ CopiesAnswered /\ Expecting /\ Resting
  BY <1>2 DEF Told
<1>4. "model" \in Working /\ "model" \in Answering
  BY DEF Working, Streaming, Answering
<1>5. /\ o = current /\ current \in Objects /\ current # Nobody
      /\ \A p \in Requests \ {r} : req[p].pc \notin Working
  BY <1>1, <1>2, <1>4, WhileAtWork, NamesAssumption DEF Objects
<1>6. /\ LiveTurns = heap[o].turns /\ LiveTurns \in Turns /\ heap[o] \in Session
      /\ LiveTurns = <<>> \/ (LiveTurns # <<>> /\ Last(LiveTurns) = Turn("user", r))
  BY <1>1, <1>3, <1>4, <1>5, TurnsTypes, HoldsType DEF Expecting
<1> DEFINE t == IF LiveTurns # <<>> THEN Front(LiveTurns) ELSE LiveTurns
           s == [heap[o] EXCEPT !.turns = t]
<1>7. heap' = [heap EXCEPT ![o] = s]
  <2>1. LiveTurns # <<>> => Last(LiveTurns).role = "user"
    BY <1>6 DEF Turn
  <2>2. QED
    BY <1>6, <2>1 DEF modelError, modelEmpty, Typed, TypeOK
<1>8. t \in Turns
  BY <1>6, TurnsType
<1>9. s \in Session /\ s.turns = t
  BY <1>6, <1>8, SessionType, UpdatedTurns
<1>10. Alternates(t, Unsaved) /\ Answered(t, Unsaved)
  <2>1. CASE LiveTurns = <<>>
    BY <1>3, <2>1 DEF InOrder, Answered
  <2>2. CASE LiveTurns # <<>>
    <3>1. Last(LiveTurns).role = "user"
      BY <1>6, <2>2 DEF Turn
    <3>2. QED
      BY <1>3, <1>6, <2>2, <3>1, TakenBack DEF InOrder
  <2>3. QED
    BY <2>1, <2>2
<1> HIDE DEF s, t
<1>11. LiveTurns' = t
  BY <1>1, <1>5, <1>7, <1>9, LiveTurnsBecome
<1>12. DiskTurns' = DiskTurns /\ RedisTurns' = RedisTurns
  BY <1>1 DEF DiskTurns, RedisTurns
<1>13. /\ \A p \in Requests \ {r} : req'[p] = req[p]
       /\ req'[r].pc = "ended"
  BY <1>1 DEF EndAs, Typed, TypeOK
<1>14. Unsaved' = Unsaved
  BY <1>1, <1>13 DEF Unsaved
<1>15. \A p \in Requests : req'[p].pc \notin Answering
  BY <1>5, <1>13, TurnsTypes DEF Answering
<1>16. InOrder' /\ CopiesAnswered'
  BY <1>3, <1>10, <1>11, <1>12, <1>14 DEF InOrder, CopiesAnswered
<1>17. Expecting' /\ Resting'
  BY <1>10, <1>11, <1>14, <1>15 DEF Expecting, Resting, Answering
<1>18. QED
  BY <1>16, <1>17 DEF Told

\* The tail of a streamed turn.
LEMMA FinishTold ==
    ASSUME Typed, Typed', Settled, Told, NEW r \in Requests, NEW s \in Session,
           NEW done \in BOOLEAN, Finish(r, s, done), s.turns = heap[req[r].obj].turns,
           req[r].pc \in Streaming
    PROVE  Told'
<1> DEFINE answer == [s EXCEPT !.turns = Append(@, Turn("assistant", r))]
           after == IF req[r].id = NoAttempt THEN answer
                    ELSE [answer EXCEPT !.last = [id |-> req[r].id, status |-> "complete"]]
<1>1. Append(s.turns, Turn("assistant", r)) \in Turns
  BY SessionType, TurnsType, HoldsType
<1>2. answer \in Session /\ answer.turns = Append(s.turns, Turn("assistant", r))
  BY <1>1, SessionType, UpdatedTurns
<1>3. req[r].id \in Attempts \/ req[r].id = NoAttempt
  BY HoldsType DEF Request, AttemptIds
<1>4. after \in Session /\ after.turns = answer.turns
  <2> HIDE DEF answer
  <2>1. \A a \in Attempts : [id |-> a, status |-> "complete"] \in Remembering
    BY DEF Remembering
  <2>2. QED
    BY <1>2, <1>3, <2>1, SessionType, UpdatedTurns
<1>5. heap' = [heap EXCEPT ![req[r].obj] = after]
  BY DEF Finish
<1>6. /\ disk' = answer /\ current' = current /\ EndAs(r, "ended")
      /\ redis' = (IF done THEN Nobody ELSE answer) \/ disturbed'
      /\ disturbed => disturbed'
  BY DEF Finish, End
<1> HIDE DEF answer, after
<1>7. req[r].pc \in Working /\ req[r].pc \in Answering
  BY DEF Working, Streaming, Answering
<1>8. ASSUME ~disturbed'
      PROVE  /\ LiveTurns' = Append(LiveTurns, Turn("assistant", r))
             /\ DiskTurns' = LiveTurns'
             /\ RedisTurns' \in {<<>>, RedisTurns, LiveTurns'}
  <2>1. req[r].obj = current /\ current \in Objects /\ current # Nobody
    BY <1>6, <1>7, <1>8, WhileAtWork, NamesAssumption DEF Objects
  <2>2. LiveTurns' = answer.turns
    BY <1>4, <1>5, <1>6, <2>1, LiveTurnsBecome
  <2>3. LiveTurns' = Append(LiveTurns, Turn("assistant", r))
    BY <1>2, <2>1, <2>2, TurnsTypes
  <2>4. answer # Nobody
    BY <1>2, CopyAssumption
  <2>5. QED
    BY <1>6, <1>8, <2>2, <2>3, <2>4 DEF DiskTurns, RedisTurns
<1>9. QED
  BY <1>6, <1>7, <1>8, AnswerTold

LEMMA ReplyTold ==
    ASSUME Typed, Typed', Settled, Told, NEW r \in Requests,
           replyText(r) \/ replyAgain(r) \/ commitEnds(r) \/ hookEnds(r)
    PROVE  Told'
<1>1. heap[req[r].obj] \in Session
  BY HoldsType
<1>2. req[r].pc \in Streaming
  BY DEF replyText, replyAgain, commitEnds, hookEnds, Streaming
<1>3. CASE replyText(r)
  BY <1>1, <1>2, <1>3, FinishTold DEF replyText
<1>4. CASE replyAgain(r)
  <2>1. Finish(r, Produced(heap[req[r].obj], r), TRUE)
    BY <1>4 DEF replyAgain
  <2>2. QED
    BY <1>1, <1>2, <2>1, SessionType, UpdatedTurns, FinishTold
<1>5. CASE commitEnds(r)
  <2>1. Finish(r, [heap[req[r].obj] EXCEPT !.stageDone = TRUE], TRUE)
    BY <1>5 DEF commitEnds
  <2>2. QED
    BY <1>1, <1>2, <2>1, SessionType, UpdatedTurns, FinishTold
<1>6. CASE hookEnds(r)
  BY <1>1, <1>2, <1>6, FinishTold DEF hookEnds
<1>7. QED
  BY <1>3, <1>4, <1>5, <1>6

LEMMA JsonReplyTold ==
    ASSUME Typed, Typed', Settled, Told, NEW r \in Requests, NEW done \in BOOLEAN,
           jsonReply(r, done)
    PROVE  Told'
<1> DEFINE old == heap[req[r].obj]
           new == IF done THEN Produced(old, r) ELSE old
           s   == [new EXCEPT !.turns = Append(@, Turn("assistant", r))]
<1>1. new \in Session /\ new.turns = old.turns
  BY HoldsType, SessionType, UpdatedTurns
<1>2. /\ heap' = [heap EXCEPT ![req[r].obj] = s] /\ disk' = s /\ redis' = redis
      /\ req[r].pc = "executor" /\ EndAs(r, "ended") /\ current' = current
      /\ disturbed' = disturbed
  BY DEF jsonReply, End
<1> HIDE DEF new
<1>3. s \in Session /\ s.turns = Append(old.turns, Turn("assistant", r))
  <2> DEFINE t == Append(new.turns, Turn("assistant", r))
             u == [new EXCEPT !.turns = t]
  <2>1. s = u
    OBVIOUS
  <2>2. t \in Turns
    BY <1>1, SessionType, TurnsType, HoldsType
  <2> HIDE DEF t
  <2>3. u \in Session /\ u.turns = t
    BY <1>1, <2>2, SessionType, UpdatedTurns
  <2> HIDE DEF s, u
  <2>4. QED
    BY <1>1, <2>1, <2>3 DEF t
<1> HIDE DEF s
<1>4. req[r].pc \in Working /\ req[r].pc \in Answering
  BY <1>2 DEF Working, Json, Answering
<1>5. ASSUME ~disturbed'
      PROVE  /\ LiveTurns' = Append(LiveTurns, Turn("assistant", r))
             /\ DiskTurns' = LiveTurns'
             /\ RedisTurns' \in {<<>>, RedisTurns, LiveTurns'}
  <2>1. req[r].obj = current /\ current \in Objects /\ current # Nobody
    BY <1>2, <1>4, <1>5, WhileAtWork, NamesAssumption DEF Objects
  <2>2. LiveTurns' = s.turns
    BY <1>2, <1>3, <2>1, LiveTurnsBecome
  <2>3. LiveTurns' = Append(LiveTurns, Turn("assistant", r))
    BY <1>3, <2>1, <2>2, TurnsTypes
  <2>4. s # Nobody
    BY <1>3, CopyAssumption
  <2>5. QED
    BY <1>2, <2>2, <2>3, <2>4 DEF DiskTurns, RedisTurns
<1>6. QED
  BY <1>2, <1>4, <1>5, AnswerTold

\* An artefact is produced, stored or not: its turn waits for the answer, or
\* for good.
LEMMA ProducedTold ==
    ASSUME Typed, Told, NEW r \in Requests, replyUnsaved(r) \/ replyFirst(r)
    PROVE  Told'
<1> DEFINE old == heap[req[r].obj]
           p == Produced(old, r)
<1>1. req[r] \in Request /\ req[r].obj \in Objects /\ old \in Session
  BY HoldsType DEF Request
<1>2. /\ p \in Session /\ p.turns = old.turns /\ p.step1 = old.step1
      /\ [p EXCEPT !.stageDone = TRUE] \in Session
      /\ [p EXCEPT !.stageDone = TRUE].turns = old.turns
      /\ [p EXCEPT !.stageDone = TRUE].step1 = old.step1
  <2>1. p \in Session /\ p.turns = old.turns /\ p.step1 = old.step1
    BY <1>1, SessionType, UpdatedTurns
  <2> HIDE DEF p
  <2>2. QED
    BY <2>1, SessionType, UpdatedTurns
<1>3. /\ req[r].pc = "model"
      /\ UNCHANGED <<current, disk, redis, disturbed>>
  BY DEF replyUnsaved, replyFirst
<1>4. PICK s \in {p, [p EXCEPT !.stageDone = TRUE]} : heap' = [heap EXCEPT ![req[r].obj] = s]
  <2>1. CASE replyUnsaved(r)
    BY <2>1 DEF replyUnsaved
  <2>2. CASE replyFirst(r)
    BY <2>2 DEF replyFirst, Step
  <2>3. QED
    BY <2>1, <2>2
<1>5. s \in Session /\ s.turns = old.turns /\ s.step1 = old.step1
  BY <1>2
<1>6. LiveTurns' = LiveTurns /\ LiveStep1' = LiveStep1
  BY <1>1, <1>3, <1>4, <1>5, LiveTurnsBecome
<1>7. DiskTurns' = DiskTurns /\ RedisTurns' = RedisTurns
  BY <1>3 DEF DiskTurns, RedisTurns
<1>8. CASE replyUnsaved(r)
  BY <1>3, <1>6, <1>7, <1>8, EndKept DEF replyUnsaved
<1>9. CASE replyFirst(r)
  <2>1. PICK pc \in {"commit", "hook"} : req' = [req EXCEPT ![r].pc = pc]
    BY <1>9 DEF replyFirst, Step
  <2>2. /\ [req[r] EXCEPT !.pc = pc] \in Request
        /\ [req[r] EXCEPT !.pc = pc].pc = pc
    BY <1>1, RequestType DEF Request, Working, Streaming
  <2>3. req[r].pc \in Answering /\ pc \in Answering
    BY <1>3 DEF Answering
  <2>4. QED
    BY <1>3, <1>6, <1>7, <2>1, <2>2, <2>3, MoveKept
<1>10. QED
  BY <1>8, <1>9

LEMMA ConfirmCompletesTold ==
    ASSUME Typed, Told, NEW r \in Requests, confirmCompletes(r)
    PROVE  Told'
<1> DEFINE old == heap[req[r].obj]
           s == [old EXCEPT !.stageDone = TRUE]
<1>1. req[r].obj \in Objects /\ old \in Session
  BY HoldsType DEF Request
<1>2. s \in Session /\ s.turns = old.turns /\ s.step1 = old.step1
  BY <1>1, SessionType, UpdatedTurns
<1>3. /\ heap' = [heap EXCEPT ![req[r].obj] = s]
      /\ req[r].pc = "confirm commit" /\ EndAs(r, "ended")
      /\ UNCHANGED <<current, disk, redis, disturbed>>
  BY DEF confirmCompletes, ghostVars, End, Typed, TypeOK
<1> HIDE DEF s
<1>4. LiveTurns' = LiveTurns /\ LiveStep1' = LiveStep1
  BY <1>1, <1>2, <1>3, LiveTurnsBecome
<1>5. DiskTurns' = DiskTurns /\ RedisTurns' = RedisTurns
  BY <1>3 DEF DiskTurns, RedisTurns
<1>6. QED
  BY <1>3, <1>4, <1>5, EndKept DEF Answering

\* Saves, the clock and the server.
LEMMA SaveTold ==
    ASSUME Told, NEW c \in Artefacts, saveSettles(c)
    PROVE  Told'
<1>1. UNCHANGED <<current, heap, disk, redis, req>> /\ (disturbed => disturbed')
  BY DEF saveSettles, sessionVars
<1>2. QED
  BY <1>1, TurnsKept DEF LiveTurns, DiskTurns, RedisTurns, LiveStep1, Unsaved

LEMMA ExpireTold ==
    ASSUME Typed, Told, NEW o \in Objects, expire(o)
    PROVE  Told'
<1> DEFINE s == [heap[o] EXCEPT !.last.status = "stale"]
<1>1. heap[o] \in Session /\ heap[o].last.status = "in-flight"
  BY DEF expire, Typed, TypeOK
<1>2. s \in Session /\ s.turns = heap[o].turns /\ s.step1 = heap[o].step1
  BY <1>1, SessionType DEF Session
<1>3. heap' = [heap EXCEPT ![o] = s]
  BY DEF expire, Typed, TypeOK
<1> HIDE DEF s
<1>4. UNCHANGED <<current, disk, redis, req, disturbed>>
  BY DEF expire
<1>5. LiveTurns' = LiveTurns /\ LiveStep1' = LiveStep1
  BY <1>2, <1>3, <1>4, LiveTurnsBecome
<1>6. QED
  BY <1>4, <1>5, TurnsKept DEF DiskTurns, RedisTurns, Unsaved

LEMMA RestoreTold ==
    ASSUME Typed, Typed', Settled, Told, NEW r \in Requests, restore(r)
    PROVE  Told'
<1>1. SUFFICES ASSUME ~disturbed' PROVE Told'
  BY DEF Told
<1>2. current = Nobody /\ ~disturbed /\ redis # Nobody /\ req[r].pc = "restoring"
  BY <1>1 DEF restore
<1>3. InOrder /\ CopiesAnswered
  BY <1>2 DEF Told
<1> DEFINE s == [redis EXCEPT !.step1 = heap[Boot].step1]
           q == [req[r] EXCEPT !.pc = "restored", !.obj = r]
<1>4. redis \in Session
  BY <1>2, CopiesType
<1>5. s.turns = redis.turns
  BY <1>4 DEF Session
<1>6. heap' = [heap EXCEPT ![r] = s] /\ req' = [req EXCEPT ![r] = q] /\ current' = r
  BY DEF restore
<1>7. q.pc = "restored"
  BY HoldsType DEF Request
<1> HIDE DEF s, q
<1>8. r \in Objects /\ r # Nobody
  BY NamesAssumption DEF Objects
<1>9. LiveTurns' = RedisTurns
  <2>1. heap'[r] = s
    BY <1>6, <1>8 DEF Typed, TypeOK
  <2>2. QED
    BY <1>2, <1>5, <1>6, <1>8, <2>1 DEF LiveTurns, RedisTurns
<1>10. DiskTurns' = DiskTurns /\ RedisTurns' = RedisTurns
  BY DEF restore, DiskTurns, RedisTurns
<1>11. /\ req'[r].pc = "restored"
       /\ \A p \in Requests \ {r} : req'[p] = req[p]
  BY <1>6, <1>7 DEF Typed, TypeOK
<1>12. Unsaved' = Unsaved
  BY <1>2, <1>11 DEF Unsaved
<1>13. \A p \in Requests : req'[p].pc \notin Answering
  <2>1. \A p \in Requests : req[p].pc \notin Working
    BY <1>2, NamesAssumption DEF Typed, InHand, Objects
  <2>2. QED
    BY <1>11, <2>1, TurnsTypes DEF Answering
<1>14. InOrder' /\ CopiesAnswered'
  BY <1>3, <1>9, <1>10, <1>12 DEF InOrder, CopiesAnswered
<1>15. Expecting' /\ Resting'
  BY <1>3, <1>9, <1>12, <1>13 DEF Expecting, Resting, Answering, CopiesAnswered
<1>16. QED
  BY <1>14, <1>15 DEF Told

LEMMA RestartTold ==
    ASSUME Typed, Told, NEW wiped \in BOOLEAN, restart(wiped)
    PROVE  Told'
<1>1. SUFFICES ASSUME ~disturbed' PROVE Told'
  BY DEF Told
<1>2. /\ ~disturbed
      /\ \A r \in Requests : req[r].pc \in {"unsent", "ended", "unsaved"}
      /\ \A r \in Requests : req'[r] = req[r]
  BY <1>1 DEF restart
<1>3. InOrder /\ CopiesAnswered
  BY <1>2 DEF Told
<1> DEFINE copy == IF wiped THEN Nobody ELSE disk
<1>4. /\ disk' = copy /\ redis' = redis
      /\ current' = IF copy = Nobody THEN Nobody ELSE Boot
      /\ heap' = [heap EXCEPT ![Boot] = IF copy = Nobody THEN @ ELSE copy]
  BY DEF restart
<1>5. LiveTurns' = DiskTurns' /\ DiskTurns' \in {<<>>, DiskTurns} /\ RedisTurns' = RedisTurns
  <2>1. Boot \in Objects /\ Boot # Nobody
    BY NamesAssumption DEF Objects
  <2>2. copy # Nobody => heap'[Boot] = copy
    BY <1>4, <2>1 DEF Typed, TypeOK
  <2>3. QED
    BY <1>4, <2>1, <2>2 DEF LiveTurns, DiskTurns, RedisTurns
<1>6. Alternates(<<>>, Unsaved) /\ Answered(<<>>, Unsaved)
  <2>1. Len(<<>>) = 0
    BY EmptySeq
  <2>2. QED
    BY <2>1 DEF Alternates, Answered
<1>7. Unsaved' = Unsaved
  BY <1>2 DEF Unsaved
<1>8. \A p \in Requests : req'[p].pc \notin Answering
  BY <1>2 DEF Answering
<1>9. InOrder' /\ CopiesAnswered'
  BY <1>3, <1>5, <1>6, <1>7 DEF InOrder, CopiesAnswered
<1>10. Expecting' /\ Resting'
  BY <1>5, <1>8, <1>9 DEF Expecting, Resting, Answering, CopiesAnswered
<1>11. QED
  BY <1>9, <1>10 DEF Told

LEMMA ToldInit == Init => Told
<1> SUFFICES ASSUME Init PROVE Told
  OBVIOUS
<1>1. PICK reopened, step1, moved \in BOOLEAN :
          LET new == Registered(reopened, step1)
          IN  /\ heap = [o \in Objects |-> new]
              /\ current = IF moved THEN Nobody ELSE Boot
              /\ redis = IF moved
                         THEN [new EXCEPT !.turns = <<Turn("assistant", Boot)>>]
                         ELSE Nobody
              /\ crashes = IF moved THEN 1 ELSE 0
              /\ entries = IF reopened THEN 1 ELSE 0
              /\ active = ~reopened
              /\ file = IF reopened /\ ~moved THEN Earlier ELSE Nobody
              /\ row = IF reopened THEN Earlier ELSE Nobody
  BY DEF Init
<1> DEFINE opening == <<Turn("assistant", Boot)>>
<1>2. Boot \in Objects
  BY DEF Objects
<1>3. LiveTurns = <<>>
  BY <1>1, <1>2 DEF LiveTurns, Registered
<1>4. DiskTurns = <<>>
  BY DEF DiskTurns, Init
<1>5. RedisTurns \in {<<>>, opening}
  <2>1. [Registered(reopened, step1) EXCEPT !.turns = opening].turns = opening
    BY DEF Registered
  <2>2. QED
    BY <1>1, <2>1 DEF RedisTurns
<1>6. Alternates(<<>>, Unsaved) /\ Answered(<<>>, Unsaved)
  <2>1. Len(<<>>) = 0
    BY EmptySeq
  <2>2. QED
    BY <2>1 DEF Alternates, Answered
<1>7. Alternates(opening, Unsaved) /\ Answered(opening, Unsaved)
  <2>1. Len(opening) = 1 /\ opening[1] = Turn("assistant", Boot)
    OBVIOUS
  <2> HIDE DEF opening
  <2>2. Last(opening).role = "assistant"
    BY <2>1 DEF Last, Turn
  <2>3. QED
    BY <2>1, <2>2 DEF Alternates, Answered
<1>8. \A r \in Requests : req[r].pc \notin Answering
  BY DEF Init, Answering
<1> HIDE DEF opening
<1>9. QED
  BY <1>3, <1>4, <1>5, <1>6, <1>7, <1>8
  DEF Told, InOrder, CopiesAnswered, Expecting, Resting

LEMMA ToldStep ==
    ASSUME Typed, Typed', Settled, Told, [Next]_vars
    PROVE  Told'
<1>1. CASE UNCHANGED vars
  <2>1. UNCHANGED <<current, heap, disk, redis, req, disturbed>>
    BY <1>1 DEF vars
  <2>2. QED
    BY <2>1, TurnsKept DEF LiveTurns, DiskTurns, RedisTurns, LiveStep1, Unsaved
<1>2. ASSUME NEW r \in Requests, missing(r) \/ restoreGone(r) \/ restore(r)
      PROVE  Told'
  BY <1>2, QuietTold, RestoreTold
<1>3. ASSUME NEW r \in Requests, NEW o \in Objects, Stream(r, o) \/ jsonBusy(r, o) \/ jsonArrive(r, o)
      PROVE  Told'
  <2>1. CASE Stream(r, o)
    <3>1. PICK a \in AttemptIds :
             \/ resumed(r, o, a)
             \/ refused(r, o, a)
             \/ initOnDone(r, o, a)
             \/ initPrecomputed(r, o, a)
             \/ \E init \in BOOLEAN : streamTurn(r, o, a, init)
      BY <2>1 DEF Stream, AttemptIds
    <3>2. CASE resumed(r, o, a) \/ refused(r, o, a)
      BY <3>2, QuietTold
    <3>3. QED
      BY <3>1, <3>2, InitOnDoneTold, PrecomputedTold, StreamTurnTold
  <2>2. CASE jsonBusy(r, o) \/ jsonArrive(r, o)
    BY <2>2, QuietTold
  <2>3. QED
    BY <1>3, <2>1, <2>2
<1>4. ASSUME NEW r \in Requests, Model(r)
      PROVE  Told'
  <2>1. CASE commitFails(r)
    BY <2>1, QuietTold
  <2>2. CASE ~commitFails(r)
    BY <1>4, <2>2, FailureTold, ReplyTold, ProducedTold DEF Model
  <2>3. QED
    BY <2>1, <2>2
<1>5. ASSUME NEW r \in Requests, JsonTurn(r)
      PROVE  Told'
  <2>1. CASE jsonInitOnDone(r)
    BY <2>1, QuietTold
  <2>2. QED
    BY <1>5, <2>1, BodyTold, JsonReplyTold DEF JsonTurn
<1>6. ASSUME NEW r \in Requests, Confirm(r)
      PROVE  Told'
  <2>1. CASE confirm(r) \/ confirmSaved(r) \/ confirmFails(r)
    BY <2>1, QuietTold
  <2>2. QED
    BY <1>6, <2>1, ConfirmCompletesTold DEF Confirm
<1>7. ASSUME NEW c \in Artefacts, saveSettles(c)
      PROVE  Told'
  BY <1>7, SaveTold
<1>8. ASSUME NEW o \in Objects, expire(o)
      PROVE  Told'
  BY <1>8, ExpireTold
<1>9. ASSUME NEW wiped \in BOOLEAN, restart(wiped)
      PROVE  Told'
  BY <1>9, RestartTold
<1>10. QED
  BY <1>1, <1>2, <1>3, <1>4, <1>5, <1>6, <1>7, <1>8, <1>9 DEF Next

(***************************************************************************)
(* Every user turn is followed by its answer, or is the last one, or is    *)
(* left behind by a turn whose artefact could not be stored: in the        *)
(* session, in its file and in its Redis copy, whatever was retried, cut   *)
(* off, restored or restarted between requests                             *)
(* (skills.js:5104-5132, 5467-5496, 5818-5905).                            *)
(***************************************************************************)
THEOREM HistoryIsInOrder == Spec => []HistoryAlternates
<1>1. Init => Typed /\ Settled /\ Told
  BY TypedInit, SettledInit, ToldInit
<1>2. Typed /\ Settled /\ Told /\ [Next]_vars => (Typed /\ Settled /\ Told)'
  BY TypedStep, SettledStep, ToldStep
<1>3. Typed /\ Told => HistoryAlternates
  <2> SUFFICES ASSUME Typed, Told, ~disturbed, NEW s \in Versions,
                      NEW i \in 1 .. Len(s.turns) - 1,
                      s.turns[i].role = "user"
               PROVE  \/ s.turns[i + 1] = Turn("assistant", s.turns[i].by)
                      \/ req[s.turns[i].by].pc = "unsaved"
    BY DEF HistoryAlternates
  <2>1. s.turns \in {LiveTurns, DiskTurns, RedisTurns}
    BY DEF Versions, LiveTurns, DiskTurns, RedisTurns
  <2>2. Alternates(s.turns, Unsaved)
    BY <2>1 DEF Told, InOrder
  <2>3. QED
    BY <2>2 DEF Alternates, Answers, Unsaved
<1>4. QED
  BY <1>1, <1>2, <1>3, PTL DEF Spec
===============================================================================
