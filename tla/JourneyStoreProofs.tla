-------------------------- MODULE JourneyStoreProofs --------------------------
(***************************************************************************)
(* Proofs about JourneyStore, for any set of journeys, skills and sessions *)
(* and any bounds.                                                         *)
(***************************************************************************)
EXTENDS JourneyStore, TLAPS

(***************************************************************************)
(* Typing.                                                                 *)
(***************************************************************************)

\* A new journey is well typed.
LEMMA FreshType == Fresh \in Content
BY DEF Fresh, Content

\* What a save writes is well typed and has the object's revision.
LEMMA SanitiseType ==
    ASSUME NEW o \in Content
    PROVE  Sanitise(o) \in Content /\ Sanitise(o).rev = o.rev
BY DEF Sanitise, Content

\* That no save holds another object is well typed.
LEMMA NoOrphanType == NoOrphan \in Orphan
BY FreshType DEF NoOrphan, Orphan

\* So is what the next save holds.
LEMMA HeldType ==
    ASSUME TypeOK, NEW j \in Journeys
    PROVE  Held(j) \in Content
BY DEF TypeOK, Held, Orphan

\* Each operation turns an object into a well-typed one.
LEMMA ScalarFields ==
    ASSUME NEW o \in Content
    PROVE  /\ [o EXCEPT !.clarify = TRUE] \in Content
           /\ [o EXCEPT !.complete = TRUE] \in Content
<1>1. [o EXCEPT !.clarify = TRUE] \in Content  BY DEF Content
<1>2. [o EXCEPT !.complete = TRUE] \in Content  BY DEF Content
<1>3. QED  BY <1>1, <1>2

\* So do the operations that record a session id.
LEMMA SessionFields ==
    ASSUME NEW o \in Content, NEW k \in Skills,
           NEW s \in Sessions \cup {NoSession}
    PROVE  /\ [o EXCEPT !.session = s, !.skill = k] \in Content
           /\ [o EXCEPT !.done[k] = s] \in Content
           /\ [o EXCEPT !.done[k] = IF @ = NotDone THEN s ELSE @] \in Content
<1>1. [o EXCEPT !.session = s, !.skill = k] \in Content  BY DEF Content
<1>2. ASSUME NEW d \in Sessions \cup {NoSession, NotDone}
      PROVE  [o EXCEPT !.done[k] = d] \in Content
  BY DEF Content
<1>3. (IF o.done[k] = NotDone THEN s ELSE o.done[k])
         \in Sessions \cup {NoSession, NotDone}
  BY DEF Content
<1>4. [o EXCEPT !.done[k] = IF @ = NotDone THEN s ELSE @] \in Content
  BY <1>2, <1>3
<1>5. QED  BY <1>1, <1>2, <1>4

\* So does a regress, whichever stages it invalidates.
LEMMA RegressedFields ==
    ASSUME NEW o \in Content, NEW k \in Skills, NEW X
    PROVE  [o EXCEPT !.done = [s \in Skills |-> IF s \in X
                                                THEN NotDone ELSE @[s]],
                     !.skill = k,
                     !.session = NoSession] \in Content
<1>1. [s \in Skills |-> IF s \in X THEN NotDone ELSE o.done[s]]
         \in [Skills -> Sessions \cup {NoSession, NotDone}]
  BY DEF Content
<1>2. ASSUME NEW d \in [Skills -> Sessions \cup {NoSession, NotDone}]
      PROVE  [o EXCEPT !.done = d, !.skill = k, !.session = NoSession] \in Content
  BY DEF Content
<1>3. QED  BY <1>1, <1>2

(***************************************************************************)
(* What every request that changes a known journey does, in one form.      *)
(***************************************************************************)

ChangeStep(j) ==
    /\ pgWrite(j) \/ memoryOnly(j)
    /\ \E o \in Content : Change(j, o)

\* A request creates a journey, changes one, or inserts a child row: the
\* proofs below need no more of the twelve operations than this.
LEMMA RequestShape ==
    ASSUME TypeOK, NEW j \in Journeys, Request(j)
    PROVE  \/ createJourney(j)
           \/ ChangeStep(j)
           \/ \E c \in ChildTables : saveChild(j, c)
<1> object[j] \in Content
  BY DEF TypeOK
<1>1. CASE createJourney(j)
  BY <1>1
<1>2. CASE setScope(j)
  BY <1>2, ScalarFields DEF setScope, ChangeStep
<1>3. CASE setClarifyDone(j)
  BY <1>3, ScalarFields DEF setClarifyDone, ChangeStep
<1>4. ASSUME NEW skill \in Skills, NEW sid \in Sessions,
             setActiveSession(j, sid, skill)
      PROVE  ChangeStep(j)
  BY <1>4, SessionFields DEF setActiveSession, ChangeStep
<1>5. ASSUME NEW skill \in Skills, NEW sid \in Sessions \cup {NoSession},
             completeStage(j, skill, sid)
      PROVE  ChangeStep(j)
  BY <1>5, SessionFields DEF completeStage, ChangeStep
<1>6. ASSUME NEW skill \in Skills, NEW sid \in Sessions,
             updateCompletedStageSessionId(j, skill, sid)
      PROVE  ChangeStep(j)
  BY <1>6, SessionFields DEF updateCompletedStageSessionId, ChangeStep
<1>7. ASSUME NEW skill \in Skills, regressToStage(j, skill)
      PROVE  ChangeStep(j)
  BY <1>7, RegressedFields DEF regressToStage, ChangeStep
<1>8. CASE setStoryList(j)
  BY <1>8, ScalarFields DEF setStoryList, ChangeStep
<1>9. CASE advanceToNextStory(j)
  BY <1>9, ScalarFields DEF advanceToNextStory, ChangeStep
<1>10. CASE markJourneyComplete(j)
  BY <1>10, ScalarFields DEF markJourneyComplete, ChangeStep
<1>11. QED
  BY <1>1, <1>2, <1>3, <1>4, <1>5, <1>6, <1>7, <1>8, <1>9, <1>10 DEF Request

\* A change counts one revision up and leaves the other journeys alone.
LEMMA ChangeEffect ==
    ASSUME TypeOK, NEW j \in Journeys, NEW o \in Content, Change(j, o)
    PROVE  /\ j \in memory
           /\ object' \in [Journeys -> Content]
           /\ object'[j].rev = object[j].rev + 1
           /\ \A k \in Journeys \ {j} : object'[k] = object[k]
<1>1. object[j].rev \in Nat
  BY DEF TypeOK, Content
<1>2. [o EXCEPT !.rev = object[j].rev + 1] \in Content
  BY <1>1 DEF Content
<1>3. [o EXCEPT !.rev = object[j].rev + 1].rev = object[j].rev + 1
  BY DEF Content
<1>4. QED
  BY <1>2, <1>3 DEF Change, TypeOK

\* No step breaks the types.
LEMMA TypeStep ==
    ASSUME TypeOK, [Next]_vars
    PROVE  TypeOK'
<1>1. ASSUME NEW j \in Journeys, createJourney(j)
      PROVE  TypeOK'
  BY <1>1, FreshType DEF TypeOK, createJourney, pgWrite
<1>2. ASSUME NEW j \in Journeys, ChangeStep(j)
      PROVE  TypeOK'
  <2>1. PICK o \in Content : Change(j, o)
    BY <1>2 DEF ChangeStep
  <2>2. object' \in [Journeys -> Content]
    BY <2>1, ChangeEffect
  <2>3. pending' \in [Journeys -> Nat] /\ unsaved' \in SUBSET Journeys
    BY <1>2 DEF TypeOK, ChangeStep, pgWrite, memoryOnly
  <2>4. QED
    BY <2>1, <2>2, <2>3 DEF TypeOK, Change
<1>3. ASSUME NEW j \in Journeys, NEW c \in ChildTables, saveChild(j, c)
      PROVE  TypeOK'
  BY <1>3 DEF TypeOK, saveChild
<1>4. ASSUME NEW j \in Journeys, saveStart(j)
      PROVE  TypeOK'
  <2>1. Sanitise(Held(j)) \in Content
    BY HeldType, SanitiseType
  <2>2. pending' \in [Journeys -> Nat]
    BY <1>4 DEF TypeOK, saveStart, Begins
  <2>3. flight' \in [Journeys -> SUBSET Content]
    BY <1>4, <2>1 DEF TypeOK, saveStart, Begins
  <2>4. orphan' \in [Journeys -> Orphan]
    <3>1. \A x \in Orphan : OneFewer(x) \in Orphan
      BY NoOrphanType DEF Orphan, OneFewer
    <3>2. QED
      BY <1>4, <3>1 DEF TypeOK, saveStart, Begins
  <2>5. QED
    BY <1>4, <2>2, <2>3, <2>4 DEF TypeOK, saveStart, Begins
<1>5. ASSUME NEW j \in Journeys, saveCommit(j)
      PROVE  TypeOK'
  BY <1>5 DEF TypeOK, saveCommit
<1>6. ASSUME NEW j \in Journeys, saveFail(j)
      PROVE  TypeOK'
  BY <1>6 DEF TypeOK, saveFail
<1>7. ASSUME NEW j \in Journeys, deleteJourney(j)
      PROVE  TypeOK'
  BY <1>7 DEF TypeOK, deleteJourney, InProgress
<1>8. ASSUME NEW j \in Journeys, deleteTurns(j)
      PROVE  TypeOK'
  BY <1>8 DEF TypeOK, deleteTurns, InProgress
<1>9. ASSUME NEW j \in Journeys, deleteArtefacts(j)
      PROVE  TypeOK'
  BY <1>9 DEF TypeOK, deleteArtefacts, InProgress
<1>10. ASSUME NEW j \in Journeys, deleteRow(j)
       PROVE  TypeOK'
  BY <1>10 DEF TypeOK, deleteRow, InProgress
<1>11. ASSUME NEW j \in Journeys, deleteError(j)
       PROVE  TypeOK'
  BY <1>11 DEF TypeOK, deleteError, InProgress
<1>12. CASE loadRead
  BY <1>12 DEF TypeOK, loadRead
<1>13. CASE loadMerge
  <2>1. object' \in [Journeys -> Content]
    BY <1>13 DEF TypeOK, loadMerge, Merges
  <2>2. memory' \in SUBSET Journeys /\ revived' \in SUBSET Journeys
    BY <1>13 DEF TypeOK, loadMerge, Merges
  <2>3. orphan' \in [Journeys -> Orphan]
    BY <1>13 DEF TypeOK, loadMerge, Merges, Orphan
  <2>4. gone' \in [Journeys -> {"no", "clean", "dirty"}]
    BY <1>13 DEF TypeOK, loadMerge, Merges
  <2>5. QED
    BY <1>13, <2>1, <2>2, <2>3, <2>4 DEF TypeOK, loadMerge, Merges
<1>14. CASE loadError
  BY <1>14 DEF TypeOK, loadError
<1>15. CASE crash
  <2>1. row' \in [Journeys -> Content \cup {None}]
    BY <1>15 DEF TypeOK, crash
  <2>2. QED
    BY <1>15, <2>1, FreshType, NoOrphanType DEF TypeOK, crash
<1>16. CASE UNCHANGED vars
  BY <1>16 DEF TypeOK, vars
<1>17. QED
  BY <1>1, <1>2, <1>3, <1>4, <1>5, <1>6, <1>7, <1>8, <1>9, <1>10, <1>11,
     <1>12, <1>13, <1>14, <1>15, <1>16, RequestShape
  DEF Next, Chain, Delete, Load

\* Every variable of the store keeps its type, whatever the bounds.
THEOREM TypeCorrect == Spec => []TypeOK
<1>1. Init => TypeOK
  BY FreshType, NoOrphanType DEF Init, TypeOK
<1>2. TypeOK /\ [Next]_vars => TypeOK'
  BY TypeStep
<1>3. QED
  BY <1>1, <1>2, PTL DEF Spec

(***************************************************************************)
(* The inductive invariant.                                                *)
(***************************************************************************)

\* Some save of the journey may still begin or commit.
Live(j) == j \in memory \/ pending[j] > 0 \/ flight[j] # {}

\* The chain admits one INSERT at a time.
OneSave == \A j \in Journeys : \A p, q \in flight[j] : p = q

\* Only a journey that a reload put back has saves of an earlier object.
OrphansRevived ==
    \A j \in Journeys : orphan[j].saves > 0 => j \in revived

\* Revisions only age on their way from the object to the row.
RevOrder ==
    \A j \in Journeys \ revived :
        /\ \A q \in flight[j] :
              /\ q.rev <= object[j].rev
              /\ row[j] # None => row[j].rev <= q.rev
        /\ Live(j) /\ row[j] # None => row[j].rev <= object[j].rev

\* What has passed the allowlist is a fixed point of it.
Sanitised ==
    \A j \in Journeys :
        /\ \A q \in flight[j] : Sanitise(q) = q
        /\ row[j] # None => Sanitise(row[j]) = row[j]

\* Until the rows are merged, only journeys created since the start are active
\* or deleted, so the snapshot is current for all the others.
LoadingQuiet ==
    server \in {"loading", "read"} =>
        \A j \in Journeys \ memory :
            deletion[j] = "none" =>
            /\ pending[j] = 0
            /\ flight[j] = {}
            /\ server = "read" => snapshot[j] = row[j]

\* An id not handed out yet has left no trace.
UnusedAbsent ==
    \A j \in Journeys \ used :
        /\ j \notin memory
        /\ pending[j] = 0
        /\ flight[j] = {}
        /\ row[j] = None
        /\ snapshot[j] = None
        /\ deletion[j] = "none"

\* A delete takes the journey out of the map before its first statement, and
\* nothing but a reload puts it back.
DeletedAbsent ==
    \A j \in Journeys \ revived : deletion[j] # "none" => j \notin memory

\* Only a journey in the map, or one being deleted, has saves to do.
HeldOrDeleted ==
    \A j \in Journeys :
        pending[j] > 0 \/ flight[j] # {} => j \in memory \/ deletion[j] # "none"

\* The progress of an undisturbed delete through the child tables.
ChildrenCleared ==
    \A j \in Journeys \ disturbed :
        /\ deletion[j] = "artefacts" => "session_turns" \notin children[j]
        /\ deletion[j] = "row" => children[j] = {}
        /\ deletion[j] # "failed"

\* After a clean delete nothing is left that could write the row again.
CleanGone ==
    \A j \in Journeys : gone[j] = "clean" =>
        /\ j \in used
        /\ j \notin memory
        /\ pending[j] = 0
        /\ flight[j] = {}
        /\ row[j] = None
        /\ snapshot[j] = None
        /\ children[j] = {}

\* With nothing queued and nothing changed in memory only, the newest version
\* is executing or, unless that failed, stored.
Settled ==
    \A j \in memory \ revived : pending[j] = 0 /\ j \notin unsaved =>
        /\ \A q \in flight[j] : q = Sanitise(object[j])
        /\ flight[j] = {} /\ j \notin lost => row[j] = Sanitise(object[j])

IInv ==
    /\ TypeOK
    /\ OneSave
    /\ OrphansRevived
    /\ RevOrder
    /\ Sanitised
    /\ LoadingQuiet
    /\ UnusedAbsent
    /\ DeletedAbsent
    /\ HeldOrDeleted
    /\ ChildrenCleared
    /\ CleanGone
    /\ Settled
    /\ NoUnreachableRow

\* A first start, over empty tables, satisfies the inductive invariant.
LEMMA IInvInit == Init => IInv
<1> SUFFICES ASSUME Init PROVE IInv
  OBVIOUS
<1>1. TypeOK
  BY FreshType, NoOrphanType DEF Init, TypeOK
<1>2. QED
  BY <1>1 DEF Init, NoOrphan, IInv, OneSave, OrphansRevived, RevOrder, Live,
     Sanitised, LoadingQuiet, UnusedAbsent, DeletedAbsent, InProgress, HeldOrDeleted, ChildrenCleared,
     CleanGone, Settled, NoUnreachableRow

\* Facts about contents, so that the record type need not be expanded.
LEMMA RevNat == \A o \in Content : o.rev \in Nat
BY DEF Content

\* Sanitising a stored value changes nothing.
LEMMA SanitiseTwice ==
    ASSUME NEW o \in Content
    PROVE  Sanitise(Sanitise(o)) = Sanitise(o)
BY DEF Sanitise, Content

\* The tables the delete clears first are all the tables there are.
LEMMA TwoTables ==
    ASSUME NEW C, C \subseteq ChildTables, "session_turns" \notin C
    PROVE  C \ {"artefacts"} = {}
<1>1. C \subseteq {"session_turns", "artefacts"}
  BY TablesAssumption DEF TablesAssumption
<1>2. QED
  BY <1>1

\* A new journey starts with nothing queued, executing or stored.
LEMMA CreateStep ==
    ASSUME IInv, NEW j \in Journeys, createJourney(j), TypeOK'
    PROVE  IInv'
<1> USE DEF IInv, TypeOK, createJourney, pgWrite
<1>1. OneSave'
  BY DEF OneSave
<1>2. RevOrder'
  BY DEF RevOrder, Live, UnusedAbsent
<1>3. Sanitised'
  BY DEF Sanitised
<1>4. LoadingQuiet'
  BY DEF LoadingQuiet
<1>5. UnusedAbsent'
  BY DEF UnusedAbsent
<1>6. DeletedAbsent' /\ OrphansRevived'
  BY DEF DeletedAbsent, OrphansRevived, InProgress, UnusedAbsent
<1>7. HeldOrDeleted'
  BY DEF HeldOrDeleted
<1>8. ChildrenCleared'
  BY DEF ChildrenCleared
<1>9. CleanGone'
  BY DEF CleanGone
<1>10. Settled'
  BY DEF Settled
<1>11. NoUnreachableRow'
  BY DEF NoUnreachableRow
<1>12. QED
  BY <1>1, <1>2, <1>3, <1>4, <1>5, <1>6, <1>7, <1>8, <1>9, <1>10, <1>11

\* A request moves the object ahead of everything derived from it.
LEMMA ChangeKeeps ==
    ASSUME IInv, NEW j \in Journeys, ChangeStep(j), TypeOK'
    PROVE  IInv'
<1> USE DEF IInv, TypeOK, ChangeStep
<1>a. PICK o \in Content : Change(j, o)
  BY DEF ChangeStep
<1>b. /\ j \in memory
      /\ object' \in [Journeys -> Content]
      /\ object'[j].rev = object[j].rev + 1
      /\ \A k \in Journeys \ {j} : object'[k] = object[k]
  BY <1>a, ChangeEffect
<1>c. UNCHANGED <<server, memory, orphan, flight, row, children, snapshot,
                  deletion, used, crashes, lost, disturbed, revived, gone>>
  BY <1>a DEF Change
<1>d. \/ pending' = [pending EXCEPT ![j] = @ + 1] /\ unsaved' = unsaved
      \/ pending' = pending /\ unsaved' = unsaved \cup {j}
  BY DEF ChangeStep, pgWrite, memoryOnly
<1>1. OneSave'
  BY <1>b, <1>c, <1>d DEF OneSave
<1>2. RevOrder'
  BY <1>b, <1>c, <1>d, RevNat DEF RevOrder, Live
<1>3. Sanitised'
  BY <1>b, <1>c, <1>d DEF Sanitised
<1>4. LoadingQuiet'
  BY <1>b, <1>c, <1>d DEF LoadingQuiet
<1>5. UnusedAbsent'
  BY <1>b, <1>c, <1>d DEF UnusedAbsent
<1>6. DeletedAbsent' /\ OrphansRevived'
  BY <1>b, <1>c, <1>d DEF DeletedAbsent, OrphansRevived, InProgress
<1>7. HeldOrDeleted'
  BY <1>b, <1>c, <1>d DEF HeldOrDeleted
<1>8. ChildrenCleared'
  BY <1>b, <1>c, <1>d DEF ChildrenCleared
<1>9. CleanGone'
  BY <1>b, <1>c, <1>d DEF CleanGone
<1>10. Settled'
  BY <1>b, <1>c, <1>d, RevNat DEF Settled
<1>11. NoUnreachableRow'
  BY <1>b, <1>c, <1>d DEF NoUnreachableRow
<1>12. QED
  BY <1>1, <1>2, <1>3, <1>4, <1>5, <1>6, <1>7, <1>8, <1>9, <1>10, <1>11

\* A child insert disturbs at most the delete it slips into.
LEMMA ChildStep ==
    ASSUME IInv, NEW j \in Journeys, NEW c \in ChildTables, saveChild(j, c), TypeOK'
    PROVE  IInv'
<1> USE DEF IInv, TypeOK, saveChild
<1>1. OneSave'
  BY DEF OneSave
<1>2. RevOrder'
  BY DEF RevOrder, Live
<1>3. Sanitised'
  BY DEF Sanitised
<1>4. LoadingQuiet'
  BY DEF LoadingQuiet
<1>5. UnusedAbsent'
  BY DEF UnusedAbsent
<1>6. DeletedAbsent' /\ OrphansRevived'
  BY DEF DeletedAbsent, OrphansRevived, InProgress
<1>7. HeldOrDeleted'
  BY DEF HeldOrDeleted
<1>8. ChildrenCleared'
  BY DEF ChildrenCleared
<1>9. CleanGone'
  BY DEF CleanGone
<1>10. Settled'
  BY DEF Settled
<1>11. NoUnreachableRow'
  BY DEF NoUnreachableRow
<1>12. QED
  BY <1>1, <1>2, <1>3, <1>4, <1>5, <1>6, <1>7, <1>8, <1>9, <1>10, <1>11

\* A save copies the newest version.
LEMMA StartStep ==
    ASSUME IInv, NEW j \in Journeys, saveStart(j), TypeOK'
    PROVE  IInv'
<1> USE DEF IInv, TypeOK, saveStart, Begins
<1>a. Sanitise(Held(j)) \in Content /\ Sanitise(Held(j)).rev = Held(j).rev
  BY HeldType, SanitiseType
<1>b. j \notin revived => Held(j) = object[j]
  BY DEF OrphansRevived, Held, Orphan
<1>c. \A k \in Journeys : orphan'[k].saves > 0 => orphan[k].saves > 0
  BY DEF NoOrphan, OneFewer, Orphan
<1>1. OneSave'
  BY <1>a DEF OneSave
<1>2. RevOrder'
  BY <1>a, <1>b, RevNat DEF RevOrder, Live
<1>3. Sanitised'
  BY <1>a, HeldType, SanitiseTwice DEF Sanitised
<1>4. LoadingQuiet'
  BY <1>a DEF LoadingQuiet
<1>5. UnusedAbsent'
  BY <1>a DEF UnusedAbsent
<1>6. DeletedAbsent' /\ OrphansRevived'
  BY <1>a, <1>c DEF DeletedAbsent, OrphansRevived, InProgress
<1>7. HeldOrDeleted'
  BY <1>a DEF HeldOrDeleted
<1>8. ChildrenCleared'
  BY <1>a DEF ChildrenCleared
<1>9. CleanGone'
  BY <1>a DEF CleanGone
<1>10. Settled'
  <2>1. \A k \in Journeys \ {j} :
           /\ flight'[k] = flight[k] /\ pending'[k] = pending[k]
           /\ k \in unsaved' <=> k \in unsaved
    BY <1>a
  <2>2. flight'[j] = {Sanitise(Held(j))}
    BY <1>a
  <2>3. UNCHANGED <<memory, object, row, lost, revived>>
    OBVIOUS
  <2>4. QED
    BY <1>b, <2>1, <2>2, <2>3 DEF Settled
<1>11. NoUnreachableRow'
  BY <1>a DEF NoUnreachableRow
<1>12. QED
  BY <1>1, <1>2, <1>3, <1>4, <1>5, <1>6, <1>7, <1>8, <1>9, <1>10, <1>11

\* The executing save replaces an older row.
LEMMA CommitStep ==
    ASSUME IInv, NEW j \in Journeys, saveCommit(j), TypeOK'
    PROVE  IInv'
<1> USE DEF IInv, TypeOK, saveCommit
<1>1. OneSave'
  BY DEF OneSave
<1>2. RevOrder'
  BY RevNat DEF RevOrder, Live, OneSave
<1>3. Sanitised'
  BY DEF Sanitised
<1>4. LoadingQuiet'
  BY DEF LoadingQuiet
<1>5. UnusedAbsent'
  BY DEF UnusedAbsent
<1>6. DeletedAbsent' /\ OrphansRevived'
  BY DEF DeletedAbsent, OrphansRevived, InProgress
<1>7. HeldOrDeleted'
  BY DEF HeldOrDeleted
<1>8. ChildrenCleared'
  BY DEF ChildrenCleared
<1>9. CleanGone'
  BY DEF CleanGone
<1>10. Settled'
  BY DEF Settled
<1>11. NoUnreachableRow'
  BY DEF NoUnreachableRow, HeldOrDeleted
<1>12. QED
  BY <1>1, <1>2, <1>3, <1>4, <1>5, <1>6, <1>7, <1>8, <1>9, <1>10, <1>11

\* A failed save leaves the row as it was, or has replaced an older one.
LEMMA FailStep ==
    ASSUME IInv, NEW j \in Journeys, saveFail(j), TypeOK'
    PROVE  IInv'
<1> USE DEF IInv, TypeOK, saveFail
<1>1. OneSave'
  BY DEF OneSave
<1>2. RevOrder'
  BY RevNat DEF RevOrder, Live, OneSave
<1>3. Sanitised'
  BY DEF Sanitised
<1>4. LoadingQuiet'
  BY DEF LoadingQuiet
<1>5. UnusedAbsent'
  BY DEF UnusedAbsent
<1>6. DeletedAbsent' /\ OrphansRevived'
  BY DEF DeletedAbsent, OrphansRevived, InProgress
<1>7. HeldOrDeleted'
  BY DEF HeldOrDeleted
<1>8. ChildrenCleared'
  BY DEF ChildrenCleared
<1>9. CleanGone'
  BY DEF CleanGone
<1>10. Settled'
  BY DEF Settled
<1>11. NoUnreachableRow'
  BY DEF NoUnreachableRow, HeldOrDeleted
<1>12. QED
  BY <1>1, <1>2, <1>3, <1>4, <1>5, <1>6, <1>7, <1>8, <1>9, <1>10, <1>11

\* The journey leaves the map first.
LEMMA DeleteBeginStep ==
    ASSUME IInv, NEW j \in Journeys, deleteJourney(j), TypeOK'
    PROVE  IInv'
<1> USE DEF IInv, TypeOK, deleteJourney, InProgress
<1>1. OneSave'
  BY DEF OneSave
<1>2. RevOrder'
  BY DEF RevOrder, Live
<1>3. Sanitised'
  BY DEF Sanitised
<1>4. LoadingQuiet'
  BY DEF LoadingQuiet
<1>5. UnusedAbsent'
  BY DEF UnusedAbsent
<1>6. DeletedAbsent' /\ OrphansRevived'
  BY DEF DeletedAbsent, OrphansRevived
<1>7. HeldOrDeleted'
  BY DEF HeldOrDeleted
<1>8. ChildrenCleared'
  BY DEF ChildrenCleared
<1>9. CleanGone'
  BY DEF CleanGone
<1>10. Settled'
  BY DEF Settled
<1>11. NoUnreachableRow'
  BY DEF NoUnreachableRow
<1>12. QED
  BY <1>1, <1>2, <1>3, <1>4, <1>5, <1>6, <1>7, <1>8, <1>9, <1>10, <1>11

\* The first table of references is cleared.
LEMMA DeleteTurnsStep ==
    ASSUME IInv, NEW j \in Journeys, deleteTurns(j), TypeOK'
    PROVE  IInv'
<1> USE DEF IInv, TypeOK, deleteTurns, InProgress
<1>1. OneSave'
  BY DEF OneSave
<1>2. RevOrder'
  BY DEF RevOrder, Live
<1>3. Sanitised'
  BY DEF Sanitised
<1>4. LoadingQuiet'
  BY DEF LoadingQuiet
<1>5. UnusedAbsent'
  BY DEF UnusedAbsent
<1>6. DeletedAbsent' /\ OrphansRevived'
  BY DEF DeletedAbsent, OrphansRevived
<1>7. HeldOrDeleted'
  BY DEF HeldOrDeleted
<1>8. ChildrenCleared'
  BY DEF ChildrenCleared
<1>9. CleanGone'
  BY DEF CleanGone
<1>10. Settled'
  BY DEF Settled
<1>11. NoUnreachableRow'
  BY DEF NoUnreachableRow
<1>12. QED
  BY <1>1, <1>2, <1>3, <1>4, <1>5, <1>6, <1>7, <1>8, <1>9, <1>10, <1>11

\* The second table of references is cleared.
LEMMA DeleteArtefactsStep ==
    ASSUME IInv, NEW j \in Journeys, deleteArtefacts(j), TypeOK'
    PROVE  IInv'
<1> USE DEF IInv, TypeOK, deleteArtefacts, InProgress
<1>a. children[j] \subseteq ChildTables
  OBVIOUS
<1>b. "session_turns" \notin children[j] => children[j] \ {"artefacts"} = {}
  BY <1>a, TwoTables
<1>1. OneSave'
  BY DEF OneSave
<1>2. RevOrder'
  BY DEF RevOrder, Live
<1>3. Sanitised'
  BY DEF Sanitised
<1>4. LoadingQuiet'
  BY DEF LoadingQuiet
<1>5. UnusedAbsent'
  BY DEF UnusedAbsent
<1>6. DeletedAbsent' /\ OrphansRevived'
  BY DEF DeletedAbsent, OrphansRevived
<1>7. HeldOrDeleted'
  BY DEF HeldOrDeleted
<1>8. ChildrenCleared'
  BY <1>b DEF ChildrenCleared
<1>9. CleanGone'
  BY DEF CleanGone
<1>10. Settled'
  BY DEF Settled
<1>11. NoUnreachableRow'
  BY DEF NoUnreachableRow
<1>12. QED
  BY <1>1, <1>2, <1>3, <1>4, <1>5, <1>6, <1>7, <1>8, <1>9, <1>10, <1>11

\* The row goes, unless a reference stops it.
LEMMA DeleteRowStep ==
    ASSUME IInv, NEW j \in Journeys, deleteRow(j), TypeOK'
    PROVE  IInv'
<1> USE DEF IInv, TypeOK, deleteRow, NothingBehind, InProgress
<1>1. OneSave'
  BY DEF OneSave
<1>2. RevOrder'
  BY DEF RevOrder, Live
<1>3. Sanitised'
  BY DEF Sanitised
<1>4. LoadingQuiet'
  BY DEF LoadingQuiet, DeletedAbsent
<1>5. UnusedAbsent'
  BY DEF UnusedAbsent
<1>6. DeletedAbsent' /\ OrphansRevived'
  BY DEF DeletedAbsent, OrphansRevived
<1>7. HeldOrDeleted'
  BY DEF HeldOrDeleted
<1>8. ChildrenCleared'
  BY DEF ChildrenCleared
<1>9. CleanGone'
  BY DEF CleanGone, UnusedAbsent, DeletedAbsent, ChildrenCleared
<1>10. Settled'
  BY DEF Settled, DeletedAbsent
<1>11. NoUnreachableRow'
  BY DEF NoUnreachableRow
<1>12. QED
  BY <1>1, <1>2, <1>3, <1>4, <1>5, <1>6, <1>7, <1>8, <1>9, <1>10, <1>11

\* A statement that reports an error ends the delete where it is.
LEMMA DeleteErrorStep ==
    ASSUME IInv, NEW j \in Journeys, deleteError(j), TypeOK'
    PROVE  IInv'
<1> USE DEF IInv, TypeOK, deleteError, InProgress
<1>1. OneSave'
  BY DEF OneSave
<1>2. RevOrder'
  BY DEF RevOrder, Live
<1>3. Sanitised'
  BY DEF Sanitised
<1>4. LoadingQuiet'
  BY DEF LoadingQuiet, DeletedAbsent
<1>5. UnusedAbsent'
  BY DEF UnusedAbsent
<1>6. DeletedAbsent' /\ OrphansRevived'
  BY DEF DeletedAbsent, OrphansRevived
<1>7. HeldOrDeleted'
  BY DEF HeldOrDeleted
<1>8. ChildrenCleared'
  BY DEF ChildrenCleared
<1>9. CleanGone'
  BY DEF CleanGone
<1>10. Settled'
  BY DEF Settled, DeletedAbsent
<1>11. NoUnreachableRow'
  BY DEF NoUnreachableRow
<1>12. QED
  BY <1>1, <1>2, <1>3, <1>4, <1>5, <1>6, <1>7, <1>8, <1>9, <1>10, <1>11

\* The snapshot is the table.
LEMMA LoadReadStep ==
    ASSUME IInv, loadRead, TypeOK'
    PROVE  IInv'
<1> USE DEF IInv, TypeOK, loadRead
<1>1. OneSave'
  BY DEF OneSave
<1>2. RevOrder'
  BY DEF RevOrder, Live
<1>3. Sanitised'
  BY DEF Sanitised
<1>4. LoadingQuiet'
  BY DEF LoadingQuiet
<1>5. UnusedAbsent'
  BY DEF UnusedAbsent
<1>6. DeletedAbsent' /\ OrphansRevived'
  BY DEF DeletedAbsent, OrphansRevived, InProgress
<1>7. HeldOrDeleted'
  BY DEF HeldOrDeleted
<1>8. ChildrenCleared'
  BY DEF ChildrenCleared
<1>9. CleanGone'
  BY DEF CleanGone
<1>10. Settled'
  BY DEF Settled
<1>11. NoUnreachableRow'
  BY DEF NoUnreachableRow
<1>12. QED
  BY <1>1, <1>2, <1>3, <1>4, <1>5, <1>6, <1>7, <1>8, <1>9, <1>10, <1>11

\* Journeys not in the map come back as they are stored.
LEMMA LoadMergeStep ==
    ASSUME IInv, loadMerge, TypeOK'
    PROVE  IInv'
<1> USE DEF IInv, TypeOK, loadMerge, Merges
<1>1. OneSave'
  BY DEF OneSave
<1>2. RevOrder'
  BY RevNat DEF RevOrder, Live, LoadingQuiet
<1>3. Sanitised'
  BY DEF Sanitised
<1>4. LoadingQuiet'
  BY DEF LoadingQuiet
<1>5. UnusedAbsent'
  BY DEF UnusedAbsent
<1>6. DeletedAbsent' /\ OrphansRevived'
  BY DEF DeletedAbsent, OrphansRevived, InProgress
<1>7. HeldOrDeleted'
  BY DEF HeldOrDeleted
<1>8. ChildrenCleared'
  BY DEF ChildrenCleared
<1>9. CleanGone'
  BY DEF CleanGone
<1>10. Settled'
  BY DEF Settled, LoadingQuiet, Sanitised
<1>11. NoUnreachableRow'
  BY DEF NoUnreachableRow, LoadingQuiet
<1>12. QED
  BY <1>1, <1>2, <1>3, <1>4, <1>5, <1>6, <1>7, <1>8, <1>9, <1>10, <1>11

\* A blind server promises nothing about stored journeys.
LEMMA LoadErrorStep ==
    ASSUME IInv, loadError, TypeOK'
    PROVE  IInv'
<1> USE DEF IInv, TypeOK, loadError
<1>1. OneSave'
  BY DEF OneSave
<1>2. RevOrder'
  BY DEF RevOrder, Live
<1>3. Sanitised'
  BY DEF Sanitised
<1>4. LoadingQuiet'
  BY DEF LoadingQuiet
<1>5. UnusedAbsent'
  BY DEF UnusedAbsent
<1>6. DeletedAbsent' /\ OrphansRevived'
  BY DEF DeletedAbsent, OrphansRevived, InProgress
<1>7. HeldOrDeleted'
  BY DEF HeldOrDeleted
<1>8. ChildrenCleared'
  BY DEF ChildrenCleared
<1>9. CleanGone'
  BY DEF CleanGone
<1>10. Settled'
  BY DEF Settled
<1>11. NoUnreachableRow'
  BY DEF NoUnreachableRow
<1>12. QED
  BY <1>1, <1>2, <1>3, <1>4, <1>5, <1>6, <1>7, <1>8, <1>9, <1>10, <1>11

\* A restart keeps the rows, each possibly one save ahead.
LEMMA CrashStep ==
    ASSUME IInv, crash, TypeOK'
    PROVE  IInv'
<1> USE DEF IInv, TypeOK, crash, NoOrphan
<1>1. OneSave'
  BY DEF OneSave
<1>2. RevOrder'
  BY DEF RevOrder, Live
<1>3. Sanitised'
  BY DEF Sanitised
<1>4. LoadingQuiet'
  BY DEF LoadingQuiet
<1>5. UnusedAbsent'
  BY DEF UnusedAbsent
<1>6. DeletedAbsent' /\ OrphansRevived'
  BY DEF DeletedAbsent, OrphansRevived, InProgress
<1>7. HeldOrDeleted'
  BY DEF HeldOrDeleted
<1>8. ChildrenCleared'
  BY DEF ChildrenCleared
<1>9. CleanGone'
  BY DEF CleanGone
<1>10. Settled'
  BY DEF Settled
<1>11. NoUnreachableRow'
  BY DEF NoUnreachableRow
<1>12. QED
  BY <1>1, <1>2, <1>3, <1>4, <1>5, <1>6, <1>7, <1>8, <1>9, <1>10, <1>11

\* No step of the store breaks the inductive invariant.
LEMMA IInvStep ==
    ASSUME IInv, [Next]_vars
    PROVE  IInv'
<1>1. TypeOK /\ TypeOK'
  BY TypeStep DEF IInv
<1>2. ASSUME NEW j \in Journeys, Request(j)
      PROVE  IInv'
  BY <1>1, <1>2, RequestShape, CreateStep, ChangeKeeps, ChildStep
<1>3. ASSUME NEW j \in Journeys, Chain(j)
      PROVE  IInv'
  BY <1>1, <1>3, StartStep, CommitStep, FailStep DEF Chain
<1>4. ASSUME NEW j \in Journeys, Delete(j)
      PROVE  IInv'
  BY <1>1, <1>4, DeleteBeginStep, DeleteTurnsStep, DeleteArtefactsStep,
     DeleteRowStep, DeleteErrorStep DEF Delete
<1>5. CASE Load
  BY <1>1, <1>5, LoadReadStep, LoadMergeStep, LoadErrorStep DEF Load
<1>6. CASE crash
  BY <1>1, <1>6, CrashStep
<1>7. CASE UNCHANGED vars
  BY <1>1, <1>7 DEF vars, IInv, OneSave, OrphansRevived, RevOrder, Live,
     Sanitised, LoadingQuiet, UnusedAbsent, DeletedAbsent, InProgress, HeldOrDeleted,
     ChildrenCleared, CleanGone, Settled, NoUnreachableRow
<1>8. QED
  BY <1>2, <1>3, <1>4, <1>5, <1>6, <1>7 DEF Next

\* The inductive invariant holds of every behaviour of the store.
THEOREM InductiveInvariant == Spec => []IInv
<1>1. Init => IInv
  BY IInvInit
<1>2. IInv /\ [Next]_vars => IInv'
  BY IInvStep
<1>3. QED
  BY <1>1, <1>2, PTL DEF Spec

(***************************************************************************)
(* What follows from it.                                                   *)
(***************************************************************************)

\* A request never reads from the map a journey older than its stored row.
THEOREM MapIsCurrent == Spec => []MemoryNeverBehindRow
<1>1. IInv => MemoryNeverBehindRow
  BY DEF IInv, RevOrder, Live, MemoryNeverBehindRow
<1>2. QED
  BY <1>1, InductiveInvariant, PTL

\* A drained chain has stored the journey as the map has it, unless the last
\* save failed or an operation that never saves came after it.
THEOREM DrainedChainHasStored == Spec => []QuiescentRowMatches
<1>1. IInv => QuiescentRowMatches
  BY DEF IInv, Settled, QuiescentRowMatches
<1>2. QED
  BY <1>1, InductiveInvariant, PTL

\* A server whose load succeeded reaches every stored journey that it has not
\* agreed to delete.
THEOREM StoredIsReachable == Spec => []NoUnreachableRow
<1>1. IInv => NoUnreachableRow
  BY DEF IInv
<1>2. QED
  BY <1>1, InductiveInvariant, PTL

\* An acknowledged delete with no save behind it is final, across restarts.
THEOREM CleanDeleteHolds == Spec => []CleanDeleteIsFinal
<1>1. IInv => CleanDeleteIsFinal
  BY DEF IInv, CleanGone, CleanDeleteIsFinal
<1>2. QED
  BY <1>1, InductiveInvariant, PTL

\* Deletes run children first: nothing but an insert between two statements, or
\* a rejected statement, makes one fail.
THEOREM UndisturbedDeleteSucceeds == Spec => []DeleteFailsOnlyIfDisturbed
<1>1. IInv => DeleteFailsOnlyIfDisturbed
  BY DEF IInv, ChildrenCleared, DeleteFailsOnlyIfDisturbed
<1>2. QED
  BY <1>1, InductiveInvariant, PTL

\* No step takes a row back to an earlier version of its journey, unless the
\* reload had put it back after its delete.
LEMMA RowsAdvance ==
    ASSUME IInv, IInv', Next, NEW j \in Journeys \ revived,
           row[j] # None, row'[j] # None
    PROVE  row[j].rev <= row'[j].rev
<1>1. row[j] \in Content /\ row[j].rev \in Nat
  BY RevNat DEF IInv, TypeOK
<1>2. ASSUME row'[j] = row[j]
      PROVE  row[j].rev <= row'[j].rev
  BY <1>1, <1>2
<1>3. ASSUME NEW k \in Journeys, Request(k)
      PROVE  row' = row
  BY <1>3, RequestShape
  DEF IInv, createJourney, ChangeStep, Change, saveChild
<1>4. ASSUME NEW k \in Journeys, Chain(k)
      PROVE  row'[j] = row[j] \/ row'[j] \in flight[j]
  BY <1>4 DEF Chain, saveStart, Begins, saveCommit, saveFail, IInv, TypeOK
<1>5. ASSUME NEW k \in Journeys, Delete(k)
      PROVE  row'[j] = row[j]
  BY <1>5 DEF Delete, deleteJourney, deleteTurns, deleteArtefacts, deleteRow,
     deleteError, IInv, TypeOK
<1>6. CASE Load
  BY <1>1, <1>6 DEF Load, loadRead, loadMerge, Merges, loadError
<1>7. CASE crash
  <2>1. row'[j] = row[j] \/ row'[j] \in flight[j]
    BY <1>7 DEF crash
  <2>2. QED
    BY <1>2, <2>1 DEF IInv, RevOrder
<1>8. QED
  BY <1>2, <1>3, <1>4, <1>5, <1>6, <1>7 DEF Next, IInv, RevOrder

\* The chain of each journey writes in order: whatever fails in between, and
\* across restarts, a row is never reverted.
THEOREM RowsNeverRevert == Spec => WritesInOrder
<1> DEFINE Ordered ==
      \A j \in Journeys \ revived :
          row[j] # None /\ row'[j] # None => row[j].rev <= row'[j].rev
<1>1. IInv /\ IInv' /\ [Next]_vars => [Ordered]_vars
  <2> SUFFICES ASSUME IInv, IInv', Next PROVE Ordered
    OBVIOUS
  <2>1. QED
    BY RowsAdvance
<1>2. QED
  BY <1>1, InductiveInvariant, PTL DEF Spec, WritesInOrder

(***************************************************************************)
(* The store implements the write-behind store.  The queued saves of a     *)
(* journey are mapped to whether there are any, and the reload happens at  *)
(* its merge; LoadingQuiet is what makes the rows read then the rows that  *)
(* are there, and OneSave what leaves nothing executing behind a save that *)
(* settles.                                                                *)
(***************************************************************************)

\* The journeys with a queued save, those being deleted, and those the reload
\* may put back.
Queued == {j \in Journeys : pending[j] > 0}
Condemned == {j \in Journeys : deletion[j] \in InProgress}
Early == {j \in Journeys : server \in {"loading", "read"}
                            /\ deletion[j] # "none"}

\* One save more or less queued changes the journeys with a queued save as the
\* write-behind store says.
LEMMA QueueEffect ==
    ASSUME TypeOK, TypeOK', NEW j \in Journeys
    PROVE  /\ pending' = pending => Queued' = Queued
           /\ pending' = [pending EXCEPT ![j] = @ + 1]
              => Queued' = Queued \cup {j}
           /\ pending' = [pending EXCEPT ![j] = @ - 1]
              => Queued' \in {Queued, Queued \ {j}}
<1> pending \in [Journeys -> Nat] /\ pending' \in [Journeys -> Nat]
  BY DEF TypeOK
<1>1. pending' = pending => Queued' = Queued
  BY DEF Queued
<1>2. ASSUME pending' = [pending EXCEPT ![j] = @ + 1]
      PROVE  Queued' = Queued \cup {j}
  <2>1. pending'[j] > 0 /\ \A k \in Journeys \ {j} : pending'[k] = pending[k]
    BY <1>2
  <2>2. QED
    BY <2>1 DEF Queued
<1>3. ASSUME pending' = [pending EXCEPT ![j] = @ - 1]
      PROVE  Queued' \in {Queued, Queued \ {j}}
  <2>1. /\ pending'[j] = pending[j] - 1
        /\ \A k \in Journeys \ {j} : pending'[k] = pending[k]
    BY <1>3
  <2>2. pending[j] > 0
    BY <2>1
  <2>3. CASE pending'[j] > 0
    BY <2>1, <2>2, <2>3 DEF Queued
  <2>4. CASE ~(pending'[j] > 0)
    BY <2>1, <2>2, <2>4 DEF Queued
  <2>5. QED
    BY <2>3, <2>4
<1>4. QED
  BY <1>1, <1>2, <1>3

\* A fresh server is an empty write-behind store.
LEMMA StoreInit == Init => Store!Init
<1> SUFFICES ASSUME Init PROVE Store!Init
  OBVIOUS
<1>1. {j \in Journeys : pending[j] > 0} = {}
  BY DEF Init
<1>2. {j \in Journeys : deletion[j] \in InProgress} = {}
  BY DEF Init, InProgress
<1>3. ~(server \in {"up", "blind"})
  BY DEF Init
<1>4. {j \in Journeys : server \in {"loading", "read"}
                         /\ deletion[j] # "none"} = {}
  BY DEF Init
<1>5. QED
  BY <1>1, <1>2, <1>3, <1>4 DEF Init, Store!Init

\* Creating a journey.
LEMMA StoreCreate ==
    ASSUME TypeOK, TypeOK', NEW j \in Journeys, createJourney(j)
    PROVE  Store!Create(j)
<1>1. Queued' = Queued \cup {j}
  BY QueueEffect DEF createJourney, pgWrite
<1>2. Condemned' = Condemned /\ Early' = Early
  BY DEF createJourney, Condemned, Early
<1>3. QED
  BY <1>1, <1>2 DEF createJourney, Queued, Condemned, Early, Store!Create

\* Changing one.
LEMMA StoreUpdate ==
    ASSUME TypeOK, TypeOK', NEW j \in Journeys, ChangeStep(j)
    PROVE  Store!Update(j)
<1>1. PICK o \in Content : Change(j, o)
  BY DEF ChangeStep
<1>2. Queued' \in {Queued, Queued \cup {j}}
  BY QueueEffect DEF ChangeStep, pgWrite, memoryOnly
<1>3. Condemned' = Condemned /\ Early' = Early
  BY <1>1 DEF Change, Condemned, Early
<1>4. object' = [object EXCEPT ![j] = object'[j]]
  BY <1>1 DEF Change, TypeOK
<1>5. j \in memory /\ object'[j].rev = object[j].rev + 1
  BY <1>1, ChangeEffect
<1>6. QED
  BY <1>1, <1>2, <1>3, <1>4, <1>5
  DEF Change, Queued, Condemned, Early, Store!Update

\* Beginning a save.
LEMMA StoreBegin ==
    ASSUME TypeOK, TypeOK', OrphansRevived, NEW j \in Journeys, saveStart(j)
    PROVE  Store!Begin(j)
<1>1. Queued' \in {Queued, Queued \ {j}}
  BY QueueEffect DEF saveStart, Begins
<1>2. Condemned' = Condemned /\ Early' = Early
  BY DEF saveStart, Begins, Condemned, Early
<1>3. flight' = [flight EXCEPT ![j] = {Sanitise(Held(j))}]
  BY DEF saveStart, Begins
<1>4. flight'[j] = {Sanitise(Held(j))}
  BY <1>3 DEF TypeOK
<1>5. j \notin revived => Held(j) = object[j]
  BY DEF OrphansRevived, Held, TypeOK, Orphan
<1>6. \E v \in flight'[j] : flight' = [flight EXCEPT ![j] = {v}]
  BY <1>3, <1>4
<1>7. j \notin revived => flight'[j] = {Store!AsStored(object[j])}
  BY <1>4, <1>5 DEF Sanitise, Store!AsStored
<1>8. /\ pending[j] > 0 /\ flight[j] = {}
      /\ UNCHANGED <<used, memory, object, row, revived, server>>
  BY DEF saveStart, Begins
<1>9. QED
  BY <1>1, <1>2, <1>6, <1>7, <1>8 DEF Queued, Condemned, Early, Store!Begin

\* A save that is stored, or fails.
LEMMA StoreSettle ==
    ASSUME TypeOK, TypeOK', OneSave, NEW j \in Journeys,
           saveCommit(j) \/ saveFail(j)
    PROVE  Store!Settle(j)
<1>1. PICK q \in flight[j] :
         /\ flight' = [flight EXCEPT ![j] = @ \ {q}]
         /\ row' \in {row, [row EXCEPT ![j] = q]}
  BY DEF saveCommit, saveFail
<1>2. flight[j] \ {q} = {}
  BY DEF OneSave
<1>3. flight' = [flight EXCEPT ![j] = {}]
  BY <1>1, <1>2 DEF TypeOK
<1>4. Queued' = Queued
  BY QueueEffect DEF saveCommit, saveFail
<1>5. Condemned' = Condemned /\ Early' = Early
  BY DEF saveCommit, saveFail, Condemned, Early
<1>6. UNCHANGED <<used, memory, object, server, revived>>
  BY DEF saveCommit, saveFail
<1>7. QED
  BY <1>1, <1>3, <1>4, <1>5, <1>6 DEF Queued, Condemned, Early, Store!Settle

\* Accepting a delete.
LEMMA StoreDelete ==
    ASSUME TypeOK, TypeOK', NEW j \in Journeys, deleteJourney(j)
    PROVE  Store!Delete(j)
<1>1. Queued' = Queued
  BY QueueEffect DEF deleteJourney
<1>2. Condemned' = Condemned \cup {j}
  BY DEF deleteJourney, Condemned, InProgress, TypeOK
<1>3. Early' = IF server \in {"up", "blind"} THEN Early ELSE Early \cup {j}
  BY DEF deleteJourney, Early, TypeOK
<1>4. QED
  BY <1>1, <1>2, <1>3
  DEF deleteJourney, Queued, Condemned, Early, Store!Delete

\* Its first two statements are not seen.
LEMMA StoreStatement ==
    ASSUME TypeOK, TypeOK', NEW j \in Journeys,
           deleteTurns(j) \/ deleteArtefacts(j)
    PROVE  UNCHANGED Store!vars
<1>1. Queued' = Queued
  BY QueueEffect DEF deleteTurns, deleteArtefacts
<1>2. Condemned' = Condemned
  BY DEF deleteTurns, deleteArtefacts, Condemned, InProgress, TypeOK
<1>3. Early' = Early
  BY DEF deleteTurns, deleteArtefacts, Early, TypeOK
<1>4. QED
  BY <1>1, <1>2, <1>3
  DEF deleteTurns, deleteArtefacts, Queued, Condemned, Early, Store!vars

\* The third, and a rejected one, answer it.
LEMMA StoreAnswer ==
    ASSUME TypeOK, TypeOK', NEW j \in Journeys, deleteRow(j) \/ deleteError(j)
    PROVE  Store!Answer(j)
<1>1. Queued' = Queued
  BY QueueEffect DEF deleteRow, deleteError
<1>2. j \in Condemned
  BY DEF deleteRow, deleteError, Condemned, InProgress
<1>3. /\ deletion'[j] \in {"ok", "failed"}
      /\ \A k \in Journeys \ {j} : deletion'[k] = deletion[k]
  BY DEF deleteRow, deleteError, TypeOK
<1>4. UNCHANGED <<used, memory, object, flight, server, revived>>
  BY DEF deleteRow, deleteError
<1>5. row' \in {row, [row EXCEPT ![j] = None]}
  BY DEF deleteRow, deleteError
<1>6. Condemned' = Condemned \ {j} /\ Early' = Early
  BY <1>2, <1>3, <1>4 DEF Condemned, Early, InProgress
<1>7. QED
  BY <1>1, <1>2, <1>4, <1>5, <1>6 DEF Queued, Condemned, Early, Store!Answer

\* The merge is the whole reload, as is the error that takes its place.
LEMMA StoreLoad ==
    ASSUME TypeOK, TypeOK', LoadingQuiet, loadMerge \/ loadError
    PROVE  Store!Load
<1> DEFINE found == {j \in Journeys \ (memory \cup Early) : row[j] # None}
           back == {j \in Early \ memory : snapshot[j] # None}
<1>1. Queued' = Queued /\ Condemned' = Condemned
  BY DEF loadMerge, Merges, loadError, Queued, Condemned
<1>2. Early' = {}
  BY DEF loadMerge, Merges, loadError, Early
<1>3. /\ ~(server \in {"up", "blind"})
      /\ server' \in {"up", "blind"}
      /\ UNCHANGED <<used, flight, row>>
  BY DEF loadMerge, Merges, loadError
<1>4. ASSUME loadMerge
      PROVE  /\ memory' = memory \cup found \cup back
             /\ object' = [j \in Journeys |-> IF j \in found THEN row[j]
                                              ELSE IF j \in back THEN object'[j]
                                              ELSE object[j]]
             /\ revived' = revived \cup back
  <2>1. server = "read"
    BY <1>4 DEF loadMerge, Merges
  <2>2. \A j \in Journeys \ (memory \cup Early) : snapshot[j] = row[j]
    BY <2>1 DEF LoadingQuiet, Early
  <2>3. {j \in Journeys \ memory : snapshot[j] # None} = found \cup back
    BY <2>2 DEF Early
  <2>4. {j \in (found \cup back) \ memory : deletion[j] # "none"} = back
    BY <2>1 DEF Early
  <2>5. memory' = memory \cup found \cup back /\ revived' = revived \cup back
    BY <1>4, <2>3, <2>4 DEF loadMerge, Merges
  <2>6. object' = [j \in Journeys |-> IF j \in found \cup back THEN snapshot[j]
                                      ELSE object[j]]
    BY <1>4, <2>3 DEF loadMerge, Merges
  <2>7. QED
    BY <2>2, <2>5, <2>6
<1>5. ASSUME loadError
      PROVE  UNCHANGED <<memory, object, revived>>
  BY <1>5 DEF loadError
<1>6. back \in SUBSET Early
  OBVIOUS
<1>7. QED
  BY <1>1, <1>2, <1>3, <1>4, <1>5, <1>6 DEF Queued, Condemned, Early, Store!Load

\* A restart.
LEMMA StoreRestart ==
    ASSUME TypeOK, TypeOK', crash
    PROVE  Store!Restart
<1>1. Queued' = {}
  BY DEF crash, Queued
<1>2. Condemned' = {} /\ Early' = {} /\ revived' = {}
  BY DEF crash, Condemned, Early, InProgress
<1>3. /\ \A j \in Journeys : row'[j] \in {row[j]} \cup flight[j]
      /\ row' = [j \in Journeys |-> row'[j]]
  BY DEF crash
<1>4. /\ memory' = {}
      /\ ~(server' \in {"up", "blind"})
      /\ flight' = [j \in Journeys |-> {}]
      /\ object' = [j \in Journeys |-> Fresh]
      /\ UNCHANGED used
  BY DEF crash
<1>5. QED
  BY <1>1, <1>2, <1>3, <1>4 DEF Queued, Condemned, Early, Store!Restart

\* Every step of the store is a step of the write-behind store, or not seen.
LEMMA StoreStep ==
    ASSUME IInv, IInv', [Next]_vars
    PROVE  [Store!Next]_(Store!vars)
<1> SUFFICES Store!Next \/ UNCHANGED Store!vars
  OBVIOUS
<1> TypeOK /\ TypeOK' /\ OneSave /\ OrphansRevived /\ LoadingQuiet
  BY DEF IInv
<1>1. CASE UNCHANGED vars
  BY <1>1 DEF vars, Store!vars
<1>2. ASSUME NEW j \in Journeys, NEW c \in ChildTables, saveChild(j, c)
      PROVE  UNCHANGED Store!vars
  BY <1>2 DEF saveChild, Store!vars
<1>3. ASSUME NEW j \in Journeys, Request(j)
      PROVE  Store!Create(j) \/ Store!Update(j) \/ UNCHANGED Store!vars
  BY <1>2, <1>3, RequestShape, StoreCreate, StoreUpdate
<1>4. ASSUME NEW j \in Journeys, Chain(j)
      PROVE  Store!Begin(j) \/ Store!Settle(j)
  BY <1>4, StoreBegin, StoreSettle DEF Chain
<1>5. ASSUME NEW j \in Journeys, Delete(j)
      PROVE  Store!Delete(j) \/ Store!Answer(j) \/ UNCHANGED Store!vars
  BY <1>5, StoreDelete, StoreStatement, StoreAnswer DEF Delete
<1>6. CASE loadRead
  BY <1>6 DEF loadRead, Store!vars
<1>7. CASE Load
  BY <1>6, <1>7, StoreLoad DEF Load, Store!Next
<1>8. CASE crash
  BY <1>8, StoreRestart DEF Store!Next
<1>9. QED
  BY <1>1, <1>3, <1>4, <1>5, <1>7, <1>8 DEF Next, Store!Next

\* The map, the chains, the three statements of a delete and the two halves of
\* the reload behave as a write-behind store.
THEOREM StoreImplementsWriteBehind == Spec => ImplementsWriteBehind
  BY InductiveInvariant, StoreInit, StoreStep, PTL
  DEF Spec, ImplementsWriteBehind, Store!Spec

\* A step of the write-behind store leaves what has departed alone.
LEMMA DepartedStep ==
    ASSUME TypeOK, [Store!Next]_(Store!vars),
           NEW j \in Journeys, Store!Departed(j)
    PROVE  Store!Departed(j)'
<1>0. flight \in [Journeys -> SUBSET Content] /\ DOMAIN row = Journeys
  BY DEF TypeOK
<1> USE DEF Store!Departed
<1>1. CASE UNCHANGED Store!vars
  BY <1>1 DEF Store!vars
<1>2. ASSUME NEW k \in Journeys, Store!Create(k)
      PROVE  Store!Departed(j)'
  BY <1>2 DEF Store!Create
<1>3. ASSUME NEW k \in Journeys, Store!Update(k)
      PROVE  Store!Departed(j)'
  BY <1>3 DEF Store!Update
<1>4. ASSUME NEW k \in Journeys, Store!Begin(k)
      PROVE  Store!Departed(j)'
  BY <1>4 DEF Store!Begin
<1>5. ASSUME NEW k \in Journeys, Store!Settle(k)
      PROVE  Store!Departed(j)'
  <2>1. row'[j] = None /\ flight'[j] = {}
    BY <1>0, <1>5 DEF Store!Settle
  <2>2. QED
    BY <1>5, <2>1 DEF Store!Settle
<1>6. ASSUME NEW k \in Journeys, Store!Delete(k)
      PROVE  Store!Departed(j)'
  BY <1>6 DEF Store!Delete
<1>7. ASSUME NEW k \in Journeys, Store!Answer(k)
      PROVE  Store!Departed(j)'
  <2>1. row'[j] = None
    BY <1>0, <1>7 DEF Store!Answer
  <2>2. QED
    BY <1>7, <2>1 DEF Store!Answer
<1>8. CASE Store!Restart
  BY <1>8 DEF Store!Restart
<1>9. CASE Store!Load
  BY <1>9 DEF Store!Load
<1>10. QED
  BY <1>1, <1>2, <1>3, <1>4, <1>5, <1>6, <1>7, <1>8, <1>9 DEF Store!Next

\* However its delete ended, a journey that has left both stores with nothing
\* behind it never comes back.
THEOREM DeparturesHold == Spec => DeparturesAreFinal
<1> DEFINE Final == \A j \in Journeys : Store!Departed(j) => Store!Departed(j)'
<1>1. TypeOK /\ [Store!Next]_(Store!vars) => [Final]_(Store!vars)
  BY DepartedStep
<1>2. QED
  BY <1>1, TypeCorrect, StoreImplementsWriteBehind, PTL
  DEF ImplementsWriteBehind, DeparturesAreFinal, Store!Spec,
      Store!DeparturesAreFinal
===============================================================================
