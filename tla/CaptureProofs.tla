----------------------------- MODULE CaptureProofs -----------------------------
(***************************************************************************)
(* Captures are accounted for, evidence advances and overdue captures      *)
(* settle, for any criteria, captures and page loads.                      *)
(*                                                                         *)
(* A page works on copies of the journey's fields for many steps.  What    *)
(* keeps the copies good is that, for an undisturbed criterion, the page   *)
(* is the only one loading and the criterion has either not been dealt     *)
(* with, and reads the same in the copies as in the journey, or has been,  *)
(* and is accounted for in the copies.                                     *)
(***************************************************************************)
EXTENDS Capture, TLAPS

\* An undisturbed criterion's mark is that of its last capture.
MarksAreLatest ==
    \A a \in ACs \ disturbed : journey.inProgress[a] \in {None, latest[a]}

\* Pages that load at the same time disturb every criterion.
PagesAlone ==
    disturbed = ACs \/ \A k, l \in Loading : k = l

\* Copies n have not dealt with criterion a.
Untouched(n, a) ==
    /\ n.inProgress[a] = journey.inProgress[a]
    /\ n.failed[a] = journey.failed[a]

\* They have dealt with it.
Settled(n, a) ==
    /\ n.inProgress[a] = None
    /\ \/ a \in n.evidence /\ repo[a] = latest[a]
       \/ n.failed[a] = latest[a]

CopyGood(n, a) ==
    /\ a \in journey.evidence => a \in n.evidence
    /\ Untouched(n, a) \/ Settled(n, a)

CopiesGood ==
    \A l \in Loading, a \in ACs \ disturbed : CopyGood(load[l].next, a)

\* A page that commits a group has committed what it need not commit any more.
CommitsGood ==
    \A l \in Loading : load[l].at = "commit" =>
        /\ load[l].group \in Dispatches
        /\ load[l].todo \subseteq GroupAcIds(l, load[l].group)
        /\ \A a \in GroupAcIds(l, load[l].group) \ (load[l].todo \cup disturbed) :
              a \in load[l].next.evidence /\ repo[a] = load[l].group

Accounts ==
    /\ CaptureAccounted
    /\ MarksAreLatest
    /\ PagesAlone
    /\ CopiesGood
    /\ CommitsGood

\* A capture whose window has passed was marked; a load's overdue captures are
\* over, and are cleared in its copies once their group has been left.
OverdueCleared ==
    /\ \A d \in late : request[d] = "marked"
    /\ \A l \in Loading : \A d \in load[l].overdue :
          /\ d \in late /\ run[d] = "gone"
          /\ load[l].at = "commit" => load[l].group # d
          /\ d \notin load[l].groups => \A a \in ACs : load[l].next.inProgress[a] # d

IInv == TypeOK /\ Accounts /\ OverdueCleared

(***************************************************************************)
(* Types.                                                                  *)
(***************************************************************************)

LEMMA IdleTyped == IdleLoad \in LoadState /\ NoFields \in Fields /\ IdleLoad.at = "idle"
  BY DEF IdleLoad, NoFields, NoCapture, LoadState, Fields, Dispatch

LEMMA LoadTyped ==
    ASSUME TypeOK, NEW l \in Loads
    PROVE  /\ load[l] \in LoadState
           /\ load[l].next \in Fields
           /\ load[l].groups \subseteq Dispatches
  BY DEF TypeOK, LoadState

LEMMA CopiesTyped ==
    ASSUME TypeOK, NEW l \in Loads, NEW d \in Dispatches
    PROVE  TimedOut(l, d) \in Fields /\ Finalised(l, d) \in Fields
  BY LoadTyped DEF TimedOut, Finalised, Cleared, Fields, Dispatch

LEMMA LeaveGroupTyped ==
    ASSUME TypeOK, NEW l \in Loads, NEW d, NEW r \in {"unasked", "connected", "none"},
           NEW n \in Fields, leaveGroup(l, d, r, n)
    PROVE  journey' \in Fields /\ load' \in [Loads -> LoadState]
<1>1. CASE load[l].groups \ {d} = {}
  BY <1>1, IdleTyped DEF leaveGroup, TypeOK
<1>2. CASE load[l].groups \ {d} # {}
  <2> DEFINE m == [load[l] EXCEPT !.at = "check", !.groups = load[l].groups \ {d},
                                  !.group = None, !.repo = r, !.next = n]
  <2>1. m \in LoadState
    BY LoadTyped DEF LoadState, Dispatch
  <2>2. load' = [load EXCEPT ![l] = m] /\ journey' = journey
    BY <1>2 DEF leaveGroup, TypeOK
  <2>3. QED
    BY <2>1, <2>2 DEF TypeOK
<1>3. QED
  BY <1>1, <1>2

LEMMA TypeInit == Init => TypeOK
  BY IdleTyped DEF Init, TypeOK, NoFields, NoCapture, Fields, Dispatch

LEMMA TypeStep == TypeOK /\ [Next]_vars => TypeOK'
<1> SUFFICES ASSUME TypeOK, [Next]_vars
             PROVE  TypeOK'
  OBVIOUS
<1> USE NoneAssumption
<1>1. ASSUME NEW d \in Dispatches, NEW a \in ACs, handlePostCaptureTrigger(d, a)
      PROVE  TypeOK'
  BY <1>1 DEF TypeOK, handlePostCaptureTrigger, ask, ghostVars
<1>2. ASSUME NEW d \in Dispatches, handlePostCaptureAll(d)
      PROVE  TypeOK'
  BY <1>2 DEF TypeOK, handlePostCaptureAll, ask, ghostVars
<1>3. ASSUME NEW d \in Dispatches, requestFails(d)
      PROVE  TypeOK'
  BY <1>3 DEF TypeOK, requestFails, releaseLock, ghostVars
<1>4. ASSUME NEW d \in Dispatches, markInProgress(d)
      PROVE  TypeOK'
  <2>1. journey' \in Fields
    BY <1>4 DEF TypeOK, markInProgress, Fields, Dispatch
  <2>2. lock' \in {None} \cup {e \in Dispatches : request'[e] = "asked"}
    BY <1>4 DEF TypeOK, markInProgress, releaseLock
  <2>3. latest' \in [ACs -> Dispatch] /\ disturbed' \in SUBSET ACs
    BY <1>4 DEF TypeOK, markInProgress, Dispatch
  <2>4. QED
    BY <1>4, <2>1, <2>2, <2>3 DEF TypeOK, markInProgress
<1>5. ASSUME NEW d \in Dispatches, upload(d) \/ die(d) \/ expire(d) \/ windowPasses(d)
      PROVE  TypeOK'
  BY <1>5 DEF TypeOK, upload, die, expire, windowPasses, requestVars, ghostVars
<1>6. ASSUME NEW l \in Loads, startLoad(l)
      PROVE  TypeOK'
  <2> DEFINE m == [IdleLoad EXCEPT !.at = "check",
                                   !.groups = {journey.inProgress[a] : a \in ACs} \ {None},
                                   !.next = journey,
                                   !.overdue = {d \in late : run[d] = "gone"}]
  <2>1. {journey.inProgress[a] : a \in ACs} \ {None} \subseteq Dispatches
    BY DEF TypeOK, Fields, Dispatch
  <2>2. m \in LoadState
    BY <2>1, IdleTyped DEF TypeOK, LoadState, IdleLoad
  <2>3. load' \in [Loads -> LoadState]
    BY <1>6, <2>2 DEF TypeOK, startLoad
  <2>4. QED
    BY <1>6, <2>3 DEF TypeOK, startLoad, requestVars
<1>7. ASSUME NEW l \in Loads, notFound(l)
      PROVE  TypeOK'
  <2>1. PICK d \in load[l].groups :
           leaveGroup(l, d, load[l].repo, IF d \in late THEN TimedOut(l, d) ELSE load[l].next)
    BY <1>7 DEF notFound
  <2>2. (IF d \in late THEN TimedOut(l, d) ELSE load[l].next) \in Fields
    BY LoadTyped, CopiesTyped
  <2>3. load[l].repo \in {"unasked", "connected", "none"}
    BY DEF TypeOK, LoadState
  <2>4. journey' \in Fields /\ load' \in [Loads -> LoadState]
    BY <2>1, <2>2, <2>3, LeaveGroupTyped
  <2>5. QED
    BY <1>7, <2>4 DEF TypeOK, notFound, requestVars, ghostVars
<1>8. ASSUME NEW l \in Loads, collect(l)
      PROVE  TypeOK'
  <2>1. PICK d \in load[l].groups :
           \/ /\ load' = [load EXCEPT ![l].at = "commit", ![l].group = d,
                                       ![l].repo = "connected", ![l].todo = GroupAcIds(l, d)]
              /\ UNCHANGED journey
           \/ leaveGroup(l, d, "none", load[l].next)
    BY <1>8 DEF collect
  <2> DEFINE m == [load[l] EXCEPT !.at = "commit", !.group = d, !.repo = "connected",
                                  !.todo = GroupAcIds(l, d)]
  <2>2. m \in LoadState
    BY LoadTyped DEF LoadState, Dispatch, GroupAcIds
  <2>3. journey' \in Fields /\ load' \in [Loads -> LoadState]
    <3>1. CASE leaveGroup(l, d, "none", load[l].next)
      BY <3>1, LeaveGroupTyped, LoadTyped
    <3>2. CASE load' = [load EXCEPT ![l] = m] /\ UNCHANGED journey
      BY <3>2, <2>2 DEF TypeOK
    <3>3. QED
      BY <2>1, <3>1, <3>2 DEF TypeOK
  <2>4. QED
    BY <1>8, <2>3 DEF TypeOK, collect, requestVars, ghostVars
<1>9. ASSUME NEW l \in Loads, downloadFails(l)
      PROVE  TypeOK'
  <2>1. PICK d \in load[l].groups :
           \/ /\ leaveGroup(l, d, "connected", Finalised(l, d))
              /\ disturbed' = disturbed \cup GroupAcIds(l, d)
           \/ /\ leaveGroup(l, d, load[l].repo, load[l].next)
              /\ UNCHANGED disturbed
    BY <1>9 DEF downloadFails
  <2>2. load[l].repo \in {"unasked", "connected", "none"}
    BY DEF TypeOK, LoadState
  <2>3. journey' \in Fields /\ load' \in [Loads -> LoadState]
    BY <2>1, <2>2, LoadTyped, CopiesTyped, LeaveGroupTyped
  <2>4. disturbed' \subseteq ACs
    BY <2>1 DEF TypeOK, GroupAcIds
  <2>5. QED
    BY <1>9, <2>3, <2>4 DEF TypeOK, downloadFails, requestVars
<1>10. ASSUME NEW l \in Loads, commitScreenshot(l)
       PROVE  TypeOK'
  <2>1. PICK a \in load[l].todo :
           /\ repo' = [repo EXCEPT ![a] = load[l].group]
           /\ load' = [load EXCEPT ![l].todo = load[l].todo \ {a}, ![l].next = Committed(l, a)]
    BY <1>10 DEF commitScreenshot
  <2> DEFINE m == [load[l] EXCEPT !.todo = load[l].todo \ {a}, !.next = Committed(l, a)]
  <2>2. a \in ACs /\ load[l].group \in Dispatch
    BY DEF TypeOK, LoadState
  <2>3. Committed(l, a) \in Fields
    BY <2>2, LoadTyped DEF Fields, Committed
  <2>4. m \in LoadState
    BY <2>3, LoadTyped DEF LoadState
  <2>5. load' = [load EXCEPT ![l] = m]
    BY <2>1 DEF TypeOK
  <2>6. load' \in [Loads -> LoadState] /\ repo' \in [ACs -> Dispatch]
    BY <2>1, <2>2, <2>4, <2>5 DEF TypeOK
  <2>7. QED
    BY <1>10, <2>6 DEF TypeOK, commitScreenshot, requestVars, ghostVars
<1>11. ASSUME NEW l \in Loads, commitVideo(l)
       PROVE  TypeOK'
  <2>1. Finalised(l, load[l].group) \in Fields
    BY LoadTyped DEF Finalised, Cleared, Fields, Dispatch
  <2>2. journey' \in Fields /\ load' \in [Loads -> LoadState]
    BY <1>11, <2>1, LeaveGroupTyped DEF commitVideo
  <2>3. QED
    BY <1>11, <2>2 DEF TypeOK, commitVideo, requestVars, ghostVars
<1>12. ASSUME NEW l \in Loads, commitFails(l)
       PROVE  TypeOK'
  BY <1>12, IdleTyped DEF TypeOK, commitFails, requestVars, ghostVars
<1>13. ASSUME restart
       PROVE  TypeOK'
  <2>1. journey' \in Fields
    BY <1>13 DEF TypeOK, restart, NoCapture, Fields, Dispatch
  <2>2. load' \in [Loads -> LoadState]
    BY <1>13, IdleTyped DEF restart
  <2>3. QED
    BY <1>13, <2>1, <2>2 DEF TypeOK, restart
<1>14. CASE UNCHANGED vars
  BY <1>14 DEF TypeOK, vars, requestVars, ghostVars
<1>15. QED
  BY <1>1, <1>2, <1>3, <1>4, <1>5, <1>6, <1>7, <1>8, <1>9, <1>10, <1>11, <1>12, <1>13, <1>14
     DEF Next, requestStep, loadStep

\* The variables have their types, and a capture-all's lock is held by a request
\* that is under way (playback-evidence.js:1301-1419, capture-all-lock.js:10-33).
THEOREM TypeCorrect == Spec => []TypeOK
  BY TypeInit, TypeStep, PTL DEF Spec

(***************************************************************************)
(* Accounts.                                                               *)
(***************************************************************************)

LEMMA LoadingAlone ==
    ASSUME Accounts, NEW a \in ACs \ disturbed, NEW k \in Loading, NEW l \in Loading
    PROVE  k = l
  BY DEF Accounts, PagesAlone

\* An undisturbed criterion that a page has in a group has its last capture there.
LEMMA GroupIsLatest ==
    ASSUME Accounts, NoneAssumption, NEW l \in Loading, NEW d \in Dispatches,
           NEW a \in GroupAcIds(l, d) \ disturbed
    PROVE  journey.inProgress[a] = d /\ latest[a] = d
<1>1. a \in ACs \ disturbed /\ load[l].next.inProgress[a] = d /\ d # None
  BY DEF GroupAcIds, NoneAssumption
<1>2. Untouched(load[l].next, a)
  BY <1>1 DEF Accounts, CopiesGood, CopyGood, Settled
<1>3. QED
  BY <1>1, <1>2 DEF Accounts, MarksAreLatest, Untouched

LEMMA TimedOutGood ==
    ASSUME TypeOK, Accounts, NEW l \in Loading, NEW d \in Dispatches,
           NEW a \in ACs \ disturbed
    PROVE  CopyGood(TimedOut(l, d), a)
<1> DEFINE n == TimedOut(l, d)
<1>1. load[l].next \in Fields
  BY LoadTyped DEF Loading
<1>2. /\ n.evidence = load[l].next.evidence
      /\ n.inProgress[a] = IF a \in GroupAcIds(l, d) THEN None ELSE load[l].next.inProgress[a]
      /\ n.failed[a] = IF a \in GroupAcIds(l, d) THEN d ELSE load[l].next.failed[a]
  BY <1>1 DEF TimedOut, Cleared, Fields
<1>3. CopyGood(load[l].next, a)
  BY DEF Accounts, CopiesGood
<1>4. CASE a \in GroupAcIds(l, d)
  BY <1>2, <1>3, <1>4, GroupIsLatest, NoneAssumption DEF CopyGood, Settled
<1>5. CASE a \notin GroupAcIds(l, d)
  BY <1>2, <1>3, <1>5 DEF CopyGood, Settled, Untouched
<1>6. QED
  BY <1>4, <1>5

LEMMA FinalisedGood ==
    ASSUME TypeOK, Accounts, NEW l \in Loading, NEW d \in Dispatches,
           NEW a \in ACs \ disturbed,
           a \in GroupAcIds(l, d) => a \in load[l].next.evidence /\ repo[a] = d
    PROVE  CopyGood(Finalised(l, d), a)
<1> DEFINE n == Finalised(l, d)
<1>1. load[l].next \in Fields
  BY LoadTyped DEF Loading
<1>2. /\ n.evidence = load[l].next.evidence
      /\ n.inProgress[a] = IF a \in GroupAcIds(l, d) THEN None ELSE load[l].next.inProgress[a]
      /\ n.failed[a] = IF a \in GroupAcIds(l, d) THEN None ELSE load[l].next.failed[a]
  BY <1>1 DEF Finalised, Cleared, Fields
<1>3. CopyGood(load[l].next, a)
  BY DEF Accounts, CopiesGood
<1>4. CASE a \in GroupAcIds(l, d)
  BY <1>2, <1>3, <1>4, GroupIsLatest, NoneAssumption DEF CopyGood, Settled
<1>5. CASE a \notin GroupAcIds(l, d)
  BY <1>2, <1>3, <1>5 DEF CopyGood, Settled, Untouched
<1>6. QED
  BY <1>4, <1>5

\* Leaving a group with good copies.
LEMMA LeaveGroupKeeps ==
    ASSUME TypeOK, Accounts, NEW l \in Loading, NEW d, NEW r, NEW n \in Fields,
           leaveGroup(l, d, r, n), repo' = repo, latest' = latest,
           disturbed \subseteq disturbed', disturbed' \subseteq ACs,
           \A a \in ACs \ disturbed' : CopyGood(n, a)
    PROVE  Accounts'
<1> USE DEF Loading
<1>0. \A k \in Loads : k # l => load'[k] = load[k]
  BY DEF leaveGroup, TypeOK
<1>1. CASE load[l].groups \ {d} = {}
  <2>1. journey' = n /\ load'[l].at = "idle"
    BY <1>1, IdleTyped DEF leaveGroup, TypeOK
  <2>2. Loading' = Loading \ {l}
    BY <1>0, <2>1
  <2>3. CaptureAccounted' /\ MarksAreLatest'
    BY <2>1 DEF Accounts, CaptureAccounted, MarksAreLatest, CopyGood, Untouched, Settled
  <2>4. PagesAlone'
    BY <2>2 DEF Accounts, PagesAlone
  <2>5. CopiesGood'
    BY <2>2, LoadingAlone DEF CopiesGood
  <2>6. CommitsGood'
    BY <1>0, <2>2 DEF Accounts, CommitsGood, GroupAcIds
  <2>7. QED
    BY <2>3, <2>4, <2>5, <2>6 DEF Accounts
<1>2. CASE load[l].groups \ {d} # {}
  <2>1. journey' = journey /\ load'[l].at = "check" /\ load'[l].next = n
    BY <1>2, LoadTyped DEF leaveGroup, TypeOK, LoadState
  <2>2. Loading' = Loading
    BY <1>0, <2>1
  <2>3. CaptureAccounted' /\ MarksAreLatest'
    BY <2>1 DEF Accounts, CaptureAccounted, MarksAreLatest
  <2>4. PagesAlone'
    BY <2>2 DEF Accounts, PagesAlone
  <2>5. ASSUME NEW a \in ACs \ disturbed'
        PROVE  CopyGood(n, a)'
    BY <2>1, <2>5 DEF CopyGood, Untouched, Settled
  <2>6. CopiesGood'
    BY <2>1, <2>2, <2>5, LoadingAlone DEF CopiesGood
  <2>7. CommitsGood'
    BY <1>0, <2>1, <2>2 DEF Accounts, CommitsGood, GroupAcIds
  <2>8. QED
    BY <2>3, <2>4, <2>6, <2>7 DEF Accounts
<1>3. QED
  BY <1>1, <1>2

LEMMA AccountsUnchanged ==
    ASSUME Accounts, UNCHANGED <<journey, load, repo, latest, disturbed>>
    PROVE  Accounts'
  BY DEF Accounts, CaptureAccounted, MarksAreLatest, PagesAlone, CopiesGood, CopyGood,
         Untouched, Settled, CommitsGood, GroupAcIds, Loading

LEMMA MarkInProgressAccounts ==
    ASSUME TypeOK, Accounts, NEW d \in Dispatches, markInProgress(d)
    PROVE  Accounts'
<1> USE DEF markInProgress
<1>1. Loading' = Loading
  BY DEF Loading
<1>2. /\ journey'.evidence = journey.evidence /\ journey'.failed = journey.failed
      /\ \A a \in ACs : /\ journey'.inProgress[a] = IF a \in acIds[d] THEN d
                                                   ELSE journey.inProgress[a]
                        /\ latest'[a] = IF a \in acIds[d] THEN d ELSE latest[a]
  BY DEF TypeOK, Fields
<1>3. CaptureAccounted' /\ MarksAreLatest'
  BY <1>2 DEF Accounts, CaptureAccounted, MarksAreLatest
<1>4. CASE Loading = {}
  BY <1>1, <1>3, <1>4 DEF Accounts, PagesAlone, CopiesGood, CommitsGood
<1>5. CASE Loading # {}
  <2>1. disturbed' = disturbed \cup acIds[d] /\ disturbed' \subseteq ACs
    BY <1>5 DEF TypeOK
  <2>2. PagesAlone'
    BY <1>1, <2>1 DEF Accounts, PagesAlone
  <2>3. CopiesGood'
    BY <1>1, <1>2, <2>1 DEF Accounts, CopiesGood, CopyGood, Untouched, Settled
  <2>4. CommitsGood'
    BY <1>1, <2>1 DEF Accounts, CommitsGood, GroupAcIds
  <2>5. QED
    BY <1>3, <2>2, <2>3, <2>4 DEF Accounts
<1>6. QED
  BY <1>4, <1>5

LEMMA StartLoadAccounts ==
    ASSUME TypeOK, Accounts, NEW l \in Loads, startLoad(l)
    PROVE  Accounts'
<1> USE DEF startLoad
<1>1. /\ \A k \in Loads : k # l => load'[k] = load[k]
      /\ load'[l].at = "check" /\ load'[l].next = journey
  BY DEF TypeOK, IdleLoad
<1>2. Loading' = Loading \cup {l} /\ l \notin Loading
  BY <1>1 DEF Loading
<1>3. CASE Loading = {}
  <2>1. CaptureAccounted' /\ MarksAreLatest' /\ PagesAlone'
    BY <1>2, <1>3 DEF Accounts, CaptureAccounted, MarksAreLatest, PagesAlone
  <2>2. CopiesGood' /\ CommitsGood'
    BY <1>1, <1>2, <1>3 DEF CopiesGood, CopyGood, Untouched, CommitsGood
  <2>3. QED
    BY <2>1, <2>2 DEF Accounts
<1>4. CASE Loading # {}
  <2>1. disturbed' = ACs
    BY <1>4
  <2>2. CaptureAccounted' /\ MarksAreLatest' /\ PagesAlone' /\ CopiesGood'
    BY <2>1 DEF CaptureAccounted, MarksAreLatest, PagesAlone, CopiesGood
  <2>3. CommitsGood'
    <3>1. disturbed \subseteq disturbed'
      BY <2>1 DEF TypeOK
    <3>2. QED
      BY <1>1, <1>2, <3>1 DEF Accounts, CommitsGood, GroupAcIds, Loading
  <2>4. QED
    BY <2>2, <2>3 DEF Accounts
<1>5. QED
  BY <1>3, <1>4

LEMMA CollectAccounts ==
    ASSUME TypeOK, Accounts, NEW l \in Loads, collect(l)
    PROVE  Accounts'
<1> USE DEF collect, ghostVars
<1>1. l \in Loading
  BY DEF Loading
<1>2. PICK d \in load[l].groups :
         \/ /\ load' = [load EXCEPT ![l].at = "commit", ![l].group = d,
                                     ![l].repo = "connected", ![l].todo = GroupAcIds(l, d)]
            /\ UNCHANGED journey
         \/ leaveGroup(l, d, "none", load[l].next)
  OBVIOUS
<1>3. CASE leaveGroup(l, d, "none", load[l].next)
  <2>1. \A a \in ACs \ disturbed' : CopyGood(load[l].next, a)
    BY <1>1 DEF Accounts, CopiesGood
  <2>2. disturbed' \subseteq ACs /\ load[l].next \in Fields
    BY LoadTyped DEF TypeOK
  <2>3. QED
    BY <1>1, <1>3, <2>1, <2>2, LeaveGroupKeeps
<1>4. CASE /\ load' = [load EXCEPT ![l].at = "commit", ![l].group = d,
                                   ![l].repo = "connected", ![l].todo = GroupAcIds(l, d)]
           /\ UNCHANGED journey
  <2>1. \A k \in Loads : k # l => load'[k] = load[k]
    BY <1>4 DEF TypeOK
  <2>2. /\ load'[l].at = "commit" /\ load'[l].group = d
        /\ load'[l].todo = GroupAcIds(l, d) /\ load'[l].next = load[l].next
    BY <1>4, LoadTyped DEF TypeOK, LoadState
  <2>3. Loading' = Loading
    BY <2>1, <2>2, <1>1 DEF Loading
  <2>4. \A k \in Loads : load'[k].next = load[k].next
    BY <2>1, <2>2
  <2>5. CaptureAccounted' /\ MarksAreLatest' /\ PagesAlone'
    BY <1>4, <2>3 DEF Accounts, CaptureAccounted, MarksAreLatest, PagesAlone
  <2>6. CopiesGood'
    <3> SUFFICES ASSUME NEW k \in Loading, NEW a \in ACs \ disturbed
                 PROVE  CopyGood(load[k].next, a)'
      BY <2>3 DEF CopiesGood
    <3>1. load'[k].next = load[k].next /\ UNCHANGED <<journey, repo, latest>>
      BY <1>4, <2>4 DEF Loading
    <3>2. CopyGood(load[k].next, a)
      BY DEF Accounts, CopiesGood
    <3>3. QED
      BY <3>1, <3>2 DEF CopyGood, Untouched, Settled
  <2>7. CommitsGood'
    <3>1. d \in Dispatches
      BY LoadTyped
    <3>2. QED
      BY <2>1, <2>2, <2>3, <3>1 DEF Accounts, CommitsGood, GroupAcIds, Loading
  <2>8. QED
    BY <2>5, <2>6, <2>7 DEF Accounts
<1>5. QED
  BY <1>2, <1>3, <1>4

LEMMA CommitScreenshotAccounts ==
    ASSUME TypeOK, Accounts, NEW l \in Loads, commitScreenshot(l)
    PROVE  Accounts' /\ \A a \in ACs \ disturbed : repo'[a] \in {repo[a], latest[a]}
<1> USE DEF commitScreenshot, ghostVars
<1>1. l \in Loading
  BY DEF Loading
<1>2. PICK b \in load[l].todo :
         /\ repo' = [repo EXCEPT ![b] = load[l].group]
         /\ load' = [load EXCEPT ![l].todo = load[l].todo \ {b}, ![l].next = Committed(l, b)]
  OBVIOUS
<1>3. \A k \in Loads : k # l => load'[k] = load[k]
  BY <1>2 DEF TypeOK
<1>4. /\ load'[l].at = "commit" /\ load'[l].group = load[l].group
      /\ load'[l].todo = load[l].todo \ {b} /\ load'[l].next = Committed(l, b)
  BY <1>2, LoadTyped DEF TypeOK, LoadState
<1>5. Loading' = Loading
  BY <1>1, <1>3, <1>4 DEF Loading
<1>6. /\ Committed(l, b).inProgress = load[l].next.inProgress
      /\ Committed(l, b).failed = load[l].next.failed
      /\ Committed(l, b).evidence = load[l].next.evidence \cup {b}
  BY LoadTyped DEF Committed, Fields
<1>7. load[l].group \in Dispatches /\ b \in GroupAcIds(l, load[l].group)
  BY <1>1, <1>2 DEF Accounts, CommitsGood
<1>8. b \in ACs /\ \A a \in ACs : repo'[a] = IF a = b THEN load[l].group ELSE repo[a]
  BY <1>2, <1>7 DEF TypeOK, GroupAcIds
<1>9. b \notin disturbed => latest[b] = load[l].group /\ journey.inProgress[b] = load[l].group
  BY <1>1, <1>7, GroupIsLatest, NoneAssumption
<1>10. CaptureAccounted' /\ MarksAreLatest' /\ PagesAlone'
  BY <1>5, <1>8, <1>9 DEF Accounts, CaptureAccounted, MarksAreLatest, PagesAlone
<1>11. CopiesGood'
  <2> SUFFICES ASSUME NEW k \in Loading, NEW a \in ACs \ disturbed
               PROVE  CopyGood(load[k].next, a)'
    BY <1>5 DEF CopiesGood
  <2>1. k = l
    BY <1>1, LoadingAlone
  <2>2. CopyGood(load[l].next, a)
    BY <1>1 DEF Accounts, CopiesGood
  <2>3. QED
    BY <1>4, <1>6, <1>8, <1>9, <2>1, <2>2 DEF CopyGood, Untouched, Settled
<1>12. CommitsGood'
  <2> SUFFICES ASSUME NEW k \in Loading, load[k].at = "commit"
               PROVE  /\ load'[k].group \in Dispatches
                      /\ load'[k].todo \subseteq GroupAcIds(k, load[k].group)'
                      /\ \A a \in GroupAcIds(k, load[k].group)' \ (load'[k].todo \cup disturbed) :
                            a \in load'[k].next.evidence /\ repo'[a] = load'[k].group
    <3>1. \A k \in Loading : load'[k].at = "commit" => load[k].at = "commit"
      BY <1>3, <1>4 DEF Loading
    <3>2. QED
      BY <1>5, <3>1 DEF CommitsGood
  <2>1. GroupAcIds(k, load[k].group)' = GroupAcIds(k, load[k].group)
    <3>1. load'[k].group = load[k].group
      BY <1>3, <1>4 DEF Loading
    <3>2. load'[k].next.inProgress = load[k].next.inProgress
      <4>1. CASE k = l
        BY <1>4, <1>6, <4>1
      <4>2. CASE k # l
        BY <1>3, <4>2 DEF Loading
      <4>3. QED
        BY <4>1, <4>2
    <3>3. QED
      BY <3>1, <3>2 DEF GroupAcIds
  <2>2. /\ load[k].group \in Dispatches
        /\ load[k].todo \subseteq GroupAcIds(k, load[k].group)
        /\ \A a \in GroupAcIds(k, load[k].group) \ (load[k].todo \cup disturbed) :
              a \in load[k].next.evidence /\ repo[a] = load[k].group
    BY DEF Accounts, CommitsGood
  <2>3. ASSUME NEW a \in GroupAcIds(k, load[k].group) \ (load'[k].todo \cup disturbed)
        PROVE  a \in load'[k].next.evidence /\ repo'[a] = load'[k].group
    <3>1. a \in ACs \ disturbed
      BY DEF GroupAcIds
    <3>2. k = l
      BY <1>1, <3>1, LoadingAlone
    <3>3. QED
      BY <1>4, <1>6, <1>8, <2>2, <2>3, <3>1, <3>2
  <2>4. load'[k].group = load[k].group /\ load'[k].todo \subseteq load[k].todo
    BY <1>3, <1>4 DEF Loading
  <2>5. QED
    BY <2>1, <2>2, <2>3, <2>4
<1>13. \A a \in ACs \ disturbed : repo'[a] \in {repo[a], latest[a]}
  BY <1>8, <1>9
<1>14. QED
  BY <1>10, <1>11, <1>12, <1>13 DEF Accounts

LEMMA LeavingAccounts ==
    ASSUME TypeOK, Accounts, NEW l \in Loads, notFound(l) \/ downloadFails(l) \/ commitVideo(l)
    PROVE  Accounts'
<1>1. l \in Loading /\ load[l].next \in Fields
  BY LoadTyped DEF Loading, notFound, downloadFails, commitVideo
<1>2. \A a \in ACs \ disturbed : CopyGood(load[l].next, a)
  BY <1>1 DEF Accounts, CopiesGood
<1>3. CASE notFound(l)
  <2>1. PICK d \in load[l].groups :
           leaveGroup(l, d, load[l].repo, IF d \in late THEN TimedOut(l, d) ELSE load[l].next)
    BY <1>3 DEF notFound
  <2> DEFINE n == IF d \in late THEN TimedOut(l, d) ELSE load[l].next
  <2>2. d \in Dispatches
    BY LoadTyped
  <2>3. n \in Fields
    BY <1>1, <2>2, CopiesTyped
  <2>4. \A a \in ACs \ disturbed : CopyGood(n, a)
    BY <1>1, <1>2, <2>2, TimedOutGood
  <2>5. repo' = repo /\ latest' = latest /\ disturbed' = disturbed /\ disturbed \subseteq ACs
    BY <1>3 DEF notFound, ghostVars, TypeOK
  <2> HIDE DEF n
  <2>6. QED
    BY <1>1, <2>1, <2>3, <2>4, <2>5, LeaveGroupKeeps DEF n
<1>4. CASE downloadFails(l)
  <2>1. PICK d \in load[l].groups :
           \/ /\ leaveGroup(l, d, "connected", Finalised(l, d))
              /\ disturbed' = disturbed \cup GroupAcIds(l, d)
           \/ /\ leaveGroup(l, d, load[l].repo, load[l].next)
              /\ UNCHANGED disturbed
    BY <1>4 DEF downloadFails
  <2>2. d \in Dispatches
    BY LoadTyped
  <2>3. repo' = repo /\ latest' = latest
    BY <1>4 DEF downloadFails
  <2>4. CASE /\ leaveGroup(l, d, load[l].repo, load[l].next)
             /\ UNCHANGED disturbed
    <3>1. disturbed' = disturbed /\ disturbed \subseteq ACs
      BY <2>4 DEF TypeOK
    <3>2. QED
      BY <1>1, <1>2, <2>3, <2>4, <3>1, LeaveGroupKeeps
  <2>5. CASE /\ leaveGroup(l, d, "connected", Finalised(l, d))
             /\ disturbed' = disturbed \cup GroupAcIds(l, d)
    <3>1. disturbed \subseteq disturbed' /\ disturbed' \subseteq ACs
      BY <2>5 DEF TypeOK, GroupAcIds
    <3>2. \A a \in ACs \ disturbed' : CopyGood(Finalised(l, d), a)
      BY <1>1, <2>2, <2>5, FinalisedGood
    <3>3. Finalised(l, d) \in Fields
      BY <2>2, CopiesTyped
    <3>4. QED
      BY <1>1, <2>3, <2>5, <3>1, <3>2, <3>3, LeaveGroupKeeps
  <2>6. QED
    BY <2>1, <2>4, <2>5
<1>5. CASE commitVideo(l)
  <2> DEFINE d == load[l].group
  <2>1. d \in Dispatches /\ \A a \in GroupAcIds(l, d) \ disturbed :
                                a \in load[l].next.evidence /\ repo[a] = d
    BY <1>1, <1>5 DEF commitVideo, Accounts, CommitsGood
  <2>2. \A a \in ACs \ disturbed : CopyGood(Finalised(l, d), a)
    BY <1>1, <2>1, FinalisedGood
  <2>3. Finalised(l, d) \in Fields
    BY <2>1, CopiesTyped
  <2>4. /\ leaveGroup(l, d, "connected", Finalised(l, d))
        /\ repo' = repo /\ latest' = latest /\ disturbed' = disturbed /\ disturbed \subseteq ACs
    BY <1>5 DEF commitVideo, ghostVars, TypeOK
  <2>5. QED
    BY <1>1, <2>2, <2>3, <2>4, LeaveGroupKeeps
<1>6. QED
  BY <1>3, <1>4, <1>5

LEMMA CommitFailsAccounts ==
    ASSUME TypeOK, Accounts, NEW l \in Loads, commitFails(l)
    PROVE  Accounts'
<1> USE DEF commitFails, ghostVars
<1>1. Loading' = Loading \ {l} /\ \A k \in Loading' : load'[k] = load[k]
  BY IdleTyped DEF TypeOK, Loading
<1>2. QED
  BY <1>1 DEF Accounts, CaptureAccounted, MarksAreLatest, PagesAlone, CopiesGood, CopyGood,
              Untouched, Settled, CommitsGood, GroupAcIds

LEMMA RestartAccounts ==
    ASSUME TypeOK, Accounts, restart
    PROVE  Accounts'
<1> USE DEF restart
<1>1. Loading' = {}
  BY IdleTyped DEF Loading
<1>2. /\ journey'.evidence = journey.evidence /\ journey'.failed = journey.failed
      /\ \A a \in ACs : journey'.inProgress[a] = None
  BY DEF TypeOK, Fields, NoCapture
<1>3. CaptureAccounted' /\ MarksAreLatest'
  BY <1>2 DEF Accounts, CaptureAccounted, MarksAreLatest
<1>4. QED
  BY <1>1, <1>3 DEF Accounts, PagesAlone, CopiesGood, CommitsGood

LEMMA AccountsInit == Init => Accounts /\ OverdueCleared
<1> SUFFICES ASSUME Init
             PROVE  Accounts /\ OverdueCleared
  OBVIOUS
<1>1. Loading = {}
  BY IdleTyped DEF Init, Loading
<1>2. QED
  BY <1>1 DEF Init, NoFields, NoCapture, Accounts, CaptureAccounted, MarksAreLatest, PagesAlone,
              CopiesGood, CommitsGood, OverdueCleared

\* A page's step but for commitScreenshot, and what leaves the pages alone.
LEMMA AccountsStep == TypeOK /\ Accounts /\ [Next]_vars => Accounts'
<1> SUFFICES ASSUME TypeOK, Accounts, [Next]_vars
             PROVE  Accounts'
  OBVIOUS
<1>1. ASSUME NEW d \in Dispatches, NEW a \in ACs, handlePostCaptureTrigger(d, a)
      PROVE  Accounts'
  BY <1>1, AccountsUnchanged DEF handlePostCaptureTrigger, ask, ghostVars
<1>2. ASSUME NEW d \in Dispatches, handlePostCaptureAll(d)
      PROVE  Accounts'
  BY <1>2, AccountsUnchanged DEF handlePostCaptureAll, ask, ghostVars
<1>3. ASSUME NEW d \in Dispatches, requestFails(d) \/ upload(d) \/ die(d) \/ expire(d)
                                     \/ windowPasses(d)
      PROVE  Accounts'
  BY <1>3, AccountsUnchanged DEF requestFails, upload, die, expire, windowPasses, ghostVars
<1>4. ASSUME NEW d \in Dispatches, markInProgress(d)
      PROVE  Accounts'
  BY <1>4, MarkInProgressAccounts
<1>5. ASSUME NEW l \in Loads, startLoad(l)
      PROVE  Accounts'
  BY <1>5, StartLoadAccounts
<1>6. ASSUME NEW l \in Loads, loadStep(l)
      PROVE  Accounts'
  BY <1>6, CollectAccounts, CommitScreenshotAccounts, LeavingAccounts, CommitFailsAccounts
     DEF loadStep
<1>7. CASE restart
  BY <1>7, RestartAccounts
<1>8. CASE UNCHANGED vars
  BY <1>8, AccountsUnchanged DEF vars, ghostVars
<1>9. QED
  BY <1>1, <1>2, <1>3, <1>4, <1>5, <1>6, <1>7, <1>8 DEF Next, requestStep

(***************************************************************************)
(* Evidence.                                                               *)
(***************************************************************************)

EvidenceStep ==
    /\ journey.evidence \ disturbed \subseteq journey'.evidence
    /\ \A a \in ACs \ disturbed : repo'[a] \in {repo[a], latest[a]}

\* A page that writes its copies back drops no evidence.
LEMMA LeaveGroupEvidence ==
    ASSUME TypeOK, Accounts, NEW l \in Loading, NEW d, NEW r, NEW n,
           n.evidence = load[l].next.evidence, leaveGroup(l, d, r, n)
    PROVE  journey.evidence \ disturbed \subseteq journey'.evidence
<1>1. journey.evidence \subseteq ACs
  BY DEF TypeOK, Fields
<1>2. journey.evidence \ disturbed \subseteq load[l].next.evidence
  BY <1>1 DEF Accounts, CopiesGood, CopyGood
<1>3. journey' = n \/ journey' = journey
  BY DEF leaveGroup
<1>4. QED
  BY <1>2, <1>3

LEMMA EvidenceKept == TypeOK /\ Accounts /\ [Next]_vars => EvidenceStep
<1> SUFFICES ASSUME TypeOK, Accounts, [Next]_vars
             PROVE  EvidenceStep
  OBVIOUS
<1>1. CASE repo' = repo /\ journey'.evidence = journey.evidence
  BY <1>1 DEF EvidenceStep
<1>2. ASSUME NEW l \in Loads, notFound(l) \/ collect(l) \/ downloadFails(l) \/ commitVideo(l)
      PROVE  EvidenceStep
  <2>1. l \in Loading /\ load[l].next \in Fields /\ repo' = repo
    BY <1>2, LoadTyped DEF Loading, notFound, collect, downloadFails, commitVideo
  <2>2. \A d : /\ TimedOut(l, d).evidence = load[l].next.evidence
               /\ Finalised(l, d).evidence = load[l].next.evidence
    BY <2>1 DEF TimedOut, Finalised, Fields
  <2>3. \/ journey' = journey
        \/ \E d, r, n : n.evidence = load[l].next.evidence /\ leaveGroup(l, d, r, n)
    <3>1. CASE notFound(l)
      <4>1. PICK d \in load[l].groups :
               leaveGroup(l, d, load[l].repo,
                          IF d \in late THEN TimedOut(l, d) ELSE load[l].next)
        BY <3>1 DEF notFound
      <4>2. CASE d \in late
        BY <2>2, <4>1, <4>2
      <4>3. CASE d \notin late
        BY <4>1, <4>3
      <4>4. QED
        BY <4>2, <4>3
    <3>2. CASE collect(l)
      BY <3>2 DEF collect
    <3>3. CASE downloadFails(l)
      <4>1. PICK d : \/ leaveGroup(l, d, "connected", Finalised(l, d))
                     \/ leaveGroup(l, d, load[l].repo, load[l].next)
        BY <3>3 DEF downloadFails
      <4>2. QED
        BY <2>2, <4>1
    <3>4. CASE commitVideo(l)
      BY <2>2, <3>4 DEF commitVideo
    <3>5. QED
      BY <1>2, <3>1, <3>2, <3>3, <3>4
  <2>4. QED
    BY <2>1, <2>3, LeaveGroupEvidence DEF EvidenceStep
<1>3. ASSUME NEW l \in Loads, commitScreenshot(l)
      PROVE  EvidenceStep
  BY <1>3, CommitScreenshotAccounts DEF EvidenceStep, commitScreenshot
<1>4. ASSUME NEW d \in Dispatches, markInProgress(d)
      PROVE  EvidenceStep
  BY <1>1, <1>4 DEF markInProgress, TypeOK, Fields
<1>5. CASE restart
  BY <1>1, <1>5 DEF restart, TypeOK, Fields
<1>6. QED
  BY <1>1, <1>2, <1>3, <1>4, <1>5
     DEF Next, requestStep, loadStep, handlePostCaptureTrigger, handlePostCaptureAll, ask,
         requestFails, upload, die, expire, windowPasses, startLoad, commitFails, vars

(***************************************************************************)
(* Overdue captures.                                                       *)
(***************************************************************************)

\* A page that ends has cleared its overdue captures.
Settles(l) ==
    /\ load[l].at # "idle" /\ load'[l].at = "idle"
    /\ load[l].at = "check" \/ journey' # journey
    => \A a \in ACs : journey'.inProgress[a] \notin load[l].overdue

SettleStep == \A l \in Loads : Settles(l)

\* What one page has to keep of OverdueCleared.
OverdueOf(l) ==
    \A d \in load[l].overdue :
        /\ d \in late /\ run[d] = "gone"
        /\ load[l].at = "commit" => load[l].group # d
        /\ d \notin load[l].groups => \A a \in ACs : load[l].next.inProgress[a] # d

LEMMA OthersOverdue ==
    ASSUME TypeOK, OverdueCleared, NEW l \in Loads,
           UNCHANGED <<request, run, late>>,
           \A k \in Loads : k # l => load'[k] = load[k],
           load'[l].at # "idle" => OverdueOf(l)',
           Settles(l)
    PROVE  OverdueCleared' /\ SettleStep
<1>1. \A k \in Loading' : k # l => k \in Loading /\ OverdueOf(k)'
  BY DEF OverdueCleared, OverdueOf, Loading, GroupAcIds
<1>2. \A k \in Loading' : OverdueOf(k)'
  BY <1>1 DEF Loading
<1>3. OverdueCleared'
  BY <1>2 DEF OverdueCleared, OverdueOf
<1>4. SettleStep
  BY DEF SettleStep, Settles
<1>5. QED
  BY <1>3, <1>4

\* The copies n have no capture the load's do not have, and none of the group d
\* if it is overdue.
ClearOf(l, d, n) ==
    /\ \A a \in ACs : n.inProgress[a] \in {None, load[l].next.inProgress[a]}
    /\ d \in load[l].overdue => \A a \in ACs : n.inProgress[a] # d

\* Leaving a group with copies that are clear of it if it is overdue.
LEMMA LeaveGroupOverdue ==
    ASSUME TypeOK, OverdueCleared, NEW l \in Loading, NEW d,
           NEW r \in {"unasked", "connected", "none"}, NEW n \in Fields,
           leaveGroup(l, d, r, n), UNCHANGED <<request, run, late>>,
           ClearOf(l, d, n)
    PROVE  OverdueCleared' /\ SettleStep
<1> USE NoneAssumption DEF ClearOf
<1>1. l \in Loads /\ OverdueOf(l) /\ load[l].overdue \subseteq Dispatches
  BY LoadTyped DEF Loading, OverdueCleared, OverdueOf, LoadState
<1>2. \A o \in load[l].overdue : o \notin load[l].groups \ {d} => \A a \in ACs : n.inProgress[a] # o
  BY <1>1 DEF OverdueOf, NoneAssumption
<1>3. \A k \in Loads : k # l => load'[k] = load[k]
  BY DEF leaveGroup, TypeOK
<1>4. CASE load[l].groups \ {d} = {}
  <2>1. journey' = n /\ load'[l].at = "idle"
    BY <1>1, <1>4, IdleTyped DEF leaveGroup, TypeOK
  <2>2. Settles(l)
    BY <1>2, <1>4, <2>1 DEF Settles
  <2>3. QED
    BY <1>1, <1>3, <2>1, <2>2, OthersOverdue
<1>5. CASE load[l].groups \ {d} # {}
  <2>1. /\ load'[l].at = "check" /\ load'[l].groups = load[l].groups \ {d}
        /\ load'[l].next = n /\ load'[l].overdue = load[l].overdue
    BY <1>1, <1>5, LoadTyped DEF leaveGroup, TypeOK, LoadState
  <2>2. OverdueOf(l)'
    BY <1>1, <1>2, <2>1 DEF OverdueOf
  <2>3. Settles(l)
    BY <2>1 DEF Settles
  <2>4. QED
    BY <1>1, <1>3, <2>2, <2>3, OthersOverdue
<1>6. QED
  BY <1>4, <1>5

\* Copies whose group d was cleared.
LEMMA ClearedCopies ==
    ASSUME TypeOK, NoneAssumption, NEW l \in Loads, NEW d \in Dispatches,
           NEW n \in {TimedOut(l, d), Finalised(l, d)}
    PROVE  ClearOf(l, d, n)
<1>1. load[l].next \in Fields
  BY LoadTyped
<1>2. n.inProgress = Cleared(l, d)
  BY <1>1 DEF TimedOut, Finalised, Fields
<1>3. QED
  BY <1>1, <1>2 DEF Cleared, GroupAcIds, NoneAssumption, ClearOf

LEMMA PageOverdue ==
    ASSUME TypeOK, OverdueCleared, NEW l \in Loads, loadStep(l)
    PROVE  OverdueCleared' /\ SettleStep
<1>0. /\ l \in Loading /\ load[l].next \in Fields /\ load[l].groups \subseteq Dispatches
      /\ load[l].repo \in {"unasked", "connected", "none"} /\ OverdueOf(l)
      /\ UNCHANGED <<request, run, late>>
  <2>1. load[l].at # "idle" /\ UNCHANGED <<request, run, late>>
    BY DEF loadStep, notFound, collect, downloadFails, commitScreenshot, commitVideo,
           commitFails, requestVars
  <2>2. /\ load[l].next \in Fields /\ load[l].groups \subseteq Dispatches
        /\ load[l].repo \in {"unasked", "connected", "none"}
    BY LoadTyped DEF LoadState
  <2>3. QED
    BY <2>1, <2>2 DEF Loading, OverdueCleared, OverdueOf
<1>1. CASE notFound(l)
  <2>1. PICK d \in load[l].groups :
           leaveGroup(l, d, load[l].repo, IF d \in late THEN TimedOut(l, d) ELSE load[l].next)
    BY <1>1 DEF notFound
  <2>2. CASE d \in late
    <3> DEFINE n == TimedOut(l, d)
    <3>1. leaveGroup(l, d, load[l].repo, n)
      BY <2>1, <2>2
    <3>2. d \in Dispatches /\ n \in Fields
      BY <1>0, CopiesTyped
    <3>3. ClearOf(l, d, n)
      BY <3>2, ClearedCopies, NoneAssumption
    <3> HIDE DEF n
    <3>4. QED
      BY <1>0, <3>1, <3>2, <3>3, LeaveGroupOverdue
  <2>3. CASE d \notin late
    <3>1. leaveGroup(l, d, load[l].repo, load[l].next) /\ d \notin load[l].overdue
      BY <1>0, <2>1, <2>3 DEF OverdueOf
    <3>2. ClearOf(l, d, load[l].next)
      BY <3>1 DEF ClearOf
    <3>3. QED
      BY <1>0, <3>1, <3>2, LeaveGroupOverdue
  <2>4. QED
    BY <2>2, <2>3
<1>2. CASE collect(l)
  <2>1. PICK d \in load[l].groups :
           /\ run[d] = "uploaded"
           /\ \/ /\ load' = [load EXCEPT ![l].at = "commit", ![l].group = d,
                                         ![l].repo = "connected", ![l].todo = GroupAcIds(l, d)]
                 /\ UNCHANGED journey
              \/ leaveGroup(l, d, "none", load[l].next)
    BY <1>2 DEF collect
  <2>2. d \notin load[l].overdue /\ ClearOf(l, d, load[l].next)
    BY <1>0, <2>1 DEF OverdueOf, ClearOf
  <2>3. CASE leaveGroup(l, d, "none", load[l].next)
    BY <1>0, <2>2, <2>3, LeaveGroupOverdue
  <2>4. CASE load' = [load EXCEPT ![l].at = "commit", ![l].group = d,
                                  ![l].repo = "connected", ![l].todo = GroupAcIds(l, d)]
    <3>1. /\ load'[l].at = "commit" /\ load'[l].group = d /\ load'[l].groups = load[l].groups
          /\ load'[l].next = load[l].next /\ load'[l].overdue = load[l].overdue
      BY <2>4, LoadTyped DEF TypeOK, LoadState
    <3>2. OverdueOf(l)' /\ Settles(l)
      BY <1>0, <2>2, <3>1 DEF OverdueOf, Settles
    <3>3. \A k \in Loads : k # l => load'[k] = load[k]
      BY <2>4 DEF TypeOK
    <3>4. QED
      BY <1>0, <3>2, <3>3, OthersOverdue
  <2>5. QED
    BY <2>1, <2>3, <2>4
<1>3. CASE downloadFails(l)
  <2>1. PICK d \in load[l].groups :
           /\ run[d] = "uploaded"
           /\ \/ leaveGroup(l, d, "connected", Finalised(l, d))
              \/ leaveGroup(l, d, load[l].repo, load[l].next)
    BY <1>3 DEF downloadFails
  <2>2. ClearOf(l, d, load[l].next)
    BY <1>0, <2>1 DEF OverdueOf, ClearOf
  <2>3. CASE leaveGroup(l, d, "connected", Finalised(l, d))
    <3>1. Finalised(l, d) \in Fields /\ ClearOf(l, d, Finalised(l, d))
      BY <1>0, ClearedCopies, CopiesTyped, NoneAssumption
    <3>2. QED
      BY <1>0, <2>3, <3>1, LeaveGroupOverdue
  <2>4. CASE leaveGroup(l, d, load[l].repo, load[l].next)
    BY <1>0, <2>2, <2>4, LeaveGroupOverdue
  <2>5. QED
    BY <2>1, <2>3, <2>4
<1>4. CASE commitScreenshot(l)
  <2>1. PICK b \in load[l].todo :
           load' = [load EXCEPT ![l].todo = load[l].todo \ {b}, ![l].next = Committed(l, b)]
    BY <1>4 DEF commitScreenshot
  <2>2. /\ load'[l].at = load[l].at /\ load'[l].group = load[l].group
        /\ load'[l].groups = load[l].groups /\ load'[l].overdue = load[l].overdue
        /\ load'[l].next = Committed(l, b)
    BY <2>1, LoadTyped DEF TypeOK, LoadState
  <2>3. Committed(l, b).inProgress = load[l].next.inProgress
    BY <1>0 DEF Committed, Fields
  <2>4. OverdueOf(l)' /\ Settles(l)
    BY <1>0, <2>2, <2>3 DEF OverdueOf, Settles, Loading
  <2>5. \A k \in Loads : k # l => load'[k] = load[k]
    BY <2>1 DEF TypeOK
  <2>6. QED
    BY <1>0, <2>4, <2>5, OthersOverdue
<1>5. CASE commitVideo(l)
  <2> DEFINE d == load[l].group
  <2>1. load[l].at = "commit" /\ leaveGroup(l, d, "connected", Finalised(l, d))
    BY <1>5 DEF commitVideo
  <2>2. d \notin load[l].overdue
    BY <1>0, <2>1 DEF OverdueOf
  <2>3. Finalised(l, d) \in Fields /\ Finalised(l, d).inProgress = Cleared(l, d)
    BY <1>0, LoadTyped DEF Finalised, Cleared, Fields, Dispatch
  <2>4. ClearOf(l, d, Finalised(l, d))
    BY <2>2, <2>3 DEF Cleared, ClearOf
  <2> HIDE DEF d
  <2>5. QED
    BY <1>0, <2>1, <2>3, <2>4, LeaveGroupOverdue
<1>6. CASE commitFails(l)
  <2>1. /\ load[l].at = "commit" /\ journey' = journey /\ load'[l].at = "idle"
        /\ \A k \in Loads : k # l => load'[k] = load[k]
    BY <1>6, IdleTyped DEF commitFails, TypeOK
  <2>2. Settles(l)
    BY <2>1 DEF Settles
  <2>3. QED
    BY <1>0, <2>1, <2>2, OthersOverdue
<1>7. QED
  BY <1>1, <1>2, <1>3, <1>4, <1>5, <1>6 DEF loadStep

LEMMA OverdueStep == TypeOK /\ OverdueCleared /\ [Next]_vars => OverdueCleared' /\ SettleStep
<1> SUFFICES ASSUME TypeOK, OverdueCleared, [Next]_vars
             PROVE  OverdueCleared' /\ SettleStep
  OBVIOUS
<1>1. ASSUME load' = load,
             \A d \in late' : request'[d] = "marked",
             \A d \in late : d \in late' /\ (run[d] = "gone" => run'[d] = "gone")
      PROVE  OverdueCleared' /\ SettleStep
  BY <1>1 DEF OverdueCleared, SettleStep, Settles, Loading
<1>2. ASSUME NEW d \in Dispatches, NEW acs, ask(d, acs)
      PROVE  OverdueCleared' /\ SettleStep
  BY <1>1, <1>2 DEF ask, TypeOK, OverdueCleared
<1>3. ASSUME NEW d \in Dispatches, requestFails(d) \/ markInProgress(d)
      PROVE  OverdueCleared' /\ SettleStep
  BY <1>1, <1>3 DEF requestFails, markInProgress, TypeOK, OverdueCleared
<1>4. ASSUME NEW d \in Dispatches, upload(d) \/ die(d) \/ expire(d) \/ windowPasses(d)
      PROVE  OverdueCleared' /\ SettleStep
  BY <1>1, <1>4 DEF upload, die, expire, windowPasses, requestVars, TypeOK, OverdueCleared
<1>5. ASSUME NEW l \in Loads, startLoad(l)
      PROVE  OverdueCleared' /\ SettleStep
  <2>1. /\ load[l].at = "idle" /\ load'[l].at = "check" /\ load'[l].next = journey
        /\ load'[l].groups = {journey.inProgress[a] : a \in ACs} \ {None}
        /\ load'[l].overdue = {d \in late : run[d] = "gone"}
        /\ \A k \in Loads : k # l => load'[k] = load[k]
        /\ UNCHANGED <<request, run, late>>
    BY <1>5 DEF startLoad, TypeOK, IdleLoad, requestVars
  <2>2. None \notin late
    BY NoneAssumption DEF TypeOK, NoneAssumption
  <2>3. OverdueOf(l)' /\ Settles(l)
    BY <2>1, <2>2 DEF OverdueOf, Settles
  <2>4. QED
    BY <2>1, <2>3, OthersOverdue
<1>6. ASSUME NEW l \in Loads, loadStep(l)
      PROVE  OverdueCleared' /\ SettleStep
  BY <1>6, PageOverdue
<1>7. CASE restart
  <2>1. Loading' = {} /\ late' = late /\ \A d \in late : request'[d] = "marked"
    BY <1>7, IdleTyped DEF restart, Loading, TypeOK, OverdueCleared
  <2>2. \A a \in ACs : journey'.inProgress[a] = None
    BY <1>7 DEF restart, TypeOK, Fields, NoCapture
  <2>3. \A l \in Loading : None \notin load[l].overdue
    BY NoneAssumption DEF OverdueCleared, TypeOK, NoneAssumption
  <2>4. SettleStep
    BY <2>2, <2>3 DEF SettleStep, Settles, Loading
  <2>5. QED
    BY <2>1, <2>4 DEF OverdueCleared
<1>8. CASE UNCHANGED vars
  BY <1>1, <1>8 DEF vars, requestVars, OverdueCleared
<1>9. QED
  <2>1. CASE \E d \in Dispatches : \/ \E a \in ACs : handlePostCaptureTrigger(d, a)
                                   \/ handlePostCaptureAll(d)
    BY <1>2, <2>1 DEF handlePostCaptureTrigger, handlePostCaptureAll
  <2>2. CASE \E d \in Dispatches : requestStep(d)
    BY <1>3, <2>2 DEF requestStep
  <2>3. CASE \E d \in Dispatches : upload(d) \/ die(d) \/ expire(d) \/ windowPasses(d)
    BY <1>4, <2>3
  <2>4. CASE \E l \in Loads : startLoad(l) \/ loadStep(l)
    BY <1>5, <1>6, <2>4
  <2>5. QED
    BY <1>7, <1>8, <2>1, <2>2, <2>3, <2>4 DEF Next

(***************************************************************************)
(* The theorems.                                                           *)
(***************************************************************************)

LEMMA Invariance == Spec => []IInv
<1>1. Init => IInv
  BY TypeInit, AccountsInit DEF IInv
<1>2. IInv /\ [Next]_vars => IInv'
  BY TypeStep, AccountsStep, OverdueStep DEF IInv
<1>3. QED
  BY <1>1, <1>2, PTL DEF Spec

\* The last capture of a criterion is in progress, evidence or a failure on the
\* page, unless one of the four disturbances met it
\* (playback-evidence.js:659-803, journey-store-pg.js:51-103).
THEOREM CapturesAccounted == Spec => []CaptureAccounted
<1>1. IInv => CaptureAccounted
  BY DEF IInv, Accounts
<1>2. QED
  BY <1>1, Invariance, PTL

\* Evidence is replaced by that of the last capture only, and never dropped
\* (playback-evidence.js:705-757).
THEOREM EvidenceOnlyAdvances == Spec => EvidenceAdvances
<1>1. IInv /\ [Next]_vars => EvidenceStep
  BY EvidenceKept DEF IInv
<1>2. QED
  BY <1>1, Invariance, PTL DEF Spec, EvidenceAdvances, EvidenceStep

\* A page leaves no overdue capture in progress (playback-evidence.js:713-800).
THEOREM OverdueSettle == Spec => OverdueCapturesSettle
<1>1. IInv /\ [Next]_vars => SettleStep
  BY OverdueStep DEF IInv
<1>2. QED
  BY <1>1, Invariance, PTL DEF Spec, OverdueCapturesSettle, SettleStep, Settles
================================================================================
