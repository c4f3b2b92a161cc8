-------------------------------- MODULE Capture --------------------------------
(***************************************************************************)
(* Playback evidence of one feature: the capture requests of its product   *)
(* owners, the GitHub Actions runs they dispatch, and the evidence pages,  *)
(* each of which collects what the runs have uploaded before it renders.   *)
(*                                                                         *)
(* A dispatch stands for a request and its correlation id.  Between two    *)
(* awaits a handler is one action; every await of a request or a page is   *)
(* a point where others run.  A run captures every criterion it was given  *)
(* or uploads nothing, so an archive never lacks a screenshot, and         *)
(* captureScreenshots and captureVideos always name the same criteria.     *)
(*                                                                         *)
(* Every criterion has a capture target.  Left out: CSRF, the limit of one *)
(* capture a minute and person, the nonce (a run whose exchange fails is   *)
(* one that dies), rendering, and the writes of the journey to Postgres,   *)
(* which JourneyStore models: here a restart finds the last one committed. *)
(***************************************************************************)
CONSTANTS
    ACs,         \* acceptance criteria
    Dispatches,  \* capture requests
    Loads,       \* page loads under way at a time
    None         \* no dispatch

ASSUME NoneAssumption == None \notin Dispatches

VARIABLES
    journey,   \* the capture fields of the journey
    lock,      \* the capture-all that holds the journey's lock
    request,   \* each request's progress
    acIds,     \* the criteria it captures
    run,       \* each dispatched workflow run and its artifact
    late,      \* the dispatches older than CAPTURE_WAIT_WINDOW_MS
    load,      \* each page load's progress and local variables
    repo       \* the capture whose screenshot is in the product's repository

(***************************************************************************)
(* Observations.                                                           *)
(***************************************************************************)
VARIABLES
    latest,    \* each criterion's last capture to be marked in progress
    disturbed  \* the criteria whose last capture something interfered with

ghostVars == <<latest, disturbed>>
requestVars == <<lock, request, acIds>>
vars == <<journey, requestVars, run, late, load, repo, ghostVars>>

Dispatch == Dispatches \cup {None}

Fields == [inProgress : [ACs -> Dispatch],  \* captureInProgress
           evidence   : SUBSET ACs,         \* captureScreenshots, captureVideos
           failed     : [ACs -> Dispatch]]  \* captureAllFailed, with the capture meant

\* The locals of _finaliseInProgressCaptures.
LoadState == [at     : {"idle", "check", "commit"},
              groups : SUBSET Dispatches,   \* the groups not done with
              group  : Dispatch,            \* the one being collected
              repo   : {"unasked", "connected", "none"},  \* ownerRepo, ownerRepoFetched
              todo   : SUBSET ACs,          \* the screenshots yet to be committed
              next   : Fields,              \* the copies that are written back
              overdue : SUBSET Dispatches]  \* observed: late and over at the start

TypeOK ==
    /\ journey \in Fields
    /\ lock \in {None} \cup {d \in Dispatches : request[d] = "asked"}
    /\ request \in [Dispatches -> {"unsent", "asked", "marked", "refused"}]
    /\ acIds \in [Dispatches -> SUBSET ACs]
    /\ run \in [Dispatches -> {"none", "running", "uploaded", "gone"}]
    /\ late \in SUBSET Dispatches
    /\ load \in [Loads -> LoadState]
    /\ repo \in [ACs -> Dispatch]
    /\ latest \in [ACs -> Dispatch]
    /\ disturbed \in SUBSET ACs

NoCapture == [a \in ACs |-> None]
NoFields == [inProgress |-> NoCapture, evidence |-> {}, failed |-> NoCapture]
IdleLoad == [at |-> "idle", groups |-> {}, group |-> None, repo |-> "unasked",
             todo |-> {}, next |-> NoFields, overdue |-> {}]

Init ==
    /\ journey = NoFields
    /\ lock = None
    /\ request = [d \in Dispatches |-> "unsent"]
    /\ acIds = [d \in Dispatches |-> {}]
    /\ run = [d \in Dispatches |-> "none"]
    /\ late = {}
    /\ load = [l \in Loads |-> IdleLoad]
    /\ repo = NoCapture
    /\ latest = NoCapture
    /\ disturbed = {}

Loading == {l \in Loads : load[l].at # "idle"}

(***************************************************************************)
(* Capture requests.                                                       *)
(***************************************************************************)
ask(d, acs) ==
    /\ request[d] = "unsent"
    /\ request' = [request EXCEPT ![d] = "asked"]
    /\ acIds' = [acIds EXCEPT ![d] = acs]
    /\ run' = [run EXCEPT ![d] = "running"]
    /\ UNCHANGED <<journey, late, load, repo, ghostVars>>

handlePostCaptureTrigger(d, a) ==
    /\ ask(d, {a})
    /\ UNCHANGED lock

handlePostCaptureAll(d) ==
    /\ lock = None
    /\ lock' = d
    /\ ask(d, ACs)

\* A bug: without the release in handlePostCaptureAll's finally.
releaseLockForgotten(d) == lock

releaseLock(d) == IF lock = d THEN None ELSE lock

\* No repository, no nonce, a refused dispatch, or an answer that was lost.
\* A run that was started all the same is one that nobody asks for.
requestFails(d) ==
    /\ request[d] = "asked"
    /\ request' = [request EXCEPT ![d] = "refused"]
    /\ run' = [run EXCEPT ![d] = "gone"]
    /\ lock' = releaseLock(d)
    /\ UNCHANGED <<journey, acIds, late, load, repo, ghostVars>>

\* The answer arrives.  A page that is loading will write its own copy back
\* over the marks; with none, the criteria's bookkeeping starts afresh.
markInProgress(d) ==
    /\ request[d] = "asked"
    /\ request' = [request EXCEPT ![d] = "marked"]
    /\ journey' = [journey EXCEPT !.inProgress =
                      [a \in ACs |-> IF a \in acIds[d] THEN d ELSE @[a]]]
    /\ lock' = releaseLock(d)
    /\ latest' = [a \in ACs |-> IF a \in acIds[d] THEN d ELSE latest[a]]
    /\ disturbed' = IF Loading = {} THEN disturbed \ acIds[d] ELSE disturbed \cup acIds[d]
    /\ UNCHANGED <<acIds, run, late, load, repo>>

(***************************************************************************)
(* The page: handleGetPlaybackEvidence up to its rendering.                *)
(***************************************************************************)

\* Nothing in progress: the page writes nothing.
startLoad(l) ==
    /\ load[l].at = "idle"
    /\ \E a \in ACs : journey.inProgress[a] # None
    /\ load' = [load EXCEPT ![l] =
                   [IdleLoad EXCEPT !.at = "check",
                                    !.groups = {journey.inProgress[a] : a \in ACs} \ {None},
                                    !.next = journey,
                                    !.overdue = {d \in late : run[d] = "gone"}]]
    /\ disturbed' = IF Loading = {} THEN disturbed ELSE ACs
    /\ UNCHANGED <<journey, requestVars, run, late, repo, latest>>

\* A bug: every criterion of the capture, captured anew or not.
GroupAcIdsOfCapture(l, d) == acIds[d]

\* The group's criteria, in the copies.
GroupAcIds(l, d) == {a \in ACs : load[l].next.inProgress[a] = d}

Cleared(l, d) == [a \in ACs |-> IF a \in GroupAcIds(l, d) THEN None
                                ELSE load[l].next.inProgress[a]]

\* A bug: the captures are cleared without a notice.
TimedOutSilently(l, d) == [load[l].next EXCEPT !.inProgress = Cleared(l, d)]

\* A bug: the notice is recorded and the captures stay in progress.
TimedOutInProgress(l, d) ==
    [load[l].next EXCEPT !.failed = [a \in ACs |-> IF a \in GroupAcIds(l, d) THEN d ELSE @[a]]]

\* The group's captures fail with a notice on the page.
TimedOut(l, d) ==
    [load[l].next EXCEPT
        !.inProgress = Cleared(l, d),
        !.failed = [a \in ACs |-> IF a \in GroupAcIds(l, d) THEN d ELSE @[a]]]

\* The group's captures are finalised.
Finalised(l, d) ==
    [load[l].next EXCEPT
        !.inProgress = Cleared(l, d),
        !.failed = [a \in ACs |-> IF a \in GroupAcIds(l, d) THEN None ELSE @[a]]]

\* A screenshot is committed.
Committed(l, a) == [load[l].next EXCEPT !.evidence = @ \cup {a}]

\* The page is done with group d and leaves next: it goes on to another
\* group, or writes its copies back.
leaveGroup(l, d, ownerRepo, next) ==
    LET rest == load[l].groups \ {d} IN
    IF rest = {}
    THEN /\ journey' = next
         /\ load' = [load EXCEPT ![l] = IdleLoad]
    ELSE /\ load' = [load EXCEPT ![l].at = "check", ![l].groups = rest, ![l].group = None,
                                 ![l].repo = ownerRepo, ![l].next = next]
         /\ UNCHANGED journey

\* The group is not found, or the check throws.
notFound(l) ==
    /\ load[l].at = "check"
    /\ \E d \in load[l].groups :
          leaveGroup(l, d, load[l].repo, IF d \in late THEN TimedOut(l, d) ELSE load[l].next)
    /\ UNCHANGED <<requestVars, run, late, repo, ghostVars>>

\* The archive is found and downloaded.  The first group that is looks up the
\* product's repository, which may be gone, or the query may fail.  Checking,
\* downloading and looking up are awaited one after another, but change only
\* locals.
collect(l) ==
    /\ load[l].at = "check"
    /\ \E d \in load[l].groups :
          /\ run[d] = "uploaded"
          /\ \/ /\ load[l].repo # "none"
                /\ load' = [load EXCEPT ![l].at = "commit", ![l].group = d,
                                        ![l].repo = "connected", ![l].todo = GroupAcIds(l, d)]
                /\ UNCHANGED journey
             \/ /\ load[l].repo # "connected"
                /\ leaveGroup(l, d, "none", load[l].next)
    /\ UNCHANGED <<requestVars, run, late, repo, ghostVars>>

\* What cannot be downloaded is an empty archive: the group stays, unless an
\* earlier group of this load has looked up the repository; then it is
\* finalised with nothing to commit.
downloadFails(l) ==
    /\ load[l].at = "check"
    /\ \E d \in load[l].groups :
          /\ run[d] = "uploaded"
          /\ IF load[l].repo = "connected"
             THEN /\ leaveGroup(l, d, "connected", Finalised(l, d))
                  /\ disturbed' = disturbed \cup GroupAcIds(l, d)
             ELSE /\ leaveGroup(l, d, load[l].repo, load[l].next)
                  /\ UNCHANGED disturbed
    /\ UNCHANGED <<requestVars, run, late, repo, latest>>

commitScreenshot(l) ==
    /\ load[l].at = "commit"
    /\ \E a \in load[l].todo :
          /\ repo' = [repo EXCEPT ![a] = load[l].group]
          /\ load' = [load EXCEPT ![l].todo = load[l].todo \ {a}, ![l].next = Committed(l, a)]
    /\ UNCHANGED <<journey, requestVars, run, late, ghostVars>>

\* The group's video is committed last.
commitVideo(l) ==
    LET d == load[l].group IN
    /\ load[l].at = "commit"
    /\ load[l].todo = {}
    /\ leaveGroup(l, d, "connected", Finalised(l, d))
    /\ UNCHANGED <<requestVars, run, late, repo, ghostVars>>

\* Nobody catches what commitArtefact throws: the page answers 500 and none
\* of its copies is written back.
commitFails(l) ==
    /\ load[l].at = "commit"
    /\ load' = [load EXCEPT ![l] = IdleLoad]
    /\ UNCHANGED <<journey, requestVars, run, late, repo, ghostVars>>

(***************************************************************************)
(* Workflow runs, time, and restarts.                                      *)
(***************************************************************************)
upload(d) ==
    /\ run[d] = "running"
    /\ run' = [run EXCEPT ![d] = "uploaded"]
    /\ UNCHANGED <<journey, requestVars, late, load, repo, ghostVars>>

\* The nonce has expired, a selector does not match, the job times out.
die(d) ==
    /\ run[d] = "running"
    /\ run' = [run EXCEPT ![d] = "gone"]
    /\ UNCHANGED <<journey, requestVars, late, load, repo, ghostVars>>

\* Seven days are over, long after any request or wait window.
expire(d) ==
    /\ run[d] = "uploaded"
    /\ d \in late
    /\ run' = [run EXCEPT ![d] = "gone"]
    /\ UNCHANGED <<journey, requestVars, late, load, repo, ghostVars>>

windowPasses(d) ==
    /\ request[d] = "marked"
    /\ late' = late \cup {d}
    /\ UNCHANGED <<journey, requestVars, run, load, repo, ghostVars>>

\* captureInProgress is not among the fields _sanitise keeps.
restart ==
    /\ journey' = [journey EXCEPT !.inProgress = NoCapture]
    /\ lock' = None
    /\ request' = [d \in Dispatches |->
                      IF request[d] = "asked" THEN "refused" ELSE request[d]]
    /\ run' = [d \in Dispatches |->
                  IF request[d] = "asked" THEN "gone" ELSE run[d]]
    /\ load' = [l \in Loads |-> IdleLoad]
    /\ disturbed' = disturbed \cup {a \in ACs : journey.inProgress[a] # None}
    /\ UNCHANGED <<acIds, late, repo, latest>>

requestStep(d) ==
    \/ requestFails(d)
    \/ markInProgress(d)

loadStep(l) ==
    \/ notFound(l)
    \/ collect(l)
    \/ downloadFails(l)
    \/ commitScreenshot(l)
    \/ commitVideo(l)
    \/ commitFails(l)

Next ==
    \/ \E d \in Dispatches :
          \/ \E a \in ACs : handlePostCaptureTrigger(d, a)
          \/ handlePostCaptureAll(d)
          \/ requestStep(d)
          \/ upload(d)
          \/ die(d)
          \/ expire(d)
          \/ windowPasses(d)
    \/ \E l \in Loads : startLoad(l) \/ loadStep(l)
    \/ restart

Spec == Init /\ [][Next]_vars

(***************************************************************************)
(* Properties.                                                             *)
(***************************************************************************)

\* The last capture of a criterion that was marked in progress is on the
\* page: still in progress, as evidence, or as a failure.  The exceptions are
\* a restart while it is in progress, a dispatch answered while a page loads,
\* two pages loading at a time, and an archive that cannot be downloaded after
\* another group of the same load was collected: that is all that may lose a
\* capture (playback-evidence.js:659-803, journey-store-pg.js:51-103).
CaptureAccounted ==
    \A a \in ACs \ disturbed :
        \/ latest[a] = None
        \/ journey.inProgress[a] = latest[a]
        \/ a \in journey.evidence /\ repo[a] = latest[a]
        \/ journey.failed[a] = latest[a]

\* Evidence is only replaced by that of the last capture and never dropped,
\* with the same exceptions: an answer that comes late, after its criterion
\* was captured anew or marked failed, changes nothing
\* (playback-evidence.js:705-757).
EvidenceAdvances ==
    [][/\ journey.evidence \ disturbed \subseteq journey'.evidence
       /\ \A a \in ACs \ disturbed : repo'[a] \in {repo[a], latest[a]}]_vars

\* A page that writes its copies back leaves none of the captures in progress
\* whose window had passed and whose run was over when it started: the next
\* page turns them into failures.  An artifact that is there but cannot be
\* committed is not over, and keeps its captures in progress until it expires
\* (playback-evidence.js:713-790).
OverdueCapturesSettle ==
    [][\A l \in Loads :
          /\ load[l].at # "idle" /\ load'[l].at = "idle"
          /\ load[l].at = "check" \/ journey' # journey
          => \A a \in ACs : journey'.inProgress[a] \notin load[l].overdue]_vars
================================================================================
