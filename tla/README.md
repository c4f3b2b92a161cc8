# TLA+ verification of the skills platform's web UI

The repository is a delivery framework: skills (prompts) that take a feature from
discovery to a definition of ready, a web UI that runs them stage by stage against a
language model, and tooling around both. The part that is a program with state of its
own is the web UI (`src/web-ui`), a single Node process with an in-memory view of
everything, a Postgres database (or, on a developer's machine, JSON files) behind it, and
GitHub beside it. These modules model its core: journeys and their stages, the turns of a
skill session, the artefacts people edit together, playback evidence, the state it
shares with the CLI, and the credit accounts.

Paths below are relative to `src/src` unless they start with `src/`.

## Inventory

| Component | State it keeps | Operations | Hard behaviour | What makes it correct | Module |
|---|---|---|---|---|---|
| Journey store over Postgres (`web-ui/modules/journey-store.js`, `web-ui/adapters/journey-store-pg.js`) | map of live objects, one promise chain of writes per journey, table `journeys` and two child tables | create, set fields, activate, complete, regress, story steps, mark complete, delete, reload | unawaited writes, reload that races requests, delete that races queued writes, failed queries, restarts | rows never go back; the map is never stale; what is drained is stored; deletes are final | `JourneyStages`, `JourneyStore` |
| Journey store over files (`modules/journey-disk.js`) | the same map, one file per feature slug | as above, `updateStage`, resume | two writers of one file with different fields; files keyed by slug, map by id; restart | listing, map and reload agree | `JourneyDisk` |
| Journey routes (`web-ui/routes/journey.js`) | none of their own | create, resume, gate-confirm, stories, regress, reopen, delete | awaits between reading and changing a journey; two requests at once | the journey is worked on at the stage it is at; no stage is skipped; no page leads nowhere | `StageFlow`, `JourneyDisk` |
| Skill sessions and turns (`web-ui/routes/skills.js`) | session objects, their files and Redis copies, attempt memory, in-flight guard | streamed turn, JSON turn, completion, restore | retries of slow turns, object identity across awaits, restart | one turn of a kind at a time, one charge per attempt, one completion per stage | `SkillTurn` |
| Cross-surface sync (`web-ui/routes/internal-sync.js`, `web-ui/adapters/sync-log.js`, `sync/`) | `sync_log` with its gaps, markers of the last agreed stage | detect and resolve conflicts, log, replay a gap, push | lost pushes, replays, two surfaces moving one story | the file's stage wins; gaps close by being written; markers follow pushes | `StateSync` |
| Pipeline state writers (`web-ui/adapters/pipeline-state-*.js`) | a blob in a GitHub repository | read, apply, write with the expected sha | conflicts, at most three attempts | no update is lost under a write | `StateSync` |
| CLI (`enforcement/`) | `pipeline-state.json` of a checkout | gate-advance, its push to the web UI | a checkout that is behind; a journey deleted meanwhile | as above | `StateSync` (gate-advance) |
| Concurrent artefact editing (`web-ui/modules/concurrent-edit-buffer.js`, `merge-artefact-edits.js`, `artefact-merge-broadcast.js`) | the last save of 100 ms, open pages' streams | save with three-way merge, push | two saves against one version; pushes after an await | no accepted line disappears; pages show the file | `ArtefactMerge`, `StageArtefact` |
| Capture and playback (`web-ui/routes/playback-evidence.js`, `web-ui/modules/capture-all-lock.js`) | capture fields of a journey, lock, workflow runs | dispatch, collect, commit, time out | late or dead runs, pages that collect side by side, restarts | a capture ends as evidence or as a failure | `Capture` |
| Credits and billing (`web-ui/modules/credits.js`, `web-ui/middleware/credits-guard.js`, `web-ui/routes/billing.js`, `web-ui/modules/tenant-plan.js`, `web-ui/routes/admin-credits.js`) | tables `credits`, `stripe_events`, `tenant_plan`, `credit_audit_log` | guard, charge, free grant, webhook, admin top-up and plan | check before and charge after a long await, redelivered and concurrent webhooks, statements without a transaction | each payment credited once; debt bounded; plan and audit log tell the truth | `Credits`, `CreditLedger` |
| Products (`web-ui/routes/products.js`) | product tables | CRUD, delete with its journeys | deletes journey rows behind the store's back | no orphaned journey | not modelled |
| Login, sessions, CSRF, roles, rate limits | session records, counters | per request | little: each request decides on one record | - | not modelled |
| Organisations, teams, agencies, impersonation | tables | single-statement CRUD | none across steps | - | not modelled |
| Approval channel, Teams bot, distribution, improvement agent, validators | none that outlives a run | batch or stateless | none | - | not modelled |
| Skills, standards, templates, artefacts | documents | - | - | - | not a program |

How they interact: a route handler runs to its next `await` without interruption and
reads and writes the journey map directly. The store passes each change on to
Postgres without waiting (`_pgWrite`) or to a file synchronously. Sessions name a
journey by id and reach it through the store. A turn that produces the artefact completes the
stage; gate-confirm finds the stage complete (or completes it), writes the stage to
`pipeline-state.json` on GitHub and opens a session for the next one. The CLI's gate-advance
writes the same file in a checkout and tells the journey over HTTP.
`creditsGuard` stands in front of the turn routes and reads `credits`; the turn charges the
table when the model has answered. Stripe and the admin forms change `credits` and
`tenant_plan` independently; creating a journey reads the plan for its cap.

Deployment: one Fly machine, suspended when idle (`src/fly.toml`), so the process stops
at any time and the map starts empty. With more machines the in-memory maps would
diverge; the models describe one process, which is what the deployment files say.
The hazards this leaves are listed with their lines in `PROJECT.json`.

## Modules

Each `X` has an `MCX` with the values its configurations need, and those with theorems an
`XProofs`.

- `JourneyStages` - the stage order and the pure functions over it. Shared.
- `WriteBehind` - what the store promises when `DATABASE_URL` is set; `JourneyStore` - the
  map, queues, statements and reload it is made of, shown to implement `WriteBehind`.
- `JourneyDisk` - the store without `DATABASE_URL`, with the handlers of
  `routes/journey.js` that read the map and the file side by side.
- `StageProgress` - what the routes promise of a journey's progress; `StageFlow` - its way
  through the stages handler by handler, shown to implement `StageProgress`.
- `SkillTurn` - the turns of one session.
- `StateSync` - `pipeline-state.json` between gate-confirm and the CLI.
- `ArtefactMerge` - the merge as an operator; `StageArtefact` - the save handler, the pushes
  and the pages around it (it EXTENDS the merge).
- `Capture` - capture requests, workflow runs and evidence pages.
- `CreditLedger` - what the credit accounts promise; `Credits` - the SQL statements,
  requests and failures they are made of, shown to implement `CreditLedger`.

The modules cut the system where it hands over a finished fact. `StageFlow` takes a finished
artefact from `SkillTurn`, and a Postgres write as done at once, whose order is
`JourneyStore`'s subject; what its gate-confirm writes to GitHub is `StateSync`'s.

Operators whose comment begins with "Mutant" are plausible mistakes in the operator
that follows them. No specification uses them; substituted for it, each makes a named
property fail (`PROJECT.json`, "mutants"), which shows that the property depends on
the code.

### JourneyStore

| Variable | In the code |
|---|---|
| `memory` | keys of `_journeys` |
| `object` | the object of each journey, still held by the closures of queued saves after it has left the map |
| `pending` | links of `_pgWriteChains[id]` that have not begun |
| `orphan` | of these, the links whose closure holds the object a reload has replaced, and that object |
| `flight` | the values bound to the journey's executing INSERT |
| `row`, `children` | tables `journeys`, `session_turns`, `artefacts` |
| `snapshot`, `server` | the rows `loadAllFromPg` has read, and how far the start has come |
| `deletion` | the progress of `DELETE /api/journey/:journeyId` |
| `lost`, `unsaved`, `disturbed`, `gone` | observations; no action reads them |
| `revived` | journeys the reload put back after a delete of them was accepted; no action but `deleteRow` reads it, for `gone` |

A request handler's store call is one action with the trailing `_pgWrite` in it. A queued
save closes over the journey object, not over its value, so what is written is the object
as it is when the save begins; `saveStart` models exactly that. A save commits, or
reports an error committed or not, as a step of its own. The delete is its three statements,
each a step, with the foreign keys that can refuse the last. `crash` empties the map and
lets each executing INSERT land or not. `loadRead` and `loadMerge` are the two sides of the
reload's await; requests are served in between, because the server does not wait for it.
That goes for deletes too: the handler checks the map and nothing else
(`routes/journey.js:651-669`), so a delete can be accepted after the rows have been read, and the
merge then puts its journey back as a new object. Saves queued before the delete still hold the old
one, and may write it over what the new one has written. Two bounds are named: `MaxEarly`, the
changes made to a journey before such a delete, and one DELETE of a journey at a time.

A journey's content is abstracted to the fields a guard or a property tells apart, plus a
counter `rev` of the changes made to it, which stands for all others. `clarify` stands for
the fields missing from the Postgres allowlist.

`WriteBehind` knows live journeys and their newest versions, at most one version of each on its
way to the database, what is stored, and the deletes not yet answered. Of a journey's queue it
sees whether anything is owed, of the delete's three statements the answer, of the reload the
moment of the merge, of the child tables nothing. A step of the reload that requests overtake
therefore has to look as if the table had been read at the merge, and a delete as if the
row had gone when it was answered. Of a delete accepted before the reload (`early`) it promises less:
the reload may undo it, and of a journey so put back (`undone`) an older version may be written.

### JourneyDisk

Adapter calls are synchronous here, so each handler is one step from its last await to
its response. `file` is what is on disk: the object as `saveJourney` wrote it, and
the `stages` and `currentStage` that only `updateStage` writes and every `saveJourney`
drops. `sessions` has the life of each skill session (open, done, recorded, evicted).
Resume reads the file first, then the map, then `pipeline-state.json`.

### StageFlow

| Variable | In the code |
|---|---|
| `present`, `activeSkill`, `active`, `completedStages`, `storyList`, `storyIndex`, `complete` | the journey: in the map, `activeSkill`, `activeSessionId` (0 is none), `completedStages`, length of the story list, `currentStoryIndex`, the complete flag |
| `row` | the fields of the stored row that lag behind, because three operations do not save |
| `sess` | the journey's sessions: stage, story of the artefact path, `done`, `_stageDone`, in the session store, copied to Redis |
| `req` | gate-confirms, stories posts and resumes between two awaits, with the session and stage they have read |
| `storiesPage` | whether the user was sent to the stories page, because the definition has no readable story list, and the journey has not moved since |
| `spent` | counters of the bounds |
| `validated`, `rewound`, `outdated`, `adrift`, `passedOver` | observations |

Gate-confirm is cut at its awaits (artefact row, commit, state write) and its exits: the
commit fails, the validator rejects the definition of ready, the journey has been deleted,
the trace cannot be written. The last segment is one synchronous block and one action per case
(`confirmNext`, `confirmDefinition`, `confirmUnparsed`, `confirmSignedOff`). The stories form has no
stage guard in the code and none here: `postStories` replaces the list under a journey at any
stage, and `storiesRead` begins the review after an await (`journey.js:3334-3389`). Sent from anywhere
but a complete definition it leaves the journey `adrift` until then, and the feature-level stages that
are not complete at that moment are `passedOver`. A request works on
what it has read when it began: on the session object even when a concurrent resume has put a
restored copy in its place (`own`).

`StageProgress` has no sessions, requests or awaits: a journey stands at a stage and a story, stages
become complete, stories are accepted, and the journey moves one stage or one story forward from a
stage that is complete at that moment, back by a regression, to what is saved by a restart, or to the
review of a story list that was submitted while it stood elsewhere (`Submit`, `BeginReview`).
It promises nothing once a request has acted on outdated information (`astray`, which is `outdated`
of `StageFlow`). A regression that keeps the story index is one of its steps, so it goes on
promising after that, where `NoStageSkipped` stops.

### SkillTurn

A session is a mutable object that a request keeps across its awaits. `heap` holds the objects,
`current` the one in the session store, `disk` and `redis` its copies. `req` is the progress of a
streamed turn (model, commit, revision hook), a JSON turn (body, executor) or a gate-confirm
that completes the stage; `busy` is the journey's `turnInProgress`, `last` in an object the
attempt memory with its in-flight guard. `billed`, `forgotten`, `overran`, `disturbed`, `revised`,
`late` and `astray` are observations. The 60 seconds of the guard are an action that may happen at any
time while a turn runs. A restart keeps the attempt memory of the copy the server goes on from: both
the file and the Redis copy hold it (`skills.js:201-209`).

### StateSync

`hub` is the file on GitHub, `local` the checkout's, `origin` the state the checkout was last
level with. A gate-confirm fetches, applies its update, logs a conflict, and puts with the sha
it fetched; a blob is its own sha, so `put` requires the content to be unchanged and
`putConflicts` starts over, at most three times. A write that fails leaves a gap in `gaps`, and the
next gate-confirm of the journey replays the gaps that name a story. `cli` is the progress of gate-advance:
advance the checkout, resolve the journey, compare, update it, move the marker. Pushes and pulls
of the checkout, a regression or deletion of the journey and a restart of the server come in between.

### ArtefactMerge and StageArtefact

`mergeArtefactEdits` is translated as it is built: an LCS walk that skips the base line on a tie,
the hunks between matched lines, clusters of overlapping hunks, and a conflict when both sides
changed a cluster differently. `StageArtefact` has the file, the entry of the edit buffer
(`lastSave`, `recent` for its 100 ms), each page's text and the pushes on their way to it, and the
save requests; `seen`, `latest`, `writer` and `overtaken` are observations. A save is one action from its registration to the write of the file, and a second
when the edit has been recorded and the result is pushed.

### Capture

`journey` has the three capture fields a page reads and writes back, `lock` the capture-all under
way, `run` each workflow run with its artifact, `late` the dispatches whose wait window has
passed, `load` each page load with its local copies, `repo` the screenshots in the product's
repository. A page load takes copies of the fields, checks one group of captures after the
other at an await each, commits the screenshots one by one, and writes the copies back at the
end; `loadStep` is the next of these steps. `disturbed` observes the four ways a capture may get
lost, which `CaptureAccounted` names.

### CreditLedger and Credits

`CreditLedger` has four variables: balances, the grants that reached them, the turns
admitted and not yet charged, and the tenants a turn of which was let through unchecked.
Its actions open an account, provision a grant once, admit a turn while the balance is
positive, admit a staff turn, charge an admitted turn, and release turns uncharged.

`Credits` has the four tables, the requests in progress (`turn`, `delivery`, `adjust`) and
one action per SQL statement, so that everything interleaves at every await, and a crash
ends all requests where they are. A statement may report an error after it has committed.
The refinement maps `open[t]` to the number of turns past the guard for tenant `t` and
`MaxOpen` to the number of turns that can run at once. Staff turns skip the guard but are
charged all the same, as in the code. `checkout.session.completed` is one kind of event;
`invoice.paid` and `payment_intent.succeeded`, which only pay, are another.

## Runs

| Run | Question | Bounds |
|---|---|---|
| `journey_store` | every operation, the chain, the delete, the reload, failures, a restart, for one journey | two stages, one session, three changes (at most one before a delete during the reload), one restart, both child tables |
| `journey_chains` | does a hanging or rejected write hold up anything else (liveness); do the map, the chains, the delete and the reload implement the write-behind store | two journeys, one of them stalled, one change each, one restart, no sessions, no child tables |
| `journey_delete` | violation: is an acknowledged delete final | one journey, one change, one restart |
| `journey_disk` | map and files of two journeys, on the same slug or two | two stages, three sessions, one restart |
| `stage_flow` | one journey to its end, with requests that overlap and things that go wrong (safety and liveness) | from definition on, story lists of one and of two stories, two requests at a time, one extra request (a stories form from elsewhere among them), one disturbance |
| `skill_turn` | two requests of any kind on one session (safety and liveness) | two requests, two attempts, one restart |
| `state_sync` | two gate-confirms and a gate-advance around one file | two stages, one story, one restart |
| `stage_artefact` | two people on one artefact; the merge on all small versions | two saves of a two-line artefact; versions of up to three lines |
| `artefact_merge` | violation: does the second of two concurrent saves keep both edits | two saves |
| `capture` | captures, runs and pages side by side | two criteria, two dispatches, two page loads at a time |
| `credits` | do the statements implement the ledger; do plan and audit log tell the truth | one tenant, a checkout, a top-up, a cancellation, an admin top-up; two turns and two deliveries at a time |
| `credits_webhook` | violation: is an acknowledged payment credited | the same |

Why the bounds are enough.

- *journey_store*: three changes let a first save be executing, a second be queued and a third
  come on top, which is all the chain distinguishes; they are also what it takes to complete a
  stage, move on and regress. One change before a delete during the reload lets two saves be queued
  behind it, one of which holds the replaced object when the reload has put the journey back and
  requests change it again. One restart is followed by a full reload and requests. Journeys do
  not interact except through the event loop, so one is enough for safety, two for liveness.
- *journey_chains*: the reload is the one step that concerns several journeys, and two of them let
  a request change one while the other is loaded. `WriteBehind` does not see the child tables.
  A delete during the reload comes before any change here; with changes before it the
  refinement is proved (and the safety checked in `journey_store`).

- *journey_disk*: two journeys are the smallest case of a shared slug; three sessions let one be
  replaced while the other journey has its own.
- *stage_flow*: the stages before definition are alike and are passed the same way, so the
  journey starts at definition: the story list, the feature-level stage after it and a story
  with a successor and the last one all occur, and a list replaced by a shorter or a longer one.
  A list submitted again is taken to name the same stories in the same order. The module
  assumes that a journey starts before the review, as the code has it start at ideate or
  discovery (`journey.js:525`). Two requests overlap in any way. `MaxDisturbances`
  and `MaxExtras` each allow one of the things their comments list, and both may happen
  in one behaviour: a restart and a reopening, a turn whose commit failed and a gate-confirm
  that fails as well, a regression under an overlapping request.
- *skill_turn*: the guards compare a request with the one before it. Two attempts tell a
  retry from the next turn. The restart is followed by restores from disk or Redis.
- *state_sync*: a put is made stale by one other writer; the second request, the checkout's push or
  both supply up to two conflicts, and the third attempt's failure is covered by `writeFails`.
- *stage_artefact*: `MCSamples` has every pair of versions of up to three lines, each an original
  line or the writer's own, in any order, so insertions, deletions, repetitions and reorderings
  all occur on both sides, of an original that repeats a line and of one that does not.
- *capture*: two criteria make a group and two groups; two dispatches make one supersede
  the other; two loads are the smallest case of pages that overwrite each other.
- *credits*: two of everything concurrent is the smallest case of a double credit or an overdraw,
  and every event may be delivered any number of times; tenants do not interact, each balance being
  its own row. Events of kind `failed` and `other` are not in the run (a failed payment
  differs from a cancellation only in the status written, an unhandled event only leaves its row in
  `stripe_events`); the proofs cover them. `MaxDebt` stops exempt turns, which could
  otherwise run a tenant's balance down for ever.

`CHECK_DEADLOCK FALSE` is set where the instance runs out of changes, sessions, requests, saves or
captures, or the journey is complete or deleted. The `credits` runs check deadlock.

Symmetry: journeys and slugs in `journey_disk`, saves in `stage_artefact`, criteria, dispatches
and loads in `capture`, turns and deliveries in `credits` are model values that nothing orders or
names; none of these runs checks liveness. `skill_turn` and `stage_flow` number their requests
and have none.

Fairness, where the code justifies it:

- `journey_chains` (`FairSpec`): the event loop runs the callback of a settled promise, hence
  weak fairness of `saveStart`; a query settles one way or the other, hence weak fairness of
  `saveCommit \/ saveFail`, except for the journeys in `Stalled`, because the code sets no
  statement timeout. Nothing is assumed of users, deletes or crashes.
- `skill_turn`: a JSON turn's step is weakly fair, one condition per request: its body arrives or the
  connection breaks, and the executor answers or fails. Streamed turns are not assumed to end.
- `stage_flow`: weak fairness of `Work`, all that users and their requests do, as one
  condition: somebody goes on working on the journey in some way or other. It does not
  say in which way. That is enough because what disturbs the work, and work that leads back,
  is bounded.

## What the passing runs show

- `WritesInOrder`, `MemoryNeverBehindRow`, `QuiescentRowMatches`: the write chain does its
  job. Rows never revert, the reload does not overwrite newer objects, and a drained
  chain means the row is the journey, with two exceptions the code really has: the last save
  failed (it is only logged), or the change was made by one of the operations that never save.
  None of the three speaks of a journey in `revived`: a delete accepted between the reload's
  read and its merge is undone by the merge, as the code has it, and a save queued before that
  delete may then write the replaced object over the new one's row.
- `NoUnreachableRow`: a server whose reload succeeded can resolve every stored journey.
  A server whose reload failed cannot, and goes on serving; that is why the property says "up".
- `DeleteFailsOnlyIfDisturbed`, `CleanDeleteIsFinal`: the order of the three DELETEs is right,
  and a delete that finds no save under way and no reload about to merge its row is final.
- `ChainDrains`: every queued save begins, whatever other journeys' queries do.
- `ImplementsWriteBehind`: nobody can tell the store from one that has no queue and reads its table
  in an instant; what a restart finds is a version that the journey had when its write began.

- `ScopeSurvives`, `ListingShowsProgress`, `DeletedStaysDeleted` (files): owner and tenant,
  completed stages and deletion agree between map and files.
- `SessionOfStage`: the page a user is sent to works on the stage the journey is at, whatever
  requests overlap.
- `NoStageSkipped`, `LeftBehindSignedOff`: no stage or story is passed without its artefact,
  and no story without an accepted definition of ready, unless a request acted on what another had
  already changed (`outdated`) or a regression kept the story index (`rewound`): both happen.
  A stories form sent from another stage does skip stages; the properties say that it skips
  no more than the feature-level stages which were not complete when it began the review
  (`passedOver`), and that the stories are signed off all the same.
- `ImplementsProgress`: the sessions, requests and awaits amount to one stage or story at a time.
  It says of each step what `NoStageSkipped` says of each state, and of rewound journeys too:
  even there a stage is left only when it is complete for the story the journey stands at.
- `NoDeadEnd`: after any one failure a user can still get the journey to its end.
- `TurnsExclusive`: streamed turns that name their attempt exclude each other until one outlives the
  guard; JSON turns always. Nothing keeps a streamed turn and a JSON turn apart.
- `BilledOnce`: a retry of an attempt that the session remembers, or after a restart the copy
  the server goes on from, is not billed on top of it. What ends the memory is sixty seconds over a
  turn, another accepted attempt, a second restore, and a restart from a copy without the attempt.
- `CompletedOnce`: two requests that overlap, turns or gate-confirms, may both find the stage open
  and both complete it: the check is made before the awaits (`skills.js:5799`, `journey.js:2673`). The
  property says that there is no other way: a further entry comes from a request that
  was past its check when another completed the stage (`late`), or after a second restore or
  a Redis copy that should have been deleted (`astray`); restarts, retries and revisions add none.
- `HistoryAlternates`: as long as requests do not overlap, no restart interrupts one and no
  background write fails, what failing models, files and commits leave behind is a
  history with an answer to each question, in the session and in both of its copies.
- `RowMatchesFile`: under the same conditions, and until a session revises its artefact, the row is
  the file. One exception takes four requests,
  more than the run has, and came out of the proof: a turn whose commit failed leaves its file, a
  later turn that cannot write its own leaves it in place, and the gate-confirm then stores
  the later content in the row.
- `JourneyFreed`: no outcome of a JSON turn leaves the journey's turn flag set.
- `NoLostUpdate`, `ConflictLoggedOnce`, `PipelineStateWins`: the sha makes each write apply to
  what it replaces, however often it starts over, and the file's stage survives a journey that moved.
- `ClosedGapsWereWritten`, `MarksWerePushed`: a gap or marker never claims what did not happen. A
  journey regressed or deleted between the CLI's update and its marker is excepted.
- `MergeKeepsBoth`, `AttributionsTrue`: the merge itself, given the right base, loses nothing, is
  symmetric and attributes lines truly. One exception: of a line that the base repeats (an empty
  one, say) each side may keep another copy, and then the merge keeps neither.
- `PagesGetTheFile`: once no save is being recorded, the pages were last sent the file, whichever
  saves overlapped and were merged, if it is a save's and no older save was pushed after it. Such a push
  does overtake in the code, since each save awaits its record first (`journey.js:1741`); and the
  file of a form post or a chat turn is not pushed at all.
- `CaptureAccounted`, `EvidenceAdvances`: a capture is never silently lost, and late answers never
  replace newer evidence, except after a restart, a dispatch answered during a page load,
  two overlapping loads, or an archive that cannot be downloaded.
- `OverdueCapturesSettle`: a page turns every capture into a failure that was overdue and whose
  run was over when it started.
- `ImplementsLedger`, `DebtBounded`, `ClaimedMeansApplied`: no interleaving, redelivery, failed
  statement or crash credits a payment twice; checking before and charging after a turn costs at
  most the turns that run at once; a paid plan and an audit row have their credits.

## What the violation runs show

1. `journey_delete`: a save queued or executing when a journey is deleted inserts the row again
   after the DELETE, and the next start loads it.
2. `artefact_merge`: the second of two concurrent saves is merged with the file as its base, which
   the first has just replaced, so the first user's lines look removed and go.
3. `credits_webhook`: the event is recorded before it is credited; a failure in between makes
   every redelivery a duplicate, answered 200, and the payment is never credited.

## Other differences between code and comments

Seen while modelling. The first two are stated in `JourneyDisk` (`ResumeKeepsStage`,
`CompletedSurviveRestart`), where TLC refutes them; the others follow from the actions named.

Journeys:

- every full save erases `currentStage` from the file (`web-ui/routes/journey.js:1754`), so a resume
  without a live session goes back to discovery;
- completing a stage erases the `stages` of the file (`web-ui/modules/journey-store.js:328`), from
  which a restart rebuilds the completed stages;
- a delete acknowledged while the server is still loading its journeys may be undone by the merge
  (`JourneyStore`, `loadMerge`);
- `markJourneyComplete` never saves although `web-ui/modules/journey-store.js:24` says it does: a
  restart of the server forgets that the journey is complete (`StageFlow`, `restart`);
- a regression to a per-story stage drops the earlier stories' entries and keeps the story index
  and the complete flag (`StageFlow`, `regress`);
- the stories form begins the review from any stage, whatever is incomplete (`StageFlow`,
  `postStories`), and two requests past their checks both complete a stage (`SkillTurn`, `late`);
- a later revision in the same session reaches the file but not its Postgres row
  (`SkillTurn`, `revised`);
- `createJourney` of `modules/journey-disk.js` overwrites where line 60 says it throws;
  `web-ui/modules/journey-store.js:322` calls the disk adapter unconditional although `server.js`
  wires it only without a database; the two `STAGE_SEQUENCE`s (`modules/journey-disk.js:19`,
  `web-ui/modules/journey-store.js:7`) order the stages differently.

Sync (`StateSync`):

- gate-confirm takes the story from `journey.stories`, which nothing fills: its gaps name no story and are
  never replayed, and no conflict of a story is ever met;
- the CLI moves its marker although the update was answered `updated: false`
  (`sync/journey-sync-client.js:149-155`, against the comment at `enforcement/cli-gate-advance.js:95`);
- the web writer takes the first write to a story without a marker for a conflict, the CLI does not
  (`sync/journey-sync-client.js:125-136`);
- a conflict logged on a first attempt may name stages that a retry then does not resolve;
- a write of a journey that is still at the marker puts the agreed stage back over one the file
  has moved to;
- two gate-advances in one checkout read and write the file without a lock.

Artefacts (`StageArtefact`): a save answered with a conflict stays in the edit buffer; pushes
that overtake each other while edits are recorded leave pages on older content; a push
replaces what a user has typed since.

Capture (`Capture`):

- `captureInProgress` is not in the Postgres allowlist, so a restart forgets captures in flight;
- a download that fails after an earlier group of the same load was collected clears the marks
  without a commit;
- a dispatch answered while a page loads is overwritten when the page writes its copies back, and
  two overlapping loads drop each other's evidence;
- an artifact that cannot be committed makes every page fail and keeps its captures in progress
  until it expires, seven days later; so does one found for a product without a repository, which
  the comment at `web-ui/routes/playback-evidence.js:774-778` says times out.

Credits: `adjustBalanceWithAudit` calls itself atomic and is two statements, so an adjustment
may go unaudited (`adjustError`, `crash`).

## Proofs

All proofs hold for any journeys, stages, stories, sessions, captures, tenants, events and prices,
and any number of concurrent requests. Their assumptions are the named `ASSUME`s of the modules:
sentinels are distinct from values, bounds and amounts are naturals, the set of turns is finite and
not empty, the price of a turn is positive, the versions given to the merge are sequences.

`JourneyStoreProofs` proves the type invariant, the safety invariants and the action property
`WritesInOrder` of the run `journey_store`. None but the typing is inductive. `IInv` adds:
one INSERT executes at a time (`OneSave`); revisions only age on the way from object over INSERT to
row, and saves hold an object the map no longer has, only where a reload put the journey back
(`RevOrder`, `OrphansRevived`); what passed the allowlist passes again (`Sanitised`); before the merge
nothing but journeys created since the start changes or is deleted, so the snapshot is current for
the others (`LoadingQuiet`); ids not handed out left no trace (`UnusedAbsent`); a deleted journey is out
of the map unless a reload put it back (`DeletedAbsent`); only held or deleted journeys have saves to do (`HeldOrDeleted`);
the progress of an undisturbed delete (`ChildrenCleared`); nothing is left to write a cleanly deleted
row (`CleanGone`); and the newest version is executing or stored once nothing is queued
(`Settled`). The proof of the step has one lemma or step per action. That `JourneyStore` implements
`WriteBehind` rests on the same invariant. `OneSave` makes the executing INSERT the one version
on its way, and `LoadingQuiet` makes the merge of an old snapshot equal to a reading of the table
at that moment, but for journeys deleted meanwhile. `DeparturesAreFinal` follows from the refinement without another look at the store's
handlers: a delete is not final when it is answered (`journey_delete`), but it is as soon as
nothing of the journey is queued, executing or stored, and no reload is about to merge it. No run
repeats it.

`JourneyDiskProofs` proves the typing, `ScopeSurvives`, `ListingShowsProgress` and the action property
`DeletedStaysDeleted`. What makes them inductive is that every file belongs to a journey in
the map, under that journey's slug (`FilesAreOfTheMap`): a deletion looks for the file under the
slug of the map, so without it a file could be left that the next start loads. An id is used
once (`GoneIsNotLoaded`).

`StageFlowProofs` proves the typing and the three other safety properties. For `SessionOfStage` the invariant
needs that a gate-confirm under way is about a session there is (`ConfirmsASession`); every step either
leaves the active session, appends the one it activates, or clears it (`ActiveMoves`).
`NoStageSkipped` and `LeftBehindSignedOff` rest on `Ordered`, which has two halves. `Base`
holds until a request acts on outdated information: the stages before the active one are
complete or passed over, a settled session's stage is recorded, and what each request has read still
holds (`UpToDate`). `Cycle` holds as long as in addition no
regression has kept the story index: a review is the first story's, and in the stages of a story the
ones before it are signed off, the active session is that of the story that follows, unless that one
is signed off as well, and a definition of ready has a complete test plan. Because a stories form sets
list and index back under a running journey while the row keeps the old ones, this has to hold at three
places (`CycleAt`): of the memory, of the row, and of the first story of a list yet to be begun.
`Base` has to hold of a rewound journey too, because a new story
list ends that state and the argument resumes from there. Steps that leave the journey where it is
(`Stays`) are treated in one lemma; those that move it begin a new session (`Activated`).
That `StageFlow` implements `StageProgress` needs, for rewound journeys, the part of the cycle that a
regression leaves alone, about the row and the active session (`Placed`), which holds unless a list was
submitted elsewhere: from it and `Base`, what a
gate-confirm has completed is the stage of the story the journey stands at (`ConfirmedHere`). Then
each handler is one abstract step, or a stage recorded, or not seen.

`SkillTurnProofs` proves the typing and all the safety properties. For JSON turns the invariant
says that the flag is set exactly while one works. For streamed turns it is `GuardCovers`:
until a guard is overrun, each named turn works on the object in the store and that object's attempt
memory names it as in flight, which is what a second request finds; most steps leave it alone
(`Undisturbed`), and one lemma each treats a turn that begins, goes on and ends. `BilledOnce`
needs in addition that an attempt billed and not forgotten is still remembered where a retry looks
(`Vouched`), be it the session or the copy a restarted server restores (`Found`). `CompletedOnce`
rests on an invariant that holds however requests overlap, until a session goes astray (`Once`):
requests work on the object in the store, a committing one has found the stage open or was
overtaken (`FoundOpen`), and once the stage has its entry the session and every copy it can be
restored from know (`StoreKnows`, `CopiesKnow`). `RowMatchesFile` compares the session in the store,
its copies on disk and in Redis, and the stage: each copy, seen as a small outline of what it says
about completion and artefact, agrees with file, row and entries (`Settled`), whichever of them the
next restore takes. `HistoryAlternates` needs that every copy ends with an answer and that each
request under way has the question it will answer in place (`Told`).

`StateSyncProofs` proves the typing and all five properties of the run. Besides the properties the
invariant says that a write has logged nothing before its first conflict (`LogsOnce`), and that a
replay carries the very update of its gap (`ReplaysItsGap`). `NoLostUpdate` and `PipelineStateWins`
then need only that a put finds the content it was computed from.

`StageArtefactProofs` proves `PagesGetTheFile`: the save that wrote the file carries what the file
holds until its push, and unless it was overtaken its push is the last (`WriterOnItsWay`). It also proves `AttributionsTrue` and
`MergeKeepsBoth` for documents of any lines and length. The merge is built from recursive
functions, and an induction theorem with an operator parameter cannot be used; `Induct` states
induction of a set of numbers instead and follows from the least element of its complement. Each
recursive function is first shown to exist and then to have what it promises, from its end
backwards: the pairs of `lcsMatch` are equal lines and do not cross (`Matched`), the clusters of `Clusters`
are apart and every hunk is in one (`Clustered`). Between consecutive matched lines there is one hunk or
none (`HunkIsGap`), so a base line is matched or in a hunk, and not both (`BaseCovered`), and a line of a
version is matched or brought by a hunk (`OtherCovered`). The text is then followed through the
concatenation: what a hunk brings and what no hunk replaces is in it (`HunksSurvive`, `KeptSurvives`),
and with one side unchanged the concatenation up to a base position is the beginning of the other version
(`MergeWithBase`). Nothing says that the pairs of `lcsMatch` are as many as possible, and
nothing needs it.

`CaptureProofs` proves the typing and the three properties of the run. `Accounts` relates the page
loads to the journey: marks in progress name the last capture (`MarksAreLatest`), an undisturbed load
is alone (`PagesAlone`), its copies account for every capture as the journey did (`CopiesGood`),
and what it has committed is in the repository (`CommitsGood`). `OverdueCleared` says that of
the overdue groups a load has dealt with, none is in progress in its copies.

`CreditsProofs` proves the debt bound of the abstract ledger first. It is not inductive: a
balance of 1 with no turn left to charge satisfies it, and so does the same balance with two turns
running. What is inductive (`Covered`) looks at the balance once all running turns are charged: it is
non-negative, or was positive when the last of at most `MaxOpen` turns was admitted. Then it
proves that `Credits` is well typed, that `ClaimedMeansApplied` holds, and that
every step of `Credits` is a step of the ledger or a stutter. The refinement needs an invariant:
at most one delivery is about to credit an event, the event is recorded and not yet credited
(`CreditOnce`), what is credited is recorded (`RecordedFirst`), a plan is set after its credit
(`PlanLast`), an adjustment is credited once (`AdjustOnce`). The debt bound of the
implementation then follows from the refinement and the ledger's theorem, and is not proved again.

The typing of `Credits`, `StateSync` and `JourneyDisk` is proved only; no run checks it.

Only model-checked: liveness (`ChainDrains`, `JourneyFreed`, `NoDeadEnd`; the prover has no rule
for fairness).

## Left out of the modelled components

- `JourneyStore`: deleting a product; a second DELETE of a journey the reload has put back, before the
  first is answered; `setCaptureTarget` and the flag setters, which have the shape of
  `setClarifyDone` with a field inside the allowlist.
- `JourneyDisk`: failed file writes (the code ignores the error); story mode; features of
  `pipeline-state.json` routed to gates that are no skills; the restore from Redis, which is off on
  a developer's machine; `updateCompletedStageSessionId`, which on disk only adds a session id.
- `StageFlow`: metrics, events, artefact contents, side trips, export; the order of Postgres writes
  (`JourneyStore`) and of a session's turns (`SkillTurn`).
- `SkillTurn`: canvas, condition and assumption markers of a reply, building the prompt, eviction of
  idle sessions, list pages.
- `StateSync`: enum validation, story fields other than stage and marker, the local-file writer (one
  synchronous read and write of the same update), the freshness label, the rules of the
  outer-loop validator and the governance package (pure checks of a document).
- `StageArtefact`: access checks, the `feature_edits` rows, which nothing reads, presence.
- `Capture`: CSRF, the limit of one capture a minute, the nonce's store (a run whose exchange fails is
  one that dies), choosing targets, sign-off, rendering.
- `Credits`: checkout and portal pages, which only call Stripe; events that name no tenant;
  signatures and CSRF tokens (a request that fails them changes nothing); which turns the
  model refuses and why (`endUncharged` ends any of them); the journey cap.

## Not modelled

- Products, organisations, teams, agencies, impersonation, roles: requests that read and write
  rows with single statements; no state of theirs spans a step, apart from the deletion of a
  product with its journeys, listed as a hazard.
- Login, web sessions, CSRF, rate limits: each request decides on one record.
- Approval channel, Teams bot, distribution, improvement agent, gate validator, trace registry, suite
  parser: stateless or run once by a person.
- Most lines of the large route files build HTML, prompts and queries; test-only endpoints in
  `web-ui/server.js` set state up for end-to-end tests. Neither is behaviour over time, which is why
  the modules cover a small share of the lines.

## Plan

1. In the existing modules: product deletion in `JourneyStore`
   (`web-ui/routes/products.js:3133`), the journey cap (`web-ui/routes/journey.js:557`) with the plan
   of `Credits`, the order of a subscription's events (`web-ui/routes/billing.js:379`).
2. Proofs: one abstract queue of turns that `SkillTurn` implements, and what the file and the
   map of `JourneyDisk` promise together.
3. The window of the rate limiter as a small module.
