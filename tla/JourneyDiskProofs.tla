-------------------------- MODULE JourneyDiskProofs ---------------------------
(***************************************************************************)
(* Proofs about JourneyDisk, for any journeys, slugs, sessions and         *)
(* restarts.                                                               *)
(***************************************************************************)
EXTENDS JourneyDisk, TLAPS

USE SkillsAssumption, BoundsAssumption, AbsentAssumption

SessionRecord == [journey : Journeys, skill : Skills,
                  state : {"open", "done", "recorded", "evicted"}]

\* The file of a slug is that of a journey the map has, under that slug: what
\* is deleted from the map has no file left, wherever it is looked for.
FilesAreOfTheMap ==
    \A s \in Slugs : file[s] # NoFile =>
        file[s].id \in Loaded /\ memory[file[s].id].slug = s

\* An id is used once, so a journey that is gone has nothing to come back with.
GoneIsNotLoaded == Loaded \subseteq used /\ gone \cap Loaded = {}

IInv ==
    /\ TypeOK
    /\ FilesAreOfTheMap
    /\ GoneIsNotLoaded
    /\ ScopeSurvives
    /\ ListingShowsProgress

-------------------------------------------------------------------------------
(***************************************************************************)
(* Types.                                                                  *)
(***************************************************************************)

LEMMA EntryType ==
    ASSUME TypeOK, NEW j \in Loaded
    PROVE  j \in Journeys /\ memory[j] \in Entry
BY DEF TypeOK, Loaded

LEMMA FileType ==
    ASSUME TypeOK, NEW s \in Slugs, file[s] # NoFile
    PROVE  file[s] \in File
BY DEF TypeOK

\* The file a save writes, and what updateStage makes of one.
LEMMA SavedType ==
    ASSUME NEW j \in Journeys, NEW m \in Entry
    PROVE  /\ saveJourney(j, m) \in File
           /\ saveJourney(j, m).id = j
           /\ saveJourney(j, m).done = m.done
           /\ saveJourney(j, m).scoped = m.scoped
BY DEF saveJourney, File, Entry, NoStages, Stage

LEMMA UpdatedType ==
    ASSUME NEW f \in File \cup {NoFile}, NEW stage \in Skills,
           NEW status \in {"active", "complete"}
    PROVE  /\ updateStage(f, stage, status) \in File \cup {NoFile}
           /\ updateStage(f, stage, status) = NoFile <=> f = NoFile
           /\ f # NoFile =>
                 /\ updateStage(f, stage, status).id = f.id
                 /\ updateStage(f, stage, status).done = f.done
                 /\ updateStage(f, stage, status).scoped = f.scoped
<1>1. CASE f = NoFile
  BY <1>1 DEF updateStage
<1>2. CASE f # NoFile
  <2> DEFINE new == [f EXCEPT !.stages[stage] = status, !.current = stage]
  <2>1. f \in File /\ updateStage(f, stage, status) = new
    BY <1>2 DEF updateStage
  <2>2. new \in File /\ new.id = f.id /\ new.done = f.done /\ new.scoped = f.scoped
    BY <2>1 DEF File, Stage
  <2> HIDE DEF new
  <2>3. QED
    BY <1>2, <2>1, <2>2
<1>3. QED
  BY <1>1, <1>2

LEMMA LoadedType ==
    ASSUME NEW f \in File, NEW slug \in Slugs
    PROVE  /\ loadedEntry(f, slug) \in Entry
           /\ loadedEntry(f, slug).slug = slug
           /\ loadedEntry(f, slug).scoped = f.scoped
BY DEF loadedEntry, File, Entry, SessionIds

\* A session that is opened, and one that moves on.
LEMMA OpenedType ==
    ASSUME TypeOK, NEW j \in Journeys, NEW skill \in Skills, openSession(j, skill)
    PROVE  /\ sessions' \in Seq(SessionRecord) /\ Len(sessions') <= MaxSessions
           /\ NewSession \in SessionIds
<1>1. sessions \in Seq(SessionRecord) /\ Len(sessions) \in Nat
  BY DEF TypeOK, SessionRecord
<1>2. [journey |-> j, skill |-> skill, state |-> "open"] \in SessionRecord
  BY DEF SessionRecord
<1> QED
  BY <1>1, <1>2 DEF openSession, NewSession, SessionIds

LEMMA MovedOnType ==
    ASSUME TypeOK, NEW i \in DOMAIN sessions, NEW state \in {"done", "recorded", "evicted"},
           sessions' = [sessions EXCEPT ![i].state = state]
    PROVE  sessions' \in Seq(SessionRecord) /\ Len(sessions') <= MaxSessions
<1> DEFINE new == [sessions[i] EXCEPT !.state = state]
<1>1. sessions \in Seq(SessionRecord) /\ Len(sessions) <= MaxSessions
  BY DEF TypeOK, SessionRecord
<1>2. sessions[i] \in SessionRecord
  BY <1>1
<1>3. new \in SessionRecord /\ sessions' = [sessions EXCEPT ![i] = new]
  BY <1>2 DEF SessionRecord
<1> HIDE DEF new
<1>4. sessions' \in [1..Len(sessions) -> SessionRecord] /\ Len(sessions) \in Nat
  BY <1>1, <1>3
<1> QED
  BY <1>1, <1>4

-------------------------------------------------------------------------------
(***************************************************************************)
(* The shapes steps have.                                                  *)
(***************************************************************************)

\* Entries and files keep what the properties read of them.
KeepsShape ==
    /\ \A j \in Journeys :
          /\ memory'[j] = NotLoaded <=> memory[j] = NotLoaded
          /\ memory[j] # NotLoaded =>
                /\ memory'[j].slug = memory[j].slug
                /\ memory'[j].done = memory[j].done
                /\ memory'[j].scoped = memory[j].scoped
    /\ \A s \in Slugs :
          /\ file'[s] = NoFile <=> file[s] = NoFile
          /\ file[s] # NoFile =>
                /\ file'[s].id = file[s].id
                /\ file'[s].done = file[s].done
                /\ file'[s].scoped = file[s].scoped
    /\ used' = used
    /\ UNCHANGED ghosts

\* What is left to show of a step's types.
StepTyped ==
    /\ memory' \in [Journeys -> Entry \cup {NotLoaded}]
    /\ file' \in [Slugs -> File \cup {NoFile}]
    /\ sessions' \in Seq(SessionRecord)
    /\ Len(sessions') <= MaxSessions
    /\ restarts' \in 0 .. MaxRestarts

LEMMA ShapeKept ==
    ASSUME IInv, StepTyped, KeepsShape
    PROVE  IInv'
<1>1. Loaded' = Loaded
  BY DEF KeepsShape, Loaded
<1>2. TypeOK'
  BY DEF IInv, StepTyped, KeepsShape, TypeOK, SessionRecord, ghosts
<1>3. \A j \in Loaded : j \in Journeys /\ memory[j] # NotLoaded
  BY DEF Loaded
<1>4. \A s \in Slugs : file[s] # NoFile => file[s].id \in Journeys
  BY FileType DEF IInv, File
<1>5. FilesAreOfTheMap'
  BY <1>1, <1>3 DEF IInv, KeepsShape, FilesAreOfTheMap
<1>6. GoneIsNotLoaded'
  BY <1>1 DEF IInv, KeepsShape, GoneIsNotLoaded, ghosts
<1>7. ScopeSurvives'
  BY <1>1, <1>3 DEF IInv, KeepsShape, ScopeSurvives, ghosts
<1>8. ListingShowsProgress'
  <2>1. \A j \in Loaded : memory[j].slug \in Slugs
    BY EntryType DEF IInv, Entry
  <2> QED
    BY <1>1, <1>3, <2>1 DEF IInv, KeepsShape, ListingShowsProgress, ghosts
<1> QED
  BY <1>2, <1>5, <1>6, <1>7, <1>8 DEF IInv

\* A journey of the map is changed and saved, or a new one is: its file says
\* what the map says, and no other journey has that file any more.
SavesEntry(j, m) ==
    /\ memory' = [memory EXCEPT ![j] = m]
    /\ file'[m.slug].id = j
    /\ file'[m.slug].done = m.done
    /\ file'[m.slug].scoped = m.scoped
    /\ file'[m.slug] # NoFile
    /\ \A s \in Slugs \ {m.slug} : file'[s] = file[s]
    /\ reloaded' = reloaded
    /\ gone' = gone
    /\ finished' \in [Journeys -> SUBSET Skills]
    /\ used' = used \cup {j}
    /\ scope' \in {scope, scope \cup {j}}

LEMMA EntrySaved ==
    ASSUME IInv, StepTyped, NEW j \in Journeys, NEW m \in Entry, SavesEntry(j, m),
           j \in Loaded => m.slug = memory[j].slug,
           j \notin Loaded => j \notin used,
           j \in scope' => m.scoped
    PROVE  IInv'
<1> USE DEF SavesEntry
<1>1. TypeOK /\ memory \in [Journeys -> Entry \cup {NotLoaded}]
  BY DEF IInv, TypeOK
<1>2. /\ memory'[j] = m
      /\ \A k \in Journeys \ {j} : memory'[k] = memory[k]
  BY <1>1
<1>3. Loaded' = Loaded \cup {j}
  BY <1>2 DEF Loaded
<1>4. TypeOK'
  BY <1>1 DEF StepTyped, TypeOK, SessionRecord
<1>5. \A s \in Slugs \ {m.slug} : file[s] # NoFile => file[s].id # j
  BY DEF IInv, FilesAreOfTheMap, GoneIsNotLoaded
<1>6. \A s \in Slugs : file[s] # NoFile => file[s].id \in Loaded
  BY DEF IInv, FilesAreOfTheMap
<1>7. \A k \in Loaded : k \in Journeys /\ memory[k].slug \in Slugs
  BY EntryType, <1>1 DEF Entry
<1>8. m.slug \in Slugs
  BY DEF Entry
<1>9. FilesAreOfTheMap'
  BY <1>2, <1>3, <1>5, <1>6, <1>7 DEF IInv, FilesAreOfTheMap
<1>10. GoneIsNotLoaded'
  BY <1>1, <1>3 DEF IInv, GoneIsNotLoaded, TypeOK
<1>11. ScopeSurvives'
  BY <1>2, <1>3, <1>5, <1>6, <1>7 DEF IInv, ScopeSurvives
<1>12. ListingShowsProgress'
  BY <1>2, <1>3, <1>7 DEF IInv, ListingShowsProgress
<1> QED
  BY <1>4, <1>9, <1>10, <1>11, <1>12 DEF IInv

-------------------------------------------------------------------------------
(***************************************************************************)
(* The initial state and the steps.                                        *)
(***************************************************************************)

LEMMA IInvInit == Init => IInv
<1> SUFFICES ASSUME Init PROVE IInv
  OBVIOUS
<1>1. TypeOK /\ Loaded = {}
  BY DEF Init, TypeOK, Loaded
<1> QED
  BY <1>1 DEF Init, IInv, FilesAreOfTheMap, GoneIsNotLoaded, ScopeSurvives,
              ListingShowsProgress

LEMMA CreatedType ==
    ASSUME NEW slug \in Slugs
    PROVE  Created(slug) \in Entry
BY DEF Created, Entry, Stage, SessionIds

\* A new journey takes the slug's file from any older one.
LEMMA CreationSteps ==
    ASSUME IInv, NEW j \in Journeys, NEW slug \in Slugs, NEW skill \in Skills,
           handlePostJourney(j, slug, skill) \/ handlePostJourneyGrounded(j, slug)
    PROVE  IInv'
<1>1. /\ TypeOK /\ j \notin used /\ j \notin Loaded /\ used' = used \cup {j}
      /\ Created(slug) \in Entry
  BY CreatedType DEF IInv, GoneIsNotLoaded, handlePostJourney, handlePostJourneyGrounded
<1>2. CASE handlePostJourney(j, slug, skill)
  <2> DEFINE m == [Created(slug) EXCEPT !.skill = skill, !.session = NewSession]
             f == updateStage(saveJourney(j, Created(slug)), skill, "active")
  <2>1. sessions' \in Seq(SessionRecord) /\ Len(sessions') <= MaxSessions
        /\ NewSession \in SessionIds
    BY <1>1, <1>2, OpenedType DEF handlePostJourney
  <2>2. m \in Entry /\ m.slug = slug /\ m.done = {} /\ m.scoped
    BY <2>1 DEF Created, Entry, Stage
  <2>3. f \in File /\ f.id = j /\ f.done = {} /\ f.scoped /\ f # NoFile
    <3>1. /\ saveJourney(j, Created(slug)) \in File
          /\ saveJourney(j, Created(slug)).id = j
          /\ saveJourney(j, Created(slug)).done = {}
          /\ saveJourney(j, Created(slug)).scoped
      BY <1>1, SavedType DEF Created
    <3> QED
      BY <3>1, UpdatedType
  <2>4. memory' = [memory EXCEPT ![j] = m] /\ file' = [file EXCEPT ![slug] = f]
    BY <1>2 DEF handlePostJourney
  <2> HIDE DEF m, f
  <2>5. StepTyped
    BY <1>1, <1>2, <2>1, <2>2, <2>3, <2>4 DEF handlePostJourney, StepTyped, TypeOK
  <2>6. SavesEntry(j, m)
    BY <1>1, <1>2, <2>2, <2>3, <2>4 DEF handlePostJourney, SavesEntry, TypeOK
  <2> QED
    BY <1>1, <2>2, <2>5, <2>6, EntrySaved
<1>3. CASE handlePostJourneyGrounded(j, slug)
  <2> DEFINE m == Created(slug)
  <2>1. m.slug = slug /\ m.scoped
    BY DEF Created
  <2>2. /\ memory' = [memory EXCEPT ![j] = m]
        /\ file' = [file EXCEPT ![slug] = saveJourney(j, m)]
    BY <1>3, <2>1 DEF handlePostJourneyGrounded, setAndSave
  <2>3. m \in Entry
    BY <1>1
  <2> HIDE DEF m
  <2>4. StepTyped
    BY <1>1, <1>3, <2>2, <2>3, SavedType
    DEF handlePostJourneyGrounded, StepTyped, TypeOK, SessionRecord
  <2>5. SavesEntry(j, m)
    <3>1. saveJourney(j, m) # NoFile
      BY <2>3, SavedType
    <3> QED
      BY <1>1, <1>3, <2>1, <2>2, <2>3, <3>1, SavedType
      DEF handlePostJourneyGrounded, SavesEntry, TypeOK
  <2> QED
    BY <1>1, <2>1, <2>3, <2>4, <2>5, EntrySaved
<1> QED
  BY <1>2, <1>3

\* A journey that pipeline-state.json knows and neither store does.
LEMMA BackfillStep ==
    ASSUME IInv, NEW slug \in Slugs, NEW j \in Journeys, NEW stage \in Skills,
           resumeBackfilled(slug, j, stage)
    PROVE  IInv'
<1> DEFINE skill == backfillSkill(stage)
           done == {s \in Skills : ~isStrictlyLaterStage(stage, s)}
           old == [slug |-> slug, skill |-> skill, session |-> 0, done |-> done,
                   scoped |-> FALSE, complete |-> FALSE]
           m == [old EXCEPT !.session = NewSession]
           f == updateStage(saveJourney(j, old), skill, "active")
<1>1. /\ TypeOK /\ j \notin used /\ j \notin Loaded /\ skill \in Skills
      /\ openSession(j, skill) /\ scope \subseteq used
  BY DEF IInv, TypeOK, GoneIsNotLoaded, resumeBackfilled
<1>2. sessions' \in Seq(SessionRecord) /\ Len(sessions') <= MaxSessions
      /\ NewSession \in SessionIds
  BY <1>1, OpenedType
<1>3. /\ memory' = [memory EXCEPT ![j] = m]
      /\ file' = [file EXCEPT ![slug] = f]
      /\ finished' = [finished EXCEPT ![j] = done]
      /\ used' = used \cup {j}
      /\ UNCHANGED <<restarts, scope, reloaded, gone>>
  BY DEF resumeBackfilled
<1>4. done \subseteq Skills
  OBVIOUS
<1> HIDE DEF skill, done
<1>5. old \in Entry /\ old.done = done /\ old.scoped = FALSE
  BY <1>1, <1>4 DEF Entry, Stage, SessionIds
<1>6. m \in Entry /\ m.slug = slug /\ m.done = done /\ m.scoped = FALSE
  BY <1>1, <1>2, <1>4 DEF Entry, Stage
<1>7. f \in File /\ f.id = j /\ f.done = done /\ f.scoped = FALSE /\ f # NoFile
  <2>1. /\ saveJourney(j, old) \in File
        /\ saveJourney(j, old).id = j
        /\ saveJourney(j, old).done = done
        /\ saveJourney(j, old).scoped = FALSE
    BY <1>5, SavedType
  <2> HIDE DEF old
  <2> QED
    BY <1>1, <2>1, UpdatedType
<1> HIDE DEF old, m, f
<1>8. StepTyped
  BY <1>1, <1>2, <1>3, <1>6, <1>7 DEF StepTyped, TypeOK
<1>9. SavesEntry(j, m)
  BY <1>1, <1>3, <1>4, <1>6, <1>7 DEF SavesEntry, TypeOK
<1> QED
  BY <1>1, <1>3, <1>6, <1>8, <1>9, EntrySaved

LEMMA RegressedType ==
    ASSUME NEW e \in Entry, NEW done \in SUBSET Skills, NEW target \in Skills
    PROVE  /\ [e EXCEPT !.done = done, !.skill = target, !.session = 0] \in Entry
           /\ [e EXCEPT !.done = done, !.skill = target, !.session = 0].slug = e.slug
           /\ [e EXCEPT !.done = done, !.skill = target, !.session = 0].scoped = e.scoped
<1>1. 0 \in SessionIds
  BY DEF SessionIds
<1> QED
  BY <1>1 DEF Entry, Stage

\* A journey of the map that is changed and saved.
LEMMA SaveSteps ==
    ASSUME IInv,
           \/ \E i \in DOMAIN sessions : completeStage(i)
           \/ \E j \in Journeys : setJourneyFields(j)
           \/ \E j \in Journeys, target \in Skills : handlePostJourneyRegress(j, target)
    PROVE  IInv'
<1>1. TypeOK /\ Loaded \subseteq used
  BY DEF IInv, GoneIsNotLoaded
<1>2. ASSUME NEW j \in Loaded, NEW m \in Entry, setAndSave(j, m),
             m.slug = memory[j].slug, m.scoped = memory[j].scoped,
             sessions' \in Seq(SessionRecord), Len(sessions') <= MaxSessions,
             finished' \in [Journeys -> SUBSET Skills],
             UNCHANGED <<used, restarts, scope, reloaded, gone>>
      PROVE  IInv'
  <2>1. j \in Journeys /\ j \in used /\ m.slug \in Slugs
    BY <1>1, <1>2, EntryType DEF Entry
  <2>2. StepTyped
    BY <1>1, <1>2, <2>1, SavedType DEF setAndSave, StepTyped, TypeOK
  <2>3. SavesEntry(j, m)
    BY <1>1, <1>2, <2>1, SavedType DEF setAndSave, SavesEntry, TypeOK
  <2>4. j \in scope' => m.scoped
    BY <1>2 DEF IInv, ScopeSurvives
  <2> QED
    BY <1>2, <2>1, <2>2, <2>3, <2>4, EntrySaved
<1>3. ASSUME NEW i \in DOMAIN sessions, completeStage(i) PROVE IInv'
  <2> DEFINE j == sessions[i].journey
             skill == sessions[i].skill
             m == [memory[j] EXCEPT !.done = @ \cup {skill}]
  <2>1. j \in Loaded /\ setAndSave(j, m) /\ skill \in Skills
    <3>1. sessions[i] \in SessionRecord
      <4>1. sessions \in Seq(SessionRecord)
        BY <1>1 DEF TypeOK, SessionRecord
      <4> QED
        BY <4>1
    <3>2. j \in Loaded /\ setAndSave(j, m)
      BY <1>3 DEF completeStage
    <3> QED
      BY <3>1, <3>2 DEF SessionRecord
  <2>2. m \in Entry /\ m.slug = memory[j].slug /\ m.scoped = memory[j].scoped
    <3>1. memory[j] \in Entry
      BY <1>1, <2>1, EntryType
    <3> HIDE DEF j, skill
    <3> QED
      BY <2>1, <3>1 DEF Entry
  <2>3. sessions' \in Seq(SessionRecord) /\ Len(sessions') <= MaxSessions
    BY <1>1, <1>3, MovedOnType DEF completeStage
  <2>4. /\ finished' \in [Journeys -> SUBSET Skills]
        /\ UNCHANGED <<used, restarts, scope, reloaded, gone>>
    BY <1>1, <1>3, <2>1 DEF completeStage, TypeOK
  <2> HIDE DEF m, j
  <2> QED
    BY <1>2, <2>1, <2>2, <2>3, <2>4
<1>4. ASSUME NEW j \in Journeys, setJourneyFields(j) PROVE IInv'
  <2>1. j \in Loaded /\ memory[j] \in Entry /\ setAndSave(j, memory[j])
    BY <1>1, <1>4, EntryType DEF setJourneyFields
  <2>2. /\ sessions' \in Seq(SessionRecord) /\ Len(sessions') <= MaxSessions
        /\ finished' \in [Journeys -> SUBSET Skills]
        /\ UNCHANGED <<used, restarts, scope, reloaded, gone>>
    BY <1>1, <1>4 DEF setJourneyFields, TypeOK, SessionRecord, ghosts
  <2> QED
    BY <1>2, <2>1, <2>2
<1>5. ASSUME NEW j \in Journeys, NEW target \in Skills, handlePostJourneyRegress(j, target)
      PROVE  IInv'
  <2> DEFINE invalidated == {target} \cup getDownstreamStages(target)
             m == [memory[j] EXCEPT !.done = @ \ invalidated,
                                    !.skill = target, !.session = 0]
  <2>1. j \in Loaded /\ memory[j] \in Entry /\ setAndSave(j, m)
    BY <1>1, <1>5, EntryType DEF handlePostJourneyRegress
  <2>2. /\ finished' = [finished EXCEPT ![j] = @ \ invalidated]
        /\ UNCHANGED <<sessions, used, restarts, scope, reloaded, gone>>
    BY <1>5 DEF handlePostJourneyRegress
  <2> HIDE DEF invalidated
  <2>3. m \in Entry /\ m.slug = memory[j].slug /\ m.scoped = memory[j].scoped
    <3>1. PICK done \in SUBSET Skills : done = memory[j].done \ invalidated
      BY <2>1 DEF Entry
    <3>2. PICK e \in Entry : e = memory[j]
      BY <2>1
    <3> DEFINE new == [e EXCEPT !.done = done, !.skill = target, !.session = 0]
    <3>3. m = new
      BY <3>1, <3>2
    <3>4. new \in Entry /\ new.slug = e.slug /\ new.scoped = e.scoped
      BY RegressedType
    <3> HIDE DEF m, new
    <3> QED
      BY <3>2, <3>3, <3>4
  <2>4. finished' \in [Journeys -> SUBSET Skills]
    BY <1>1, <2>2 DEF TypeOK
  <2>5. sessions' \in Seq(SessionRecord) /\ Len(sessions') <= MaxSessions
    BY <1>1, <2>2 DEF TypeOK, SessionRecord
  <2> HIDE DEF m
  <2> QED
    BY <1>2, <2>1, <2>2, <2>3, <2>4, <2>5
<1> QED
  BY <1>3, <1>4, <1>5

\* A session that only moves on, or is evicted.
LEMMA SessionSteps ==
    ASSUME IInv,
           \E i \in DOMAIN sessions :
              finishSession(i) \/ evictSession(i) \/ recordRevision(i)
    PROVE  IInv'
<1>1. PICK i \in DOMAIN sessions :
         finishSession(i) \/ evictSession(i) \/ recordRevision(i)
  OBVIOUS
<1>2. /\ \E state \in {"done", "recorded", "evicted"} :
            sessions' = [sessions EXCEPT ![i].state = state]
      /\ UNCHANGED <<memory, file, used, restarts, ghosts>>
  BY <1>1 DEF finishSession, evictSession, recordRevision
<1>3. sessions' \in Seq(SessionRecord) /\ Len(sessions') <= MaxSessions
  BY <1>2, MovedOnType DEF IInv
<1>4. StepTyped
  BY <1>2, <1>3 DEF IInv, TypeOK, StepTyped
<1>5. KeepsShape
  BY <1>2 DEF KeepsShape
<1> QED
  BY <1>4, <1>5, ShapeKept

\* The stage a resume or a gate-confirm goes on at.
LEMMA StageOfEntry ==
    ASSUME NEW stage \in Stage
    PROVE  OrDiscovery(stage) \in Skills
BY DEF OrDiscovery, Stage

\* A journey of the map gets a new active session; its file notes the stage,
\* or stays as it is.
LEMMA ActivationShape ==
    ASSUME IInv, NEW j \in Journeys, NEW skill \in Skills, openSession(j, skill),
           memory' = IF j \in Loaded
                     THEN [memory EXCEPT ![j].skill = skill, ![j].session = NewSession]
                     ELSE memory,
           \/ file' = file
           \/ \E s \in Slugs :
                 file' = [file EXCEPT ![s] = updateStage(file[s], skill, "active")],
           UNCHANGED <<used, restarts, ghosts>>
    PROVE  IInv'
<1>1. TypeOK /\ file \in [Slugs -> File \cup {NoFile}]
             /\ memory \in [Journeys -> Entry \cup {NotLoaded}]
  BY DEF IInv, TypeOK
<1>2. sessions' \in Seq(SessionRecord) /\ Len(sessions') <= MaxSessions
      /\ NewSession \in SessionIds
  BY <1>1, OpenedType
<1>3. /\ memory' \in [Journeys -> Entry \cup {NotLoaded}]
      /\ \A k \in Journeys :
            /\ memory'[k] = NotLoaded <=> memory[k] = NotLoaded
            /\ memory[k] # NotLoaded =>
                  /\ memory'[k].slug = memory[k].slug
                  /\ memory'[k].done = memory[k].done
                  /\ memory'[k].scoped = memory[k].scoped
  <2>1. CASE j \in Loaded
    <3> DEFINE m == [memory[j] EXCEPT !.skill = skill, !.session = NewSession]
    <3>1. memory[j] \in Entry /\ memory[j] # NotLoaded
      BY <1>1, <2>1 DEF Loaded
    <3>2. /\ m \in Entry /\ m.slug = memory[j].slug /\ m.done = memory[j].done
          /\ m.scoped = memory[j].scoped
      BY <1>2, <3>1 DEF Entry, Stage
    <3>3. memory' = [memory EXCEPT ![j] = m]
      BY <1>1, <2>1, <3>1
    <3> HIDE DEF m
    <3> QED
      BY <1>1, <3>1, <3>2, <3>3
  <2>2. CASE j \notin Loaded
    BY <1>1, <2>2
  <2> QED
    BY <2>1, <2>2
<1> DEFINE FileKept ==
             /\ file' \in [Slugs -> File \cup {NoFile}]
             /\ \A s \in Slugs :
                   /\ file'[s] = NoFile <=> file[s] = NoFile
                   /\ file[s] # NoFile =>
                         /\ file'[s].id = file[s].id
                         /\ file'[s].done = file[s].done
                         /\ file'[s].scoped = file[s].scoped
<1>4. FileKept
  <2>1. CASE file' = file
    BY <1>1, <2>1
  <2>2. ASSUME NEW s \in Slugs,
               file' = [file EXCEPT ![s] = updateStage(file[s], skill, "active")]
        PROVE  FileKept
    <3> DEFINE f == updateStage(file[s], skill, "active")
    <3>1. /\ f \in File \cup {NoFile}
          /\ f = NoFile <=> file[s] = NoFile
          /\ file[s] # NoFile =>
                f.id = file[s].id /\ f.done = file[s].done /\ f.scoped = file[s].scoped
      BY <1>1, UpdatedType
    <3>2. file' = [file EXCEPT ![s] = f]
      BY <2>2
    <3> HIDE DEF f
    <3> QED
      BY <1>1, <3>1, <3>2
  <2> QED
    BY <2>1, <2>2
<1>5. StepTyped
  BY <1>1, <1>2, <1>3, <1>4 DEF TypeOK, StepTyped
<1>6. KeepsShape
  BY <1>3, <1>4 DEF KeepsShape
<1> QED
  BY <1>5, <1>6, ShapeKept

LEMMA ActivationSteps ==
    ASSUME IInv,
           \/ \E j \in Journeys, skill \in Skills : handleGetReferenceModalStart(j, skill)
           \/ \E slug \in Slugs : resumeFromFile(slug)
           \/ \E slug \in Slugs, j \in Journeys : resumeFromMap(slug, j)
           \/ \E j \in Journeys, i \in DOMAIN sessions : gateAdvance(j, i)
    PROVE  IInv'
<1>1. TypeOK
  BY DEF IInv
<1>2. ASSUME NEW j \in Journeys, NEW skill \in Skills,
             handleGetReferenceModalStart(j, skill)
      PROVE  IInv'
  <2>1. memory[j].slug \in Slugs /\ j \in Loaded
    BY <1>1, <1>2, EntryType DEF handleGetReferenceModalStart, Entry
  <2> QED
    BY <1>2, <2>1, ActivationShape DEF handleGetReferenceModalStart
<1>3. ASSUME NEW slug \in Slugs, resumeFromFile(slug) PROVE IInv'
  <2>1. file[slug] \in File
    BY <1>1, <1>3, FileType DEF resumeFromFile
  <2>2. file[slug].id \in Journeys /\ OrDiscovery(file[slug].current) \in Skills
    BY <2>1, StageOfEntry DEF File
  <2> QED
    BY <1>3, <2>2, ActivationShape DEF resumeFromFile, setActiveSession
<1>4. ASSUME NEW slug \in Slugs, NEW j \in Journeys, resumeFromMap(slug, j) PROVE IInv'
  <2>1. OrDiscovery(memory[j].skill) \in Skills
    BY <1>1, <1>4, EntryType, StageOfEntry DEF resumeFromMap, Entry
  <2> QED
    BY <1>4, <2>1, ActivationShape DEF resumeFromMap, setActiveSession
<1>5. ASSUME NEW j \in Journeys, NEW i \in DOMAIN sessions, gateAdvance(j, i) PROVE IInv'
  <2> DEFINE next == getNextStage(sessions[i].skill)
  <2>1. j \in Loaded /\ UNCHANGED <<file, used, restarts, ghosts>>
    BY <1>5 DEF gateAdvance
  <2>2. CASE /\ next \in Skills /\ openSession(j, next)
             /\ memory' = [memory EXCEPT ![j].skill = next, ![j].session = NewSession]
    BY <2>1, <2>2, ActivationShape
  <2>3. CASE memory' = [memory EXCEPT ![j].complete = TRUE] /\ UNCHANGED sessions
    <3> DEFINE m == [memory[j] EXCEPT !.complete = TRUE]
    <3>1. memory[j] \in Entry /\ memory[j] # NotLoaded
      BY <1>1, <2>1, EntryType DEF Loaded
    <3>2. /\ m \in Entry /\ m.slug = memory[j].slug /\ m.done = memory[j].done
          /\ m.scoped = memory[j].scoped
      BY <3>1 DEF Entry
    <3>3. memory' = [memory EXCEPT ![j] = m]
      BY <2>3
    <3> HIDE DEF m
    <3>4. StepTyped
      BY <1>1, <2>1, <2>3, <3>2, <3>3 DEF TypeOK, StepTyped, SessionRecord
    <3>5. KeepsShape
      BY <1>1, <2>1, <3>1, <3>2, <3>3 DEF TypeOK, KeepsShape
    <3> QED
      BY <3>4, <3>5, ShapeKept
  <2> QED
    BY <1>5, <2>2, <2>3 DEF gateAdvance
<1> QED
  BY <1>2, <1>3, <1>4, <1>5

\* The file that goes with a journey is its own, or that of the newer journey
\* on its slug; either way nothing of the journey is left.
LEMMA DeleteStep ==
    ASSUME IInv, NEW j \in Journeys, deleteJourney(j)
    PROVE  IInv'
<1>1. /\ TypeOK /\ j \in Loaded /\ Loaded \subseteq used
      /\ memory \in [Journeys -> Entry \cup {NotLoaded}]
      /\ file \in [Slugs -> File \cup {NoFile}]
  BY DEF IInv, TypeOK, GoneIsNotLoaded, deleteJourney
<1>2. /\ memory' = [memory EXCEPT ![j] = NotLoaded]
      /\ file' = [file EXCEPT ![memory[j].slug] = NoFile]
      /\ gone' = gone \cup {j} /\ reloaded' = reloaded \ {j}
      /\ UNCHANGED <<sessions, used, restarts, scope, finished>>
  BY DEF deleteJourney
<1>3. TypeOK'
  BY <1>1, <1>2 DEF TypeOK
<1>4. Loaded' = Loaded \ {j}
  BY <1>1, <1>2 DEF Loaded
<1>5. \A s \in Slugs : file'[s] # NoFile => file'[s] = file[s] /\ file[s].id # j
  BY <1>1, <1>2 DEF IInv, FilesAreOfTheMap
<1>6. \A k \in Loaded' : memory'[k] = memory[k] /\ memory[k].slug \in Slugs
  <2>1. \A k \in Loaded : k \in Journeys /\ memory[k].slug \in Slugs
    BY <1>1, EntryType DEF Entry
  <2> QED
    BY <1>1, <1>2, <1>4, <2>1
<1>7. FilesAreOfTheMap'
  BY <1>4, <1>5, <1>6 DEF IInv, FilesAreOfTheMap
<1>8. GoneIsNotLoaded'
  BY <1>1, <1>2, <1>4 DEF IInv, GoneIsNotLoaded
<1>9. ScopeSurvives'
  BY <1>2, <1>4, <1>5, <1>6 DEF IInv, ScopeSurvives
<1>10. ListingShowsProgress'
  BY <1>2, <1>4, <1>5, <1>6 DEF IInv, ListingShowsProgress
<1> QED
  BY <1>3, <1>7, <1>8, <1>9, <1>10 DEF IInv

\* A journey comes back from the one file it has.
LEMMA RestartStep ==
    ASSUME IInv, restart
    PROVE  IInv'
<1> DEFINE found == {file[s].id : s \in {t \in Slugs : file[t] # NoFile}}
           slugOf(j) == CHOOSE s \in Slugs : file[s] # NoFile /\ file[s].id = j
<1>1. TypeOK /\ Loaded \subseteq used
  BY DEF IInv, GoneIsNotLoaded
<1>2. /\ memory' = [j \in Journeys |->
                      IF j \in found THEN loadedEntry(file[slugOf(j)], slugOf(j))
                      ELSE NotLoaded]
      /\ reloaded' = found /\ restarts' = restarts + 1 /\ restarts < MaxRestarts
      /\ UNCHANGED <<file, sessions, used, scope, finished, gone>>
  BY DEF restart
<1>3. found \subseteq Loaded
  BY DEF IInv, FilesAreOfTheMap
<1>4. ASSUME NEW j \in found
      PROVE  /\ j \in Journeys /\ slugOf(j) \in Slugs
             /\ file[slugOf(j)] # NoFile /\ file[slugOf(j)].id = j
             /\ file[slugOf(j)] \in File
  <2>1. \E s \in Slugs : file[s] # NoFile /\ file[s].id = j
    OBVIOUS
  <2>2. slugOf(j) \in Slugs /\ file[slugOf(j)] # NoFile /\ file[slugOf(j)].id = j
    BY <2>1
  <2> HIDE DEF slugOf
  <2> QED
    BY <1>1, <1>3, <2>2, FileType DEF Loaded
<1>5. \A s \in Slugs : file[s] # NoFile => file[s].id \in found /\ slugOf(file[s].id) = s
  <2>1. ASSUME NEW s \in Slugs, file[s] # NoFile
        PROVE  file[s].id \in found /\ slugOf(file[s].id) = s
    <3>1. file[s].id \in found
      BY <2>1
    <3>2. /\ slugOf(file[s].id) \in Slugs /\ file[slugOf(file[s].id)] # NoFile
          /\ file[slugOf(file[s].id)].id = file[s].id
      BY <1>4, <3>1
    <3> HIDE DEF slugOf, found
    <3> QED
      BY <2>1, <3>1, <3>2 DEF IInv, FilesAreOfTheMap
  <2> QED
    BY <2>1
<1>6. \A j \in found :
         /\ memory'[j] = loadedEntry(file[slugOf(j)], slugOf(j))
         /\ memory'[j] \in Entry
         /\ memory'[j].slug = slugOf(j)
         /\ memory'[j].scoped = file[slugOf(j)].scoped
  <2> HIDE DEF slugOf, found
  <2> QED
    BY <1>2, <1>4, LoadedType
<1>7. Loaded' = found
  <2>1. found \subseteq Journeys
    BY <1>4
  <2> HIDE DEF slugOf, found
  <2> QED
    BY <1>2, <1>6, <2>1 DEF Loaded
<1> HIDE DEF slugOf, found
<1>8. TypeOK'
  <2>1. memory' \in [Journeys -> Entry \cup {NotLoaded}]
    BY <1>2, <1>6
  <2>2. restarts' \in 0 .. MaxRestarts
    BY <1>1, <1>2 DEF TypeOK
  <2>3. reloaded' \subseteq used
    BY <1>1, <1>2, <1>3
  <2> QED
    BY <1>1, <1>2, <2>1, <2>2, <2>3 DEF TypeOK
<1>9. FilesAreOfTheMap'
  BY <1>2, <1>5, <1>6, <1>7 DEF FilesAreOfTheMap
<1>10. GoneIsNotLoaded'
  BY <1>2, <1>3, <1>7 DEF IInv, GoneIsNotLoaded
<1>11. ScopeSurvives'
  <2>1. \A s \in Slugs : file[s] # NoFile /\ file[s].id \in scope => file[s].scoped
    BY DEF IInv, ScopeSurvives
  <2> QED
    BY <1>2, <1>4, <1>6, <1>7, <2>1 DEF ScopeSurvives
<1>12. ListingShowsProgress'
  BY <1>2, <1>7 DEF ListingShowsProgress
<1> QED
  BY <1>8, <1>9, <1>10, <1>11, <1>12 DEF IInv

LEMMA IInvNext == IInv /\ [Next]_vars => IInv'
<1> SUFFICES ASSUME IInv, [Next]_vars PROVE IInv'
  OBVIOUS
<1>1. CASE UNCHANGED vars
  <2>1. StepTyped /\ KeepsShape
    BY <1>1 DEF vars, ghosts, IInv, TypeOK, SessionRecord, StepTyped, KeepsShape
  <2> QED
    BY <2>1, ShapeKept
<1>2. CASE Next
  BY <1>2, CreationSteps, BackfillStep, SaveSteps, SessionSteps, ActivationSteps,
     DeleteStep, RestartStep DEF Next
<1> QED
  BY <1>1, <1>2

-------------------------------------------------------------------------------
LEMMA Invariant == Spec => []IInv
BY IInvInit, IInvNext, PTL DEF Spec

\* The map, the files and the sessions keep their types through creations,
\* saves, resumes, regressions, deletions and restarts.
THEOREM TypeCorrect == Spec => []TypeOK
<1>1. IInv => TypeOK
  BY DEF IInv
<1> QED
  BY <1>1, Invariant, PTL

\* Owner and tenant of a journey are in its map entry and in its file after any
\* saves, stage updates and restarts, for any journeys and slugs: a reload takes
\* them from the file (disk-journey-adapter.js), a save from the map.
THEOREM ScopeIsKept == Spec => []ScopeSurvives
<1>1. IInv => ScopeSurvives
  BY DEF IInv
<1> QED
  BY <1>1, Invariant, PTL

\* The listing, read from the files, and the map agree on the completed stages
\* of every journey the process has had since it started.
THEOREM ListingIsCurrent == Spec => []ListingShowsProgress
<1>1. IInv => ListingShowsProgress
  BY DEF IInv
<1> QED
  BY <1>1, Invariant, PTL

\* Nothing brings a deleted journey back, however many journeys share a slug:
\* a file is that of a journey the map has under that slug.
THEOREM DeletesAreFinal == Spec => []DeletedStaysDeleted
<1>1. IInv => DeletedStaysDeleted
  BY DEF IInv, FilesAreOfTheMap, GoneIsNotLoaded, DeletedStaysDeleted
<1> QED
  BY <1>1, Invariant, PTL
==============================================================================
