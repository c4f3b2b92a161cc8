----------------------------- MODULE StageArtefact -----------------------------
(***************************************************************************)
(* Inline edits of a completed stage's artefact: the page's textarea, the  *)
(* save request with its merge of concurrent saves, the artefact's file,   *)
(* and the merge stream that pushes every save to the open pages.          *)
(*                                                                         *)
(* From the registration of a save to the write of the file a handler runs *)
(* without an await, so that is one action; recording the edit in Postgres *)
(* is awaited before the save is pushed and answered.  The 100 ms window   *)
(* after a save is a flag that time may clear.                             *)
(*                                                                         *)
(* Abstracted: an edit replaces one line by the user's own.  Left out:     *)
(* access checks, the lookup of the path, empty content, and the           *)
(* feature_edits rows, which nothing here reads.                           *)
(***************************************************************************)
EXTENDS ArtefactMerge

CONSTANTS
    Users,      \* people with the edit page open; a user's own line is its name
    Saves,      \* save requests
    Original,   \* the artefact as completed
    None,       \* no save, no user, no content
    Turn,       \* the line a chat turn that revises the stage writes
    Samples     \* versions <<base, a, b>> to try the merge alone on

ASSUME NamesAssumption == None \notin Users \cup Saves /\ Turn \notin Users

\* A document is a sequence of lines.
ASSUME SamplesAssumption ==
    \A v \in Samples : \A i \in 1 .. 3 : v[i] \in Seq(Lines(v[i]))

AllLines == Lines(Original) \cup Users \cup {Turn, "MERGE_CONFLICT_HARD"}
Doc == Seq(AllLines)

VARIABLES
    file,      \* the artefact on disk
    lastSave,  \* concurrent-edit-buffer's entry
    recent,    \* it is less than WINDOW_MS old
    text,      \* the textarea of each user's page
    pushed,    \* pushes on their way to each page, in order
    save       \* the save requests' progress

(***************************************************************************)
(* Observations.                                                           *)
(***************************************************************************)
VARIABLES
    seen,      \* the version each user's unsaved edits were made to
    latest,    \* the content of the last push
    writer,    \* the save that wrote the file, None for another writer
    overtaken  \* the push of an older save came after that save's push

ghostVars == <<seen, latest, writer, overtaken>>
pageVars == <<text, pushed, seen>>
pushVars == <<latest, writer, overtaken>>
vars == <<file, lastSave, recent, text, pushed, save, seen, latest, writer, overtaken>>

TypeOK ==
    /\ file \in Doc
    /\ lastSave \in {None} \cup [user : Users, content : Doc, seen : Doc]
    /\ recent \in BOOLEAN
    /\ text \in [Users -> Doc]
    /\ pushed \in [Users -> Seq(Doc)]
    /\ save \in [Saves -> [pc      : {"unsent", "sent", "recording", "answered", "ended"},
                           user    : Users \cup {None},
                           content : Doc,     \* submitted, then final
                           seen    : Doc]]
    /\ seen \in [Users -> Doc]
    /\ latest \in Doc
    /\ writer \in Saves \cup {None}
    /\ overtaken \in BOOLEAN

NoSave(pc) == [pc |-> pc, user |-> None, content |-> <<>>, seen |-> <<>>]

Init ==
    /\ file = Original
    /\ lastSave = None
    /\ recent = FALSE
    /\ text = [u \in Users |-> Original]
    /\ pushed = [u \in Users |-> <<>>]
    /\ save = [s \in Saves |-> NoSave("unsent")]
    /\ seen = text
    /\ latest = Original
    /\ writer = None
    /\ overtaken = FALSE

(***************************************************************************)
(* The page.                                                               *)
(***************************************************************************)
edit(u) ==
    /\ \E i \in DOMAIN text[u] :
          /\ text[u][i] # u
          /\ text' = [text EXCEPT ![u][i] = u]
    /\ UNCHANGED <<file, lastSave, recent, pushed, save, ghostVars>>

\* The submit handler does not wait for an earlier save.
submit(u, s) ==
    /\ save[s].pc = "unsent"
    /\ text[u] # seen[u]
    /\ save' = [save EXCEPT ![s] = [pc |-> "sent", user |-> u, content |-> text[u],
                                    seen |-> seen[u]]]
    /\ UNCHANGED <<file, lastSave, recent, pageVars, pushVars>>

\* A push replaces the textarea, whatever was typed since.
receivePush(u) ==
    /\ pushed[u] # <<>>
    /\ pushed' = [pushed EXCEPT ![u] = Tail(@)]
    /\ text' = [text EXCEPT ![u] = Head(pushed[u])]
    /\ seen' = [seen EXCEPT ![u] = Head(pushed[u])]
    /\ UNCHANGED <<file, lastSave, recent, save, pushVars>>

\* The answer replaces it too, on a connection of its own.
receiveAnswer(s) ==
    /\ save[s].pc = "answered"
    /\ text' = [text EXCEPT ![save[s].user] = save[s].content]
    /\ seen' = [seen EXCEPT ![save[s].user] = save[s].content]
    /\ save' = [save EXCEPT ![s] = NoSave("ended")]
    /\ UNCHANGED <<file, lastSave, recent, pushed, pushVars>>

\* The page loses its stream and everything sent meanwhile.
streamBreaks(u) ==
    /\ pushed[u] # <<>>
    /\ pushed' = [pushed EXCEPT ![u] = <<>>]
    /\ UNCHANGED <<file, lastSave, recent, text, save, ghostVars>>

(***************************************************************************)
(* The server.                                                             *)
(***************************************************************************)
windowPasses ==
    /\ recent
    /\ recent' = FALSE
    /\ UNCHANGED <<file, lastSave, text, pushed, save, ghostVars>>

Concurrent(s) == recent /\ lastSave.user # save[s].user

\* The base of the merge is the file as it is now.
Result(s) ==
    IF Concurrent(s)
    THEN Text(mergeArtefactEdits(file, save[s].content, lastSave.content))
    ELSE save[s].content

Rejected(s) ==
    Concurrent(s)
    /\ mergeArtefactEdits(file, save[s].content, lastSave.content) = MERGE_CONFLICT_HARD

\* registerSave, also for a save that is rejected below.
Registers(s) ==
    /\ lastSave' = [user |-> save[s].user, content |-> save[s].content,
                    seen |-> save[s].seen]
    /\ recent' = TRUE

\* The saves between their write and their push.
Recording == {s \in Saves : save[s].pc = "recording"}

\* The save is written and its row's INSERT sent.
saved(s) ==
    /\ save[s].pc = "sent"
    /\ Registers(s)
    /\ ~Rejected(s)
    /\ file' = Result(s)
    /\ save' = [save EXCEPT ![s].pc = "recording", ![s].content = Result(s)]
    /\ writer' = s
    /\ overtaken' = FALSE
    /\ UNCHANGED <<pageVars, latest>>

\* 409, or 500 when the file cannot be written.
saveFails(s) ==
    /\ save[s].pc = "sent"
    /\ Registers(s)
    /\ save' = [save EXCEPT ![s] = NoSave("ended")]
    /\ UNCHANGED <<file, pageVars, pushVars>>

\* Mutant: the subscribers get the content the file had before the merge.
recordedSubmitted(s) ==
    /\ save[s].pc = "recording"
    /\ latest' = lastSave.content
    /\ pushed' = [u \in Users |-> Append(pushed[u], lastSave.content)]
    /\ save' = [save EXCEPT ![s].pc = "answered"]
    /\ overtaken' = (overtaken \/ writer \notin Recording)
    /\ UNCHANGED <<file, lastSave, recent, text, seen, writer>>

\* The INSERT ended, well or not: the save is pushed and answered.
recorded(s) ==
    /\ save[s].pc = "recording"
    /\ latest' = save[s].content
    /\ pushed' = [u \in Users |-> Append(pushed[u], save[s].content)]
    /\ save' = [save EXCEPT ![s].pc = "answered"]
    /\ overtaken' = (overtaken \/ writer \notin Recording)
    /\ UNCHANGED <<file, lastSave, recent, text, seen, writer>>

\* A browser without the script posts the form: no merge and no push.
formSaved(u) ==
    /\ text[u] # seen[u]
    /\ file' = text[u]
    /\ writer' = None
    /\ UNCHANGED <<lastSave, recent, pageVars, save, latest, overtaken>>

\* A turn of the reopened stage rewrites the artefact.
turnSaved ==
    /\ file # <<Turn>>
    /\ file' = <<Turn>>
    /\ writer' = None
    /\ UNCHANGED <<lastSave, recent, pageVars, save, latest, overtaken>>

Next ==
    \/ \E u \in Users :
          \/ edit(u) \/ receivePush(u) \/ streamBreaks(u) \/ formSaved(u)
          \/ \E s \in Saves : submit(u, s)
    \/ \E s \in Saves :
          saved(s) \/ saveFails(s) \/ recorded(s) \/ receiveAnswer(s)
    \/ windowPasses \/ turnSaved

Spec == Init /\ [][Next]_vars

(***************************************************************************)
(* Properties of the merge, which no step changes: they are evaluated in   *)
(* the initial state.                                                      *)
(***************************************************************************)
Merge(v) == mergeArtefactEdits(v[1], v[2], v[3])

\* A merge that does not conflict loses no line either side added and, as long
\* as the base repeats no line, none that both kept; one that only one side
\* changed is that side's version, and it does not matter which of the two saves
\* arrives last (merge-artefact-edits.js:160-274).  Of a line the base repeats
\* each side may keep a different copy, and the merge then keeps neither.
MergeKeepsBoth ==
    Init => \A v \in Samples :
       Merge(v) # MERGE_CONFLICT_HARD =>
          /\ (Lines(v[2]) \cup Lines(v[3])) \ Lines(v[1]) \subseteq Lines(Text(Merge(v)))
          /\ Cardinality(Lines(v[1])) = Len(v[1]) =>
                Lines(v[2]) \cap Lines(v[3]) \subseteq Lines(Text(Merge(v)))
          /\ v[3] = v[1] => Text(Merge(v)) = v[2]
          /\ Text(Merge(<<v[1], v[3], v[2]>>)) = Text(Merge(v))

\* A line attributed to one side is a line of that side's version, and an
\* unattributed one is in both.
AttributionsTrue ==
    Init => \A v \in Samples :
       Merge(v) # MERGE_CONFLICT_HARD =>
          \A i \in DOMAIN Merge(v) :
             /\ Merge(v)[i].by # "b" => Merge(v)[i].line \in Lines(v[2])
             /\ Merge(v)[i].by # "a" => Merge(v)[i].line \in Lines(v[3])

(***************************************************************************)
(* Properties of the handler.                                              *)
(***************************************************************************)

\* When no save is being recorded, what the pages were last sent is what the
\* file holds, however saves overlapped and merged, unless a save that was
\* written earlier was pushed after the one the file is of.  Files of the form
\* or of a chat turn are never pushed.
PagesGetTheFile ==
    writer # None /\ Recording = {} /\ ~overtaken => latest = file

\* ep2-s4 AC2: of two concurrent saves that edit the same version on different
\* lines, the second's merge contains the edits of both.
MergedSaveKeepsBoth ==
    [][\A s \in Saves :
         /\ save[s].pc = "sent" /\ save'[s].pc = "recording"
         /\ Concurrent(s) /\ lastSave.seen = save[s].seen
         /\ mergeArtefactEdits(save[s].seen, save[s].content, lastSave.content)
              # MERGE_CONFLICT_HARD
         => (Lines(lastSave.content) \cup Lines(save[s].content)) \ Lines(save[s].seen)
              \subseteq Lines(file')]_vars
================================================================================
