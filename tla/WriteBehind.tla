------------------------------ MODULE WriteBehind ------------------------------
(***************************************************************************)
(* What the journey store promises, whatever queues, statements, errors    *)
(* and restarts it is made of: requests work on live journeys, each        *)
(* journey has at most one version on its way to the database, what is     *)
(* stored is a version the journey had when its write began, and the reload *)
(* after a restart happens as if at one instant although requests are      *)
(* served while it runs.  A journey leaves by a delete and by nothing else *)
(* but a restart; a delete accepted before the reload may be undone by it, *)
(* and of such a journey older versions may be written again.              *)
(***************************************************************************)
EXTENDS Naturals

CONSTANTS
    Journeys,
    Versions,  \* records; rev numbers the versions of a journey
    First,     \* the version a journey is created in
    None       \* nothing stored

VARIABLES
    known,     \* ids handed out
    live,      \* journeys a request can reach
    version,   \* the newest version of each journey
    owed,      \* journeys some write of which has not begun
    writing,   \* the version on its way to the database, as a set
    stored,    \* the version a restart would find
    deleting,  \* deletes accepted and not answered
    early,     \* journeys whose delete was accepted before the reload
    undone,    \* journeys the reload has put back
    ready      \* the stored journeys have been read since the last start

vars == <<known, live, version, owed, writing, stored, deleting, early, undone,
          ready>>

\* The part of a version that is kept.
AsStored(v) == [v EXCEPT !.clarify = FALSE]

Init ==
    /\ known = {}
    /\ live = {}
    /\ version = [j \in Journeys |-> First]
    /\ owed = {}
    /\ writing = [j \in Journeys |-> {}]
    /\ stored = [j \in Journeys |-> None]
    /\ deleting = {}
    /\ early = {}
    /\ undone = {}
    /\ ready = FALSE

Create(j) ==
    /\ j \notin known
    /\ known' = known \cup {j}
    /\ live' = live \cup {j}
    /\ version' = [version EXCEPT ![j] = First]
    /\ owed' = owed \cup {j}
    /\ UNCHANGED <<writing, stored, deleting, early, undone, ready>>

\* The next version of a live journey; some changes owe no write.
Update(j) ==
    /\ j \in live
    /\ version' = [version EXCEPT ![j] = version'[j]]
    /\ version'[j].rev = version[j].rev + 1
    /\ owed' \in {owed, owed \cup {j}}
    /\ UNCHANGED <<known, live, writing, stored, deleting, early, undone, ready>>

\* A write takes the newest version, and no second one begins beside it.
Begin(j) ==
    /\ j \in owed
    /\ writing[j] = {}
    /\ \E v \in writing'[j] : writing' = [writing EXCEPT ![j] = {v}]
    /\ j \notin undone => writing'[j] = {AsStored(version[j])}
    /\ owed' \in {owed, owed \ {j}}
    /\ UNCHANGED <<known, live, version, stored, deleting, early, undone, ready>>

\* It is stored, or fails.
Settle(j) ==
    /\ \E v \in writing[j] : stored' \in {stored, [stored EXCEPT ![j] = v]}
    /\ writing' = [writing EXCEPT ![j] = {}]
    /\ UNCHANGED <<known, live, version, owed, deleting, early, undone, ready>>

Delete(j) ==
    /\ j \in live
    /\ live' = live \ {j}
    /\ deleting' = deleting \cup {j}
    /\ early' = IF ready THEN early ELSE early \cup {j}
    /\ UNCHANGED <<known, version, owed, writing, stored, undone, ready>>

\* The delete is answered: what is stored is removed in one step, or stays.
Answer(j) ==
    /\ j \in deleting
    /\ deleting' = deleting \ {j}
    /\ stored' \in {stored, [stored EXCEPT ![j] = None]}
    /\ UNCHANGED <<known, live, version, owed, writing, early, undone, ready>>

\* Only what is stored survives, each write on its way landing or not.
Restart ==
    /\ live' = {}
    /\ version' = [j \in Journeys |-> First]
    /\ owed' = {}
    /\ deleting' = {}
    /\ early' = {}
    /\ undone' = {}
    /\ ready' = FALSE
    /\ writing' = [j \in Journeys |-> {}]
    /\ \A j \in Journeys : stored'[j] \in {stored[j]} \cup writing[j]
    /\ stored' = [j \in Journeys |-> stored'[j]]
    /\ UNCHANGED known

\* What is stored is live, in the version stored; journeys that are live
\* already are left as they are, and deletes accepted so far may be undone.  Or
\* the database does not answer.
Load ==
    LET found == {j \in Journeys \ (live \cup early) : stored[j] # None}
    IN  /\ ~ ready
        /\ ready' = TRUE
        /\ early' = {}
        /\ \/ \E back \in SUBSET early :
                 /\ live' = live \cup found \cup back
                 /\ version' = [j \in Journeys |->
                                  IF j \in found THEN stored[j]
                                  ELSE IF j \in back THEN version'[j]
                                  ELSE version[j]]
                 /\ undone' = undone \cup back
           \/ UNCHANGED <<live, version, undone>>
        /\ UNCHANGED <<known, owed, writing, stored, deleting>>

Next ==
    \/ \E j \in Journeys :
          \/ Create(j)
          \/ Update(j)
          \/ Begin(j)
          \/ Settle(j)
          \/ Delete(j)
          \/ Answer(j)
    \/ Restart
    \/ Load

Spec == Init /\ [][Next]_vars

\* Nothing is left of the journey, and nothing is on its way.
Departed(j) ==
    /\ j \in known
    /\ j \notin live \cup owed \cup deleting \cup early
    /\ writing[j] = {}
    /\ stored[j] = None

\* A journey that has departed never comes back: no write begun earlier, no
\* reload and no restart brings it into either store again.
DeparturesAreFinal == [][\A j \in Journeys : Departed(j) => Departed(j)']_vars
===============================================================================
