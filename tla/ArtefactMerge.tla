----------------------------- MODULE ArtefactMerge -----------------------------
(***************************************************************************)
(* merge-artefact-edits.js: the three-way hunk merge of two users' edits   *)
(* of an artefact.  A document is a sequence of lines; what a line holds   *)
(* matters only for equality.  Positions count from 1, and a range         *)
(* start .. end - 1 of base lines is empty for a pure insertion.           *)
(***************************************************************************)
EXTENDS Naturals, FiniteSets, SequencesExt

Lines(doc) == {doc[i] : i \in DOMAIN doc}

(***************************************************************************)
(* lcsMatch: the pairs of equal lines its walk matches.  dp[i][j] is the   *)
(* number of pairs matched from <<i, j>> on; a tie skips the base line.    *)
(***************************************************************************)
lcsMatch(base, other) ==
    LET match[p \in (1 .. Len(base) + 1) \X (1 .. Len(other) + 1)] ==
          LET i == p[1]
              j == p[2]
          IN  IF i > Len(base) \/ j > Len(other) THEN {}
              ELSE IF base[i] = other[j] THEN {p} \cup match[<<i + 1, j + 1>>]
              ELSE IF Cardinality(match[<<i + 1, j>>]) >= Cardinality(match[<<i, j + 1>>])
              THEN match[<<i + 1, j>>] ELSE match[<<i, j + 1>>]
    IN  match[<<1, 1>>]

\* One side's changes: each gap between two matched lines, or between a matched
\* line and an end, that is not empty on both sides.
computeHunks(base, other) ==
    LET anchors == lcsMatch(base, other)
                     \cup {<<0, 0>>, <<Len(base) + 1, Len(other) + 1>>}
        follows(p, q) == p[1] < q[1] /\ \A r \in anchors : r[1] <= p[1] \/ r[1] >= q[1]
        gaps == {g \in anchors \X anchors : follows(g[1], g[2])}
    IN  {[start   |-> g[1][1] + 1,
          end     |-> g[2][1],
          content |-> SubSeq(other, g[1][2] + 1, g[2][2] - 1)] :
            g \in {g \in gaps : g[2][1] > g[1][1] + 1 \/ g[2][2] > g[1][2] + 1}}

\* Mutant: only the first side's hunks make a cluster grow.
ClusterEndLopsided(a, b, n, start) ==
    LET ends == {e \in start .. n + 1 :
                   \A h \in a \cup {k \in b : k.start = start} :
                      h.start = start \/ h.start \in start .. e - 1 => h.end <= e}
    IN  CHOOSE e \in ends : \A f \in ends : e <= f

\* The end of the cluster at start: it takes the hunks that start there, and
\* grows over every hunk that starts strictly inside it.
ClusterEnd(a, b, n, start) ==
    LET ends == {e \in start .. n + 1 :
                   \A h \in a \cup b :
                      h.start = start \/ h.start \in start .. e - 1 => h.end <= e}
    IN  CHOOSE e \in ends : \A f \in ends : e <= f

\* The clusters met by the walk over base positions.
Clusters(a, b, n) ==
    LET from[p \in 1 .. n + 2] ==
          LET starts == {h.start : h \in {k \in a \cup b : k.start >= p}}
          IN  IF starts = {} THEN {}
              ELSE LET start == CHOOSE s \in starts : \A t \in starts : s <= t
                       end == ClusterEnd(a, b, n, start)
                   IN  {[start |-> start, end |-> end]}
                         \cup from[IF end > start THEN end ELSE start + 1]
    IN  from[1]

Inside(h, cluster) ==
    h.start = cluster.start \/ h.start \in cluster.start .. cluster.end - 1

\* The hunks of one side in a cluster, and their lines in order.
Members(hunks, cluster) == {h \in hunks : Inside(h, cluster)}
Replacement(hunks, cluster) ==
    FlattenSeq([p \in 1 .. cluster.end |->
                  IF \E h \in Members(hunks, cluster) : h.start = p
                  THEN (CHOOSE h \in Members(hunks, cluster) : h.start = p).content
                  ELSE <<>>])

\* Mutant: where both sides changed a range, the second side's version is taken.
ClashesNever(a, b, cluster) == FALSE

\* Both sides changed the range, and not alike.
Clashes(a, b, cluster) ==
    /\ Members(a, cluster) # {} /\ Members(b, cluster) # {}
    /\ Replacement(a, cluster) # Replacement(b, cluster)

By(doc, user) == [i \in DOMAIN doc |-> [line |-> doc[i], by |-> user]]

\* Mutant: a range changed by one side is attributed to the other.
ResolvedSwapped(a, b, cluster) ==
    IF Members(b, cluster) = {} THEN By(Replacement(a, cluster), "b")
    ELSE IF Members(a, cluster) = {} THEN By(Replacement(b, cluster), "a")
    ELSE By(Replacement(b, cluster), "none")

\* What a cluster becomes, line by line with the side it is attributed to.
Resolved(a, b, cluster) ==
    IF Members(b, cluster) = {} THEN By(Replacement(a, cluster), "a")
    ELSE IF Members(a, cluster) = {} THEN By(Replacement(b, cluster), "b")
    ELSE By(Replacement(b, cluster), "none")

MERGE_CONFLICT_HARD == <<[line |-> "MERGE_CONFLICT_HARD", by |-> "none"]>>

\* A base line that no cluster replaces.
Kept(base, clusters, p) ==
    p <= Len(base) /\ \A c \in clusters : p \notin c.start .. c.end - 1

\* What stands at a base position after the merge: the cluster that starts
\* there, then the base line itself.
Piece(base, a, b, clusters, p) ==
    (IF \E c \in clusters : c.start = p
     THEN Resolved(a, b, CHOOSE c \in clusters : c.start = p) ELSE <<>>)
    \o (IF Kept(base, clusters, p) THEN By(<<base[p]>>, "none") ELSE <<>>)

\* Unchanged base lines pass through; each cluster replaces its range.
mergeArtefactEdits(base, userA, userB) ==
    LET a == computeHunks(base, userA)
        b == computeHunks(base, userB)
        clusters == Clusters(a, b, Len(base))
    IN  IF \E c \in clusters : Clashes(a, b, c) THEN MERGE_CONFLICT_HARD
        ELSE FlattenSeq([p \in 1 .. Len(base) + 1 |-> Piece(base, a, b, clusters, p)])

Text(merged) == [i \in DOMAIN merged |-> merged[i].line]
================================================================================
