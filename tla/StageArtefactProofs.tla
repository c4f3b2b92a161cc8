------------------------- MODULE StageArtefactProofs -------------------------
(***************************************************************************)
(* What the pages are sent, for any users, saves and artefact, which does  *)
(* not depend on what the merge computes; and what the merge computes, for *)
(* any documents.                                                          *)
(*                                                                         *)
(* The recursive functions of the merge are chosen, so each is first shown *)
(* to exist, by induction on how far its argument is from the end; what it *)
(* returns follows by the same induction.                                  *)
(***************************************************************************)
EXTENDS StageArtefact, FiniteSetTheorems, SequenceTheorems, WellFoundedInduction, TLAPS

\* The saves are records over some documents, whatever the merge makes.
SavesOver(D) ==
    [Saves -> [pc      : {"unsent", "sent", "recording", "answered", "ended"},
               user    : Users \cup {None},
               content : D,
               seen    : D]]

Shape == \E D : save \in SavesOver(D)

\* The save the file is of has what the file has while it is being recorded, and
\* once it is not, the pages were last sent what the file has unless an older
\* save's push came after its own.
WriterOnItsWay ==
    writer # None =>
        /\ writer \in Saves
        /\ writer \in Recording => save[writer].content = file
        /\ writer \notin Recording /\ ~overtaken => latest = file

IInv == Shape /\ WriterOnItsWay

LEMMA IInvInit == Init => IInv
<1> SUFFICES ASSUME Init PROVE IInv
  OBVIOUS
<1>1. \A s \in Saves : save[s] = NoSave("unsent")
  BY DEF Init
<1>2. save \in SavesOver({<<>>})
  BY <1>1 DEF Init, SavesOver, NoSave
<1>3. WriterOnItsWay
  BY DEF Init, WriterOnItsWay
<1>4. QED
  BY <1>2, <1>3 DEF IInv, Shape

submitted(s) == \E u \in Users : submit(u, s)

\* A save under way goes on or ends; the other saves stay as they are.
LEMMA SaveSteps ==
    ASSUME Shape, NEW s \in Saves
    PROVE  /\ submitted(s) \/ receiveAnswer(s) \/ saveFails(s) =>
                 Shape' /\ save'[s].pc # "recording"
           /\ saved(s) => Shape' /\ save'[s].content = Result(s)
           /\ recorded(s) => Shape' /\ save'[s].pc = "answered"
           /\ submitted(s) \/ receiveAnswer(s) \/ saveFails(s) \/ saved(s) \/ recorded(s) =>
                 \A t \in Saves : t # s => save'[t] = save[t]
<1>1. PICK D : save \in SavesOver(D)
  BY DEF Shape
<1>2. ASSUME submitted(s)
      PROVE  Shape' /\ save'[s].pc # "recording"
  <2> PICK u \in Users : submit(u, s)
    BY <1>2 DEF submitted
  <2>1. save' \in SavesOver(D \cup {text[u], seen[u]})
    BY <1>1 DEF submit, SavesOver
  <2>2. save'[s].pc = "sent"
    BY <1>1 DEF submit, SavesOver
  <2>3. QED
    BY <2>1, <2>2 DEF Shape
<1>3. ASSUME receiveAnswer(s) \/ saveFails(s)
      PROVE  Shape' /\ save'[s].pc # "recording"
  <2>1. save' \in SavesOver(D \cup {<<>>})
    BY <1>1, <1>3 DEF receiveAnswer, saveFails, NoSave, SavesOver
  <2>2. save'[s].pc = "ended"
    BY <1>1, <1>3 DEF receiveAnswer, saveFails, NoSave, SavesOver
  <2>3. QED
    BY <2>1, <2>2 DEF Shape
<1>4. ASSUME saved(s)
      PROVE  Shape' /\ save'[s].content = Result(s)
  <2>1. save' = [save EXCEPT ![s].pc = "recording", ![s].content = Result(s)]
    BY <1>4 DEF saved
  <2>2. save' \in SavesOver(D \cup {Result(s)})
    BY <1>1, <2>1 DEF SavesOver
  <2>3. save'[s].content = Result(s)
    BY <1>1, <2>1 DEF SavesOver
  <2>4. QED
    BY <2>2, <2>3 DEF Shape
<1>5. ASSUME recorded(s)
      PROVE  Shape' /\ save'[s].pc = "answered"
  <2>1. save' \in SavesOver(D) /\ save'[s].pc = "answered"
    BY <1>1, <1>5 DEF recorded, SavesOver
  <2>2. QED
    BY <2>1 DEF Shape
<1>6. submitted(s) \/ receiveAnswer(s) \/ saveFails(s) \/ saved(s) \/ recorded(s) =>
         \A t \in Saves : t # s => save'[t] = save[t]
  BY <1>1 DEF submitted, submit, receiveAnswer, saveFails, saved, recorded, SavesOver
<1>7. QED
  BY <1>2, <1>3, <1>4, <1>5, <1>6

\* No other save's steps touch the content of the one the file is of, and only
\* the push of an older save separates the pages from the file.
LEMMA IInvStep ==
    ASSUME IInv, [Next]_vars
    PROVE  IInv'
<1> USE DEF IInv
<1>1. ASSUME NEW s \in Saves, submitted(s) \/ receiveAnswer(s) \/ saveFails(s)
      PROVE  IInv'
  <2>1. /\ Shape' /\ save'[s].pc # "recording"
        /\ \A t \in Saves : t # s => save'[t] = save[t]
    BY <1>1, SaveSteps
  <2>2. save[s].pc # "recording" /\ UNCHANGED <<file, latest, writer, overtaken>>
    BY <1>1 DEF submitted, submit, receiveAnswer, saveFails, pushVars
  <2>3. QED
    BY <2>1, <2>2 DEF WriterOnItsWay, Recording
<1>2. ASSUME NEW s \in Saves, saved(s) PROVE IInv'
  <2>1. Shape' /\ save'[s].content = Result(s)
    BY <1>2, SaveSteps
  <2>2. file' = Result(s) /\ writer' = s
    BY <1>2 DEF saved
  <2>3. save'[s].pc = "recording"
    BY <1>2 DEF saved, Shape, SavesOver
  <2>4. QED
    BY <2>1, <2>2, <2>3 DEF WriterOnItsWay, Recording
<1>3. ASSUME NEW s \in Saves, recorded(s) PROVE IInv'
  <2>1. /\ Shape' /\ save'[s].pc = "answered"
        /\ \A t \in Saves : t # s => save'[t] = save[t]
    BY <1>3, SaveSteps
  <2>2. /\ s \in Recording /\ latest' = save[s].content
        /\ overtaken' = (overtaken \/ writer \notin Recording)
        /\ UNCHANGED <<file, writer>>
    BY <1>3 DEF recorded, Recording
  <2>3. \A t \in Saves : t # s => (t \in Recording' <=> t \in Recording)
    BY <2>1 DEF Recording
  <2>4. s \notin Recording'
    BY <2>1 DEF Recording
  <2>5. CASE writer = s
    BY <2>1, <2>2, <2>4, <2>5 DEF WriterOnItsWay
  <2>6. CASE writer # s
    BY <2>1, <2>2, <2>3, <2>6 DEF WriterOnItsWay
  <2>7. QED
    BY <2>5, <2>6
<1>4. CASE writer' = None /\ UNCHANGED save
  BY <1>4 DEF Shape, WriterOnItsWay
<1>5. CASE UNCHANGED <<file, save, latest, writer, overtaken>>
  BY <1>5 DEF Shape, WriterOnItsWay, Recording
<1>6. QED
  BY <1>1, <1>2, <1>3, <1>4, <1>5
  DEF Next, vars, submitted, ghostVars, pushVars, pageVars, edit, receivePush, streamBreaks,
      formSaved, windowPasses, turnSaved

\* For all users and saves and however saves overlap and merge: when no save is
\* being recorded, the pages were last sent what the file holds, unless the push
\* of a save written earlier came after that of the save the file is of, or a
\* form or a chat turn wrote the file, which no one is sent
\* (journey.js:1684-1748).
THEOREM PagesHaveTheFile == Spec => []PagesGetTheFile
<1>1. IInv /\ [Next]_vars => IInv'
  BY IInvStep
<1>2. IInv => PagesGetTheFile
  BY DEF IInv, WriterOnItsWay, PagesGetTheFile
<1>3. QED
  BY IInvInit, <1>1, <1>2, PTL DEF Spec

(***************************************************************************)
(* Numbers, and concatenations.                                            *)
(***************************************************************************)
\* A non-empty set of numbers has a least.
LEMMA Least ==
    ASSUME NEW S, S \subseteq Nat, S # {}
    PROVE  \E n \in S : \A m \in S : n <= m
<1>1. PICK n \in S : \A m \in S : <<m, n>> \notin OpToRel(<, Nat)
  BY WFMin, NatLessThanWellFounded
<1>2. \A m \in S : ~(m < n)
  BY <1>1 DEF OpToRel
<1>3. \A m \in S : n <= m
  BY <1>2
<1>4. QED
  BY <1>3

\* Induction, as a fact about a set of numbers.
LEMMA Induct ==
    ASSUME NEW S, 0 \in S, \A n \in Nat : n \in S => n + 1 \in S
    PROVE  Nat \subseteq S
<1>1. SUFFICES ASSUME NEW k \in Nat, k \notin S PROVE FALSE
  OBVIOUS
<1>2. PICK n \in Nat \ S : \A m \in Nat \ S : n <= m
  BY <1>1, Least
<1>3. n # 0 /\ n - 1 \in Nat /\ n - 1 \in S
  BY <1>2
<1>4. (n - 1) + 1 = n
  BY <1>2, <1>3
<1>5. QED
  BY <1>2, <1>3, <1>4

\* A finite set of numbers has a greatest.
LEMMA Greatest ==
    ASSUME NEW n \in Nat, NEW S, S \subseteq 0..n, S # {}
    PROVE  \E x \in S : \A y \in S : y <= x
<1> DEFINE T == {t \in 0..n : n - t \in S}
<1>1. T \subseteq Nat
  OBVIOUS
<1>2. T # {}
  <2>1. PICK z \in S : TRUE
    OBVIOUS
  <2>2. n - z \in 0..n /\ n - (n - z) = z
    BY <2>1
  <2>3. QED
    BY <2>2
<1> HIDE DEF T
<1>3. PICK t \in T : \A u \in T : t <= u
  BY <1>1, <1>2, Least
<1>4. n - t \in S /\ t \in 0..n
  BY DEF T
<1>5. ASSUME NEW y \in S PROVE y <= n - t
  <2>1. y \in 0..n /\ n - y \in 0..n /\ n - (n - y) = y
    OBVIOUS
  <2>2. n - y \in T
    BY <2>1 DEF T
  <2>3. t <= n - y
    BY <1>3, <2>2
  <2>4. QED
    BY <1>4, <2>1, <2>3
<1>6. QED
  BY <1>4, <1>5

\* The concatenation up to a place.
LEMMA FlattenSteps ==
    ASSUME NEW S, NEW seqs \in Seq(Seq(S)), seqs # <<>>
    PROVE  \E f : /\ f[1] = seqs[1]
                  /\ \A i \in 2..Len(seqs) : f[i] = f[i - 1] \o seqs[i]
                  /\ FlattenSeq(seqs) = f[Len(seqs)]
<1> DEFINE n == Len(seqs)
           Part(k) == \E f : f = [i \in 1..k |-> IF i = 1 THEN seqs[i] ELSE f[i - 1] \o seqs[i]]
           P == {k \in Nat : Part(k)}
<1>1. n \in Nat \ {0}
  BY EmptySeq
<1>2. Part(0)
  <2> DEFINE f == [i \in {} |-> <<>>]
  <2>1. f = [i \in 1..0 |-> IF i = 1 THEN seqs[i] ELSE f[i - 1] \o seqs[i]]
    OBVIOUS
  <2>2. QED
    BY <2>1
<1>3. ASSUME NEW k \in Nat, Part(k) PROVE Part(k + 1)
  <2>1. PICK f : f = [i \in 1..k |-> IF i = 1 THEN seqs[i] ELSE f[i - 1] \o seqs[i]]
    BY <1>3
  <2> DEFINE e(x) == IF x = 1 THEN seqs[x] ELSE f[x - 1] \o seqs[x]
             g == [i \in 1..(k + 1) |-> IF i = k + 1 THEN e(i) ELSE f[i]]
  <2>2. \A i \in 1..k : f[i] = e(i)
    BY <2>1
  <2>3. \A i \in 1..(k + 1) : g[i] = IF i = 1 THEN seqs[i] ELSE g[i - 1] \o seqs[i]
    <3> SUFFICES ASSUME NEW i \in 1..(k + 1)
                 PROVE  g[i] = IF i = 1 THEN seqs[i] ELSE g[i - 1] \o seqs[i]
      OBVIOUS
    <3>1. i # 1 => g[i - 1] = f[i - 1]
      OBVIOUS
    <3>2. g[i] = e(i)
      BY <2>2
    <3> QED
      BY <3>1, <3>2
  <2>4. g = [i \in 1..(k + 1) |-> IF i = 1 THEN seqs[i] ELSE g[i - 1] \o seqs[i]]
    BY <2>3
  <2>5. \E h : h = [i \in 1..(k + 1) |-> IF i = 1 THEN seqs[i] ELSE h[i - 1] \o seqs[i]]
    <3> HIDE DEF g
    <3> QED
      BY ONLY <2>4, Zenon
  <2>6. QED
    BY <2>5
<1>4. Nat \subseteq P
  <2> HIDE DEF Part
  <2>1. 0 \in P /\ \A k \in Nat : k \in P => k + 1 \in P
    BY <1>2, <1>3
  <2> HIDE DEF P
  <2>2. QED
    BY <2>1, Induct
<1>5. Part(n)
  BY <1>1, <1>4
<1> DEFINE flatten == CHOOSE f : f = [i \in 1..n |-> IF i = 1 THEN seqs[i] ELSE f[i - 1] \o seqs[i]]
<1>6. flatten = [i \in 1..n |-> IF i = 1 THEN seqs[i] ELSE flatten[i - 1] \o seqs[i]]
  BY <1>5
<1>7. FlattenSeq(seqs) = flatten[Len(seqs)]
  BY <1>1 DEF FlattenSeq
<1> HIDE DEF flatten
<1>8. flatten[1] = seqs[1] /\ \A i \in 2..n : flatten[i] = flatten[i - 1] \o seqs[i]
  <2>1. \A i \in 1..n : flatten[i] = IF i = 1 THEN seqs[i] ELSE flatten[i - 1] \o seqs[i]
    BY <1>6
  <2>2. 1 \in 1..n /\ \A i \in 2..n : i \in 1..n /\ i # 1
    BY <1>1
  <2>3. QED
    BY <2>1, <2>2
<1>9. QED
  BY <1>7, <1>8

\* The lines of a document are what stands at its places.
LEMMA InLines ==
    ASSUME NEW s, NEW x
    PROVE  x \in Lines(s) <=> \E k \in DOMAIN s : s[k] = x
BY DEF Lines

\* A concatenation has the lines of both parts.
LEMMA ConcatLines ==
    ASSUME NEW S, NEW s \in Seq(S), NEW t \in Seq(S)
    PROVE  s \o t \in Seq(S) /\ Lines(s \o t) = Lines(s) \cup Lines(t)
<1>1. /\ s \o t \in Seq(S) /\ Len(s \o t) = Len(s) + Len(t)
      /\ \A k \in 1..(Len(s) + Len(t)) :
            (s \o t)[k] = IF k <= Len(s) THEN s[k] ELSE t[k - Len(s)]
  BY ConcatProperties
<1>2. DOMAIN s = 1..Len(s) /\ DOMAIN t = 1..Len(t) /\ DOMAIN (s \o t) = 1..(Len(s) + Len(t))
      /\ Len(s) \in Nat /\ Len(t) \in Nat
  BY <1>1
<1>3. ASSUME NEW x \in Lines(s \o t) PROVE x \in Lines(s) \cup Lines(t)
  <2>1. PICK k \in DOMAIN (s \o t) : (s \o t)[k] = x
    BY <1>3, InLines
  <2>2. CASE k <= Len(s)
    BY <1>1, <1>2, <2>1, <2>2, InLines
  <2>3. CASE ~(k <= Len(s))
    <3>1. k - Len(s) \in DOMAIN t /\ t[k - Len(s)] = x
      BY <1>1, <1>2, <2>1, <2>3
    <3>2. QED
      BY <3>1, InLines
  <2>4. QED
    BY <2>2, <2>3
<1>4. ASSUME NEW x \in Lines(s) PROVE x \in Lines(s \o t)
  <2>1. PICK k \in DOMAIN s : s[k] = x
    BY <1>4, InLines
  <2>2. k \in DOMAIN (s \o t) /\ (s \o t)[k] = x
    BY <1>1, <1>2, <2>1
  <2>3. QED
    BY <2>2, InLines
<1>5. ASSUME NEW x \in Lines(t) PROVE x \in Lines(s \o t)
  <2>1. PICK k \in DOMAIN t : t[k] = x
    BY <1>5, InLines
  <2>2. k + Len(s) \in DOMAIN (s \o t) /\ (s \o t)[k + Len(s)] = x
    BY <1>1, <1>2, <2>1
  <2>3. QED
    BY <2>2, InLines
<1>6. QED
  BY <1>1, <1>3, <1>4, <1>5

\* A concatenation has the elements of its parts, and no others.
LEMMA FlattenLines ==
    ASSUME NEW S, NEW seqs \in Seq(Seq(S)), seqs # <<>>
    PROVE  /\ FlattenSeq(seqs) \in Seq(S)
           /\ \A x : x \in Lines(FlattenSeq(seqs)) <=> \E i \in 1..Len(seqs) : x \in Lines(seqs[i])
<1> DEFINE n == Len(seqs)
<1>1. n \in Nat /\ n >= 1 /\ DOMAIN seqs = 1..n /\ \A i \in 1..n : seqs[i] \in Seq(S)
  BY EmptySeq
<1>2. PICK f : /\ f[1] = seqs[1]
               /\ \A i \in 2..n : f[i] = f[i - 1] \o seqs[i]
               /\ FlattenSeq(seqs) = f[n]
  BY FlattenSteps
<1> DEFINE Good(k) == 1 <= k /\ k <= n => /\ f[k] \in Seq(S)
                                          /\ \A x : x \in Lines(f[k]) <=> \E i \in 1..k : x \in Lines(seqs[i])
           G == {k \in Nat : Good(k)}
<1>4. ASSUME NEW k \in Nat, Good(k) PROVE Good(k + 1)
  <2> SUFFICES ASSUME k + 1 <= n
               PROVE  /\ f[k + 1] \in Seq(S)
                      /\ \A x : x \in Lines(f[k + 1]) <=> \E i \in 1..(k + 1) : x \in Lines(seqs[i])
    OBVIOUS
  <2>1. CASE k = 0
    BY <1>1, <1>2, <2>1
  <2>2. CASE k # 0
    <3>1. f[k] \in Seq(S) /\ \A x : x \in Lines(f[k]) <=> \E i \in 1..k : x \in Lines(seqs[i])
      BY <1>1, <1>4, <2>2
    <3>2. f[k + 1] = f[k] \o seqs[k + 1] /\ seqs[k + 1] \in Seq(S)
      <4>1. k + 1 \in 2..n /\ k + 1 \in 1..n /\ (k + 1) - 1 = k
        BY <1>1, <2>2
      <4>2. f[k + 1] = f[(k + 1) - 1] \o seqs[k + 1]
        BY <1>2, <4>1
      <4>3. QED
        BY <1>1, <4>1, <4>2
    <3>3. f[k + 1] \in Seq(S) /\ \A x : x \in Lines(f[k + 1]) <=> x \in Lines(f[k]) \/ x \in Lines(seqs[k + 1])
      BY ConcatLines, <3>1, <3>2
    <3>4. \A i : i \in 1..(k + 1) <=> i \in 1..k \/ i = k + 1
      OBVIOUS
    <3> QED
      BY <3>1, <3>3, <3>4
  <2>3. QED
    BY <2>1, <2>2
<1>5. Good(0)
  OBVIOUS
<1>6. Nat \subseteq G
  <2> HIDE DEF Good
  <2>1. 0 \in G /\ \A k \in Nat : k \in G => k + 1 \in G
    BY <1>4, <1>5
  <2> HIDE DEF G
  <2>2. QED
    BY <2>1, Induct
<1>7. Good(n)
  BY <1>1, <1>6
<1>8. f[n] \in Seq(S) /\ \A x : x \in Lines(f[n]) <=> \E i \in 1..n : x \in Lines(seqs[i])
  BY <1>1, <1>7
<1>9. QED
  BY <1>1, <1>2, <1>8

(***************************************************************************)
(* lcsMatch: the walk's pairs do not cross.                                *)
(***************************************************************************)
\* A step of lcsMatch's walk, with what is matched further on given.
Walk(match, base, other, p) ==
    IF p[1] > Len(base) \/ p[2] > Len(other) THEN {}
    ELSE IF base[p[1]] = other[p[2]] THEN {p} \cup match[<<p[1] + 1, p[2] + 1>>]
    ELSE IF Cardinality(match[<<p[1] + 1, p[2]>>]) >= Cardinality(match[<<p[1], p[2] + 1>>])
    THEN match[<<p[1] + 1, p[2]>>] ELSE match[<<p[1], p[2] + 1>>]

Places(base, other) == (1 .. Len(base) + 1) \X (1 .. Len(other) + 1)

\* How far a place is from the ends.
Ahead(base, other, p) == (Len(base) + 1 - p[1]) + (Len(other) + 1 - p[2])

\* A step of the walk goes to places nearer the ends.
LEMMA WalkOn ==
    ASSUME NEW L, NEW base \in Seq(L), NEW other \in Seq(L),
           NEW i \in 1 .. Len(base), NEW j \in 1 .. Len(other)
    PROVE  \A q \in {<<i + 1, j + 1>>, <<i + 1, j>>, <<i, j + 1>>} :
              /\ q \in Places(base, other)
              /\ Ahead(base, other, <<i, j>>) \in Nat /\ Ahead(base, other, q) \in Nat
              /\ Ahead(base, other, q) < Ahead(base, other, <<i, j>>)
<1>1. Len(base) \in Nat /\ Len(other) \in Nat
  OBVIOUS
<1>2. ASSUME NEW x \in 1 .. Len(base) + 1, NEW y \in 1 .. Len(other) + 1, x + y > i + j
      PROVE  /\ <<x, y>> \in Places(base, other)
             /\ Ahead(base, other, <<i, j>>) \in Nat /\ Ahead(base, other, <<x, y>>) \in Nat
             /\ Ahead(base, other, <<x, y>>) < Ahead(base, other, <<i, j>>)
  BY <1>1, <1>2 DEF Places, Ahead
<1>3. /\ i + 1 \in 1 .. Len(base) + 1 /\ i \in 1 .. Len(base) + 1
      /\ j + 1 \in 1 .. Len(other) + 1 /\ j \in 1 .. Len(other) + 1
      /\ (i + 1) + (j + 1) > i + j /\ (i + 1) + j > i + j /\ i + (j + 1) > i + j
  BY <1>1
<1>4. QED
  BY <1>2, <1>3

\* A step depends only on what is matched nearer the ends.
LEMMA WalkLocal ==
    ASSUME NEW L, NEW base \in Seq(L), NEW other \in Seq(L), NEW p \in Places(base, other),
           NEW f, NEW g,
           \A q \in Places(base, other) :
              Ahead(base, other, q) < Ahead(base, other, p) => f[q] = g[q]
    PROVE  Walk(f, base, other, p) = Walk(g, base, other, p)
<1>1. PICK i \in 1 .. Len(base) + 1, j \in 1 .. Len(other) + 1 : p = <<i, j>>
  BY DEF Places
<1>2. CASE i > Len(base) \/ j > Len(other)
  BY <1>1, <1>2 DEF Walk
<1>3. CASE ~(i > Len(base) \/ j > Len(other))
  <2>1. i \in 1 .. Len(base) /\ j \in 1 .. Len(other)
    BY <1>3
  <2>2. \A q \in {<<i + 1, j + 1>>, <<i + 1, j>>, <<i, j + 1>>} : f[q] = g[q]
    BY <1>1, <2>1, WalkOn
  <2>3. /\ f[<<i + 1, j + 1>>] = g[<<i + 1, j + 1>>]
        /\ f[<<i + 1, j>>] = g[<<i + 1, j>>]
        /\ f[<<i, j + 1>>] = g[<<i, j + 1>>]
    BY <2>2
  <2>4. QED
    BY <1>1, <2>3 DEF Walk
<1>4. QED
  BY <1>2, <1>3

\* So the function that lcsMatch chooses exists.
LEMMA WalkExists ==
    ASSUME NEW L, NEW base \in Seq(L), NEW other \in Seq(L)
    PROVE  \E match : /\ \A p \in Places(base, other) : match[p] = Walk(match, base, other, p)
                      /\ lcsMatch(base, other) = match[<<1, 1>>]
<1> DEFINE D == Places(base, other)
           d(p) == Ahead(base, other, p)
           Part(k) == \E f : \A p \in D : d(p) < k => f[p] = Walk(f, base, other, p)
           P == {k \in Nat : Part(k)}
<1>1. \A p \in D : d(p) \in Nat
  BY DEF Places, Ahead
<1>2. Part(0)
  BY <1>1
<1>3. ASSUME NEW k \in Nat, Part(k) PROVE Part(k + 1)
  <2>1. PICK f : \A p \in D : d(p) < k => f[p] = Walk(f, base, other, p)
    BY <1>3
  <2> DEFINE g == [p \in D |-> IF d(p) < k THEN f[p] ELSE Walk(f, base, other, p)]
  <2>2. \A p \in D : g[p] = Walk(f, base, other, p)
    BY <2>1
  <2>3. \A p \in D : d(p) < k => g[p] = f[p]
    OBVIOUS
  <2>4. ASSUME NEW p \in D, d(p) < k + 1 PROVE Walk(g, base, other, p) = Walk(f, base, other, p)
    <3> HIDE DEF g
    <3>1. \A q \in D : d(q) < d(p) => g[q] = f[q]
      BY <1>1, <2>3, <2>4
    <3>2. QED
      BY <3>1, WalkLocal
  <2>5. \A p \in D : d(p) < k + 1 => g[p] = Walk(g, base, other, p)
    <3> HIDE DEF g, d
    <3> QED
      BY <2>2, <2>4
  <2>6. QED
    BY <2>5
<1>4. Nat \subseteq P
  <2> HIDE DEF Part
  <2>1. 0 \in P /\ \A k \in Nat : k \in P => k + 1 \in P
    BY <1>2, <1>3
  <2> HIDE DEF P
  <2>2. QED
    BY <2>1, Induct
<1>5. \E f : f = [p \in D |-> Walk(f, base, other, p)]
  <2> DEFINE k == Len(base) + Len(other) + 1
  <2>1. k \in Nat /\ \A p \in D : d(p) < k
    BY DEF Places, Ahead
  <2>2. Part(k)
    <3> HIDE DEF Part, k
    <3> QED
      BY <1>4, <2>1
  <2>3. PICK f : \A p \in D : f[p] = Walk(f, base, other, p)
    BY <2>1, <2>2
  <2> DEFINE g == [p \in D |-> f[p]]
  <2>4. \A p \in D : Walk(g, base, other, p) = Walk(f, base, other, p)
    <3>1. \A q \in D : g[q] = f[q]
      OBVIOUS
    <3> HIDE DEF g
    <3>2. QED
      BY <3>1, WalkLocal
  <2>5. g = [p \in D |-> Walk(g, base, other, p)]
    BY <2>3, <2>4
  <2> HIDE DEF g
  <2>6. QED
    BY ONLY <2>5, Zenon
<1> DEFINE match == CHOOSE f : f = [p \in D |-> Walk(f, base, other, p)]
<1>6. match = [p \in D |-> Walk(match, base, other, p)]
  BY <1>5
<1>7. lcsMatch(base, other) = match[<<1, 1>>]
  BY DEF lcsMatch, Walk, Places
<1> HIDE DEF match
<1>8. \A p \in D : match[p] = Walk(match, base, other, p)
  BY <1>6
<1>9. QED
  BY <1>7, <1>8

\* Pairs of equal lines, from <<i, j>> on, that do not cross.
Matching(pairs, base, other, i, j) ==
    /\ pairs \subseteq (i .. Len(base)) \X (j .. Len(other))
    /\ \A r \in pairs : base[r[1]] = other[r[2]]
    /\ \A r, s \in pairs : r[1] < s[1] <=> r[2] < s[2]

\* Pairs that are matched further on are matched from here on.
LEMMA MatchingFrom ==
    ASSUME NEW L, NEW base \in Seq(L), NEW other \in Seq(L), NEW pairs,
           NEW i \in Nat, NEW j \in Nat, NEW i2 \in Nat, NEW j2 \in Nat, i <= i2, j <= j2,
           Matching(pairs, base, other, i2, j2)
    PROVE  Matching(pairs, base, other, i, j)
<1>1. (i2 .. Len(base)) \X (j2 .. Len(other)) \subseteq (i .. Len(base)) \X (j .. Len(other))
  OBVIOUS
<1>2. QED
  BY <1>1 DEF Matching

\* A pair of equal lines can be put before the pairs matched after it.
LEMMA OneMore ==
    ASSUME NEW L, NEW base \in Seq(L), NEW other \in Seq(L), NEW pairs,
           NEW i \in 1 .. Len(base), NEW j \in 1 .. Len(other), base[i] = other[j],
           Matching(pairs, base, other, i + 1, j + 1)
    PROVE  Matching({<<i, j>>} \cup pairs, base, other, i, j)
<1>1. \A r \in pairs : r \in (i + 1 .. Len(base)) \X (j + 1 .. Len(other))
  BY DEF Matching
<1>2. \A r \in pairs : /\ r \in (i .. Len(base)) \X (j .. Len(other))
                       /\ i < r[1] /\ j < r[2] /\ ~(r[1] < i) /\ ~(r[2] < j)
  BY <1>1
<1>3. <<i, j>> \in (i .. Len(base)) \X (j .. Len(other))
  OBVIOUS
<1>4. \A r, s \in {<<i, j>>} \cup pairs : r[1] < s[1] <=> r[2] < s[2]
  <2> SUFFICES ASSUME NEW r \in {<<i, j>>} \cup pairs, NEW s \in {<<i, j>>} \cup pairs
               PROVE  r[1] < s[1] <=> r[2] < s[2]
    OBVIOUS
  <2>1. CASE r \in pairs /\ s \in pairs
    BY <2>1 DEF Matching
  <2>2. CASE r = <<i, j>> /\ s \in pairs
    BY <1>2, <2>2
  <2>3. CASE r \in pairs /\ s = <<i, j>>
    BY <1>2, <2>3
  <2>4. CASE r = <<i, j>> /\ s = <<i, j>>
    BY <2>4
  <2>5. QED
    BY <2>1, <2>2, <2>3, <2>4
<1>5. \A r \in {<<i, j>>} \cup pairs : base[r[1]] = other[r[2]]
  BY DEF Matching
<1>6. QED
  BY <1>2, <1>3, <1>4, <1>5 DEF Matching

\* A step of the walk keeps the pairs in line.
LEMMA WalkMatching ==
    ASSUME NEW L, NEW base \in Seq(L), NEW other \in Seq(L), NEW match,
           NEW i \in 1 .. Len(base) + 1, NEW j \in 1 .. Len(other) + 1,
           i <= Len(base) /\ j <= Len(other) =>
              /\ Matching(match[<<i + 1, j + 1>>], base, other, i + 1, j + 1)
              /\ Matching(match[<<i + 1, j>>], base, other, i + 1, j)
              /\ Matching(match[<<i, j + 1>>], base, other, i, j + 1)
    PROVE  Matching(Walk(match, base, other, <<i, j>>), base, other, i, j)
<1>1. CASE i > Len(base) \/ j > Len(other)
  BY <1>1 DEF Walk, Matching
<1>2. CASE i <= Len(base) /\ j <= Len(other)
  <2> DEFINE both == match[<<i + 1, j + 1>>]
             skipBase == match[<<i + 1, j>>]
             skipOther == match[<<i, j + 1>>]
  <2>1. /\ base[i] = other[j] => Walk(match, base, other, <<i, j>>) = {<<i, j>>} \cup both
        /\ base[i] # other[j] => Walk(match, base, other, <<i, j>>) \in {skipBase, skipOther}
    BY <1>2 DEF Walk
  <2>2. /\ Matching(both, base, other, i + 1, j + 1)
        /\ Matching(skipBase, base, other, i + 1, j)
        /\ Matching(skipOther, base, other, i, j + 1)
    BY <1>2
  <2>3. i \in 1 .. Len(base) /\ j \in 1 .. Len(other)
    BY <1>2
  <2> HIDE DEF both, skipBase, skipOther
  <2>4. CASE base[i] = other[j]
    <3>1. Matching({<<i, j>>} \cup both, base, other, i, j)
      BY <2>2, <2>3, <2>4, OneMore
    <3>2. QED
      BY <2>1, <2>4, <3>1
  <2>5. CASE base[i] # other[j]
    <3>1. Matching(skipBase, base, other, i, j) /\ Matching(skipOther, base, other, i, j)
      BY <2>2, <2>3, MatchingFrom
    <3>2. QED
      BY <2>1, <2>5, <3>1
  <2>6. QED
    BY <2>4, <2>5
<1>3. QED
  BY <1>1, <1>2

\* What lcsMatch returns are pairs of equal lines that do not cross.
LEMMA Matched ==
    ASSUME NEW L, NEW base \in Seq(L), NEW other \in Seq(L)
    PROVE  Matching(lcsMatch(base, other), base, other, 1, 1)
<1> DEFINE D == Places(base, other)
           d(p) == Ahead(base, other, p)
<1>1. PICK match : /\ \A p \in D : match[p] = Walk(match, base, other, p)
                   /\ lcsMatch(base, other) = match[<<1, 1>>]
  BY WalkExists
<1> DEFINE Good(p) == Matching(match[p], base, other, p[1], p[2])
           P == {k \in Nat : \A p \in D : d(p) < k => Good(p)}
<1>2. \A p \in D : d(p) \in Nat
  BY DEF Places, Ahead
<1>3. ASSUME NEW k \in P PROVE k + 1 \in P
  <2>1. k \in Nat /\ \A p \in D : d(p) < k => Good(p)
    OBVIOUS
  <2> HIDE DEF P
  <2> SUFFICES ASSUME NEW p \in D, d(p) < k + 1 PROVE Good(p)
    BY <2>1 DEF P
  <2>2. PICK i \in 1 .. Len(base) + 1, j \in 1 .. Len(other) + 1 : p = <<i, j>>
    BY DEF Places
  <2>3. i <= Len(base) /\ j <= Len(other) =>
           \A q \in {<<i + 1, j + 1>>, <<i + 1, j>>, <<i, j + 1>>} : Good(q)
    <3> SUFFICES ASSUME i <= Len(base), j <= Len(other)
                 PROVE  \A q \in {<<i + 1, j + 1>>, <<i + 1, j>>, <<i, j + 1>>} : Good(q)
      OBVIOUS
    <3>1. i \in 1 .. Len(base) /\ j \in 1 .. Len(other)
      OBVIOUS
    <3>2. \A q \in {<<i + 1, j + 1>>, <<i + 1, j>>, <<i, j + 1>>} :
             q \in D /\ d(q) \in Nat /\ d(p) \in Nat /\ d(q) < d(p)
      BY <2>2, <3>1, WalkOn
    <3> HIDE DEF d, Good, D
    <3>3. ASSUME NEW q \in {<<i + 1, j + 1>>, <<i + 1, j>>, <<i, j + 1>>}
          PROVE  d(q) < k
      <4>1. d(q) \in Nat /\ d(p) \in Nat /\ d(q) < d(p) /\ d(p) < k + 1 /\ k \in Nat
        BY <2>1, <3>2
      <4>2. QED
        BY ONLY <4>1
    <3>4. QED
      BY <2>1, <3>2, <3>3
  <2>4. Matching(Walk(match, base, other, <<i, j>>), base, other, i, j)
    BY <2>2, <2>3, WalkMatching
  <2>5. QED
    BY <1>1, <2>2, <2>4
<1>4. 0 \in P
  BY <1>2
<1>5. Nat \subseteq P
  <2> HIDE DEF P
  <2> QED
    BY <1>3, <1>4, Induct
<1>6. <<1, 1>> \in D /\ d(<<1, 1>>) \in Nat
  BY DEF Places, Ahead
<1>7. Good(<<1, 1>>)
  <2>1. d(<<1, 1>>) + 1 \in P /\ d(<<1, 1>>) < d(<<1, 1>>) + 1
    BY <1>5, <1>6
  <2> HIDE DEF Good, d, D
  <2>2. QED
    BY <1>6, <2>1
<1>8. QED
  BY <1>1, <1>7

\* A version is matched with itself line by line.
LEMMA MatchedItself ==
    ASSUME NEW L, NEW base \in Seq(L)
    PROVE  lcsMatch(base, base) = {<<i, i>> : i \in 1 .. Len(base)}
<1> DEFINE D == Places(base, base)
           n == Len(base)
<1>1. PICK match : /\ \A p \in D : match[p] = Walk(match, base, base, p)
                   /\ lcsMatch(base, base) = match[<<1, 1>>]
  BY WalkExists
<1>2. n \in Nat /\ \A i \in 1 .. n + 1 : <<i, i>> \in D
  BY DEF Places
<1>3. \A i \in 1 .. n + 1 :
         match[<<i, i>>] = IF i > n THEN {} ELSE {<<i, i>>} \cup match[<<i + 1, i + 1>>]
  <2> SUFFICES ASSUME NEW i \in 1 .. n + 1
               PROVE  match[<<i, i>>] = IF i > n THEN {} ELSE {<<i, i>>} \cup match[<<i + 1, i + 1>>]
    OBVIOUS
  <2>1. match[<<i, i>>] = Walk(match, base, base, <<i, i>>)
    BY <1>1, <1>2
  <2>2. QED
    BY <2>1 DEF Walk
<1> DEFINE Same(i) == {<<x, x>> : x \in i .. n}
           Good(k) == \A i \in 1 .. n + 1 : n + 1 - i = k => match[<<i, i>>] = Same(i)
           P == {k \in Nat : Good(k)}
<1>4. Same(n + 1) = {} /\ \A i \in 1 .. n : Same(i) = {<<i, i>>} \cup Same(i + 1)
  <2>1. (n + 1) .. n = {} /\ \A i \in 1 .. n : i .. n = {i} \cup ((i + 1) .. n)
    BY <1>2
  <2>2. ASSUME NEW i \in 1 .. n PROVE Same(i) = {<<i, i>>} \cup Same(i + 1)
    <3>1. Same(i) = {<<x, x>> : x \in {i} \cup ((i + 1) .. n)}
      BY <2>1
    <3>2. QED
      BY <3>1
  <2>3. Same(n + 1) = {}
    BY <2>1
  <2>4. QED
    BY <2>2, <2>3
<1>5. Good(0)
  <2> SUFFICES ASSUME NEW i \in 1 .. n + 1, n + 1 - i = 0 PROVE match[<<i, i>>] = Same(i)
    OBVIOUS
  <2>1. i = n + 1 /\ i > n
    BY <1>2
  <2> HIDE DEF Same
  <2>2. QED
    BY <1>3, <1>4, <2>1
<1>6. ASSUME NEW k \in Nat, Good(k) PROVE Good(k + 1)
  <2> SUFFICES ASSUME NEW i \in 1 .. n + 1, n + 1 - i = k + 1 PROVE match[<<i, i>>] = Same(i)
    OBVIOUS
  <2>1. i \in 1 .. n /\ i + 1 \in 1 .. n + 1 /\ n + 1 - (i + 1) = k /\ ~(i > n)
    BY <1>2
  <2> HIDE DEF Same
  <2>2. match[<<i + 1, i + 1>>] = Same(i + 1)
    BY <1>6, <2>1
  <2>3. match[<<i, i>>] = {<<i, i>>} \cup match[<<i + 1, i + 1>>]
    BY <1>3, <2>1
  <2>4. QED
    BY <1>4, <2>1, <2>2, <2>3
<1>7. Nat \subseteq P
  <2> HIDE DEF Good
  <2>1. 0 \in P /\ \A k \in Nat : k \in P => k + 1 \in P
    BY <1>5, <1>6
  <2> HIDE DEF P
  <2>2. QED
    BY <2>1, Induct
<1>8. match[<<1, 1>>] = Same(1)
  <2>1. n + 1 - 1 = n /\ 1 \in 1 .. n + 1
    BY <1>2
  <2>2. Good(n)
    <3> HIDE DEF Good
    <3> QED
      BY <1>2, <1>7
  <2>3. QED
    BY <2>1, <2>2
<1>9. QED
  BY <1>1, <1>8

(***************************************************************************)
(* computeHunks: the hunks are the gaps between matched lines.             *)
(***************************************************************************)
\* The matched lines and the ends, between which the gaps are.
Anchors(base, other) ==
    lcsMatch(base, other) \cup {<<0, 0>>, <<Len(base) + 1, Len(other) + 1>>}

Follows(anchors, p, q) ==
    p[1] < q[1] /\ \A r \in anchors : r[1] <= p[1] \/ r[1] >= q[1]

HunkBetween(other, p, q) ==
    [start |-> p[1] + 1, end |-> q[1], content |-> SubSeq(other, p[2] + 1, q[2] - 1)]

\* A hunk is a gap between two anchors, not empty on both sides.
LEMMA HunkIsGap ==
    ASSUME NEW base, NEW other, NEW h
    PROVE  h \in computeHunks(base, other) <=>
              \E p, q \in Anchors(base, other) :
                 /\ Follows(Anchors(base, other), p, q)
                 /\ q[1] > p[1] + 1 \/ q[2] > p[2] + 1
                 /\ h = HunkBetween(other, p, q)
<1> DEFINE A == Anchors(base, other)
           gaps == {g \in A \X A : Follows(A, g[1], g[2])}
           open == {g \in gaps : g[2][1] > g[1][1] + 1 \/ g[2][2] > g[1][2] + 1}
<1>1. computeHunks(base, other) = {HunkBetween(other, g[1], g[2]) : g \in open}
  BY DEF computeHunks, Anchors, Follows, HunkBetween
<1>2. ASSUME NEW p \in A, NEW q \in A, Follows(A, p, q), q[1] > p[1] + 1 \/ q[2] > p[2] + 1
      PROVE  HunkBetween(other, p, q) \in computeHunks(base, other)
  <2> HIDE DEF A
  <2> DEFINE g == <<p, q>>
  <2>1. g[1] = p /\ g[2] = q /\ g \in open
    BY <1>2
  <2> HIDE DEF g, open
  <2>2. QED
    BY <1>1, <2>1
<1>3. ASSUME h \in computeHunks(base, other)
      PROVE  \E p, q \in A : /\ Follows(A, p, q)
                             /\ q[1] > p[1] + 1 \/ q[2] > p[2] + 1
                             /\ h = HunkBetween(other, p, q)
  <2> HIDE DEF A
  <2>1. PICK g \in open : h = HunkBetween(other, g[1], g[2])
    BY <1>1, <1>3
  <2>2. g[1] \in A /\ g[2] \in A /\ Follows(A, g[1], g[2])
        /\ (g[2][1] > g[1][1] + 1 \/ g[2][2] > g[1][2] + 1)
    OBVIOUS
  <2>3. QED
    BY <2>1, <2>2
<1>4. QED
  BY <1>2, <1>3

\* Anchors do not cross.
LEMMA AnchorsInLine ==
    ASSUME NEW L, NEW base \in Seq(L), NEW other \in Seq(L)
    PROVE  /\ \A p \in Anchors(base, other) :
                 p = <<p[1], p[2]>> /\ p[1] \in 0 .. Len(base) + 1 /\ p[2] \in 0 .. Len(other) + 1
           /\ \A p, q \in Anchors(base, other) : p[1] < q[1] <=> p[2] < q[2]
<1> DEFINE P == lcsMatch(base, other)
           first == <<0, 0>>
           last == <<Len(base) + 1, Len(other) + 1>>
<1>1. Len(base) \in Nat /\ Len(other) \in Nat
  OBVIOUS
<1>2. /\ \A p \in P : p = <<p[1], p[2]>> /\ p[1] \in 1 .. Len(base) /\ p[2] \in 1 .. Len(other)
      /\ \A p, q \in P : p[1] < q[1] <=> p[2] < q[2]
  BY Matched DEF Matching
<1>3. /\ first[1] = 0 /\ first[2] = 0 /\ last[1] = Len(base) + 1 /\ last[2] = Len(other) + 1
      /\ first = <<first[1], first[2]>> /\ last = <<last[1], last[2]>>
      /\ Anchors(base, other) = P \cup {first, last}
  BY DEF Anchors
<1> HIDE DEF P, first, last
<1>4. \A p \in P \cup {first, last} :
         p = <<p[1], p[2]>> /\ p[1] \in 0 .. Len(base) + 1 /\ p[2] \in 0 .. Len(other) + 1
  BY <1>1, <1>2, <1>3
<1>5. ASSUME NEW p \in P \cup {first, last}, NEW q \in P \cup {first, last}
      PROVE  p[1] < q[1] <=> p[2] < q[2]
  <2>1. CASE p \in P /\ q \in P
    BY <1>2, <2>1
  <2>2. CASE p = first
    <3>1. q = first \/ (q[1] \in 1 .. Len(base) + 1 /\ q[2] \in 1 .. Len(other) + 1)
      BY <1>1, <1>2, <1>3
    <3>2. QED
      BY <1>3, <2>2, <3>1
  <2>3. CASE p = last
    BY <1>1, <1>3, <1>4, <2>3
  <2>4. CASE p \in P /\ q = first
    BY <1>2, <1>3, <2>4
  <2>5. CASE p \in P /\ q = last
    BY <1>1, <1>2, <1>3, <2>5
  <2>6. QED
    BY <2>1, <2>2, <2>3, <2>4, <2>5
<1>6. QED
  BY <1>3, <1>4, <1>5

\* Anchors are told apart by either of their two places.
LEMMA AnchorsApart ==
    ASSUME NEW L, NEW base \in Seq(L), NEW other \in Seq(L),
           NEW p \in Anchors(base, other), NEW q \in Anchors(base, other),
           p[1] = q[1] \/ p[2] = q[2]
    PROVE  p = q
<1>1. /\ p = <<p[1], p[2]>> /\ p[1] \in Int /\ p[2] \in Int
      /\ q = <<q[1], q[2]>> /\ q[1] \in Int /\ q[2] \in Int
      /\ p[1] < q[1] <=> p[2] < q[2]
      /\ q[1] < p[1] <=> q[2] < p[2]
  BY AnchorsInLine
<1>2. p[1] = q[1] /\ p[2] = q[2]
  BY <1>1
<1>3. QED
  BY <1>1, <1>2

\* A place of the base, and one of the other version, lies between two anchors
\* that follow each other, unless it is that of one.
LEMMA BetweenAnchors ==
    ASSUME NEW L, NEW base \in Seq(L), NEW other \in Seq(L), NEW c \in {1, 2},
           NEW x \in Nat, 0 < x, x < (IF c = 1 THEN Len(base) + 1 ELSE Len(other) + 1),
           \A r \in Anchors(base, other) : r[c] # x
    PROVE  \E p, q \in Anchors(base, other) :
              Follows(Anchors(base, other), p, q) /\ p[c] < x /\ x < q[c]
<1> DEFINE A == Anchors(base, other)
           n == (IF c = 1 THEN Len(base) ELSE Len(other)) + 1
           first == <<0, 0>>
           last == <<Len(base) + 1, Len(other) + 1>>
<1>1. first \in A /\ last \in A /\ first[c] = 0 /\ last[c] = n /\ n \in Nat /\ x < n
  BY DEF Anchors
<1>2. /\ \A r \in A : r[c] \in 0 .. n
      /\ \A r, s \in A : r[1] < s[1] <=> r[c] < s[c]
      /\ \A r \in A : r[1] \in Int
  <2>1. CASE c = 1
    BY AnchorsInLine, <2>1
  <2>2. CASE c = 2
    BY AnchorsInLine, <2>2
  <2>3. QED
    BY <2>1, <2>2
<1> HIDE DEF A, n, first, last
<1> DEFINE below == {r[c] : r \in {s \in A : s[c] < x}}
           above == {r[c] : r \in {s \in A : s[c] > x}}
<1>3. PICK p \in A : p[c] < x /\ \A r \in A : r[c] < x => r[c] <= p[c]
  <2>1. below \subseteq 0 .. n /\ first[c] \in below
    BY <1>1, <1>2
  <2> HIDE DEF below
  <2>2. PICK y \in below : \A z \in below : z <= y
    BY <1>1, <2>1, Greatest
  <2>3. QED
    BY <2>2 DEF below
<1>4. PICK q \in A : x < q[c] /\ \A r \in A : r[c] > x => q[c] <= r[c]
  <2>1. above \subseteq Nat /\ last[c] \in above
    BY <1>1, <1>2
  <2> HIDE DEF above
  <2>2. PICK y \in above : \A z \in above : y <= z
    BY <2>1, Least
  <2>3. QED
    BY <2>2 DEF above
<1>5. \A r \in A : r[c] <= p[c] \/ r[c] >= q[c]
  BY <1>2, <1>3, <1>4 DEF A
<1>6. \A r \in A : r[1] <= p[1] \/ r[1] >= q[1]
  <2> SUFFICES ASSUME NEW r \in A PROVE r[1] <= p[1] \/ r[1] >= q[1]
    OBVIOUS
  <2>1. /\ r[c] \in Int /\ p[c] \in Int /\ q[c] \in Int
        /\ r[1] \in Int /\ p[1] \in Int /\ q[1] \in Int
        /\ p[1] < r[1] <=> p[c] < r[c]
        /\ r[1] < q[1] <=> r[c] < q[c]
    BY <1>2
  <2>2. r[c] <= p[c] \/ r[c] >= q[c]
    BY <1>5
  <2>3. QED
    BY <2>1, <2>2
<1>7. p[1] < q[1]
  <2>1. p[c] < q[c]
    BY <1>2, <1>3, <1>4
  <2>2. QED
    BY <1>2, <2>1
<1>8. QED
  BY <1>3, <1>4, <1>6, <1>7 DEF Follows, A

-------------------------------------------------------------------------------
\* What a hunk replaces and what it brings.
Hunk(L, n, other) ==
    {h \in [start : 1 .. n + 1, end : 1 .. n + 1, content : Seq(L)] :
       h.start <= h.end /\ Lines(h.content) \subseteq Lines(other)}

\* The lines of a part of a document.
LEMMA PartLines ==
    ASSUME NEW L, NEW s \in Seq(L), NEW i \in Nat, NEW j \in Nat, i >= 1, j <= Len(s)
    PROVE  /\ SubSeq(s, i, j) \in Seq(L)
           /\ Lines(SubSeq(s, i, j)) \subseteq Lines(s)
           /\ \A k \in i .. j : s[k] \in Lines(SubSeq(s, i, j))
<1>1. /\ SubSeq(s, i, j) \in Seq(L)
      /\ Len(SubSeq(s, i, j)) = IF i <= j THEN j - i + 1 ELSE 0
      /\ \A k \in 1 .. j - i + 1 : SubSeq(s, i, j)[k] = s[i + k - 1]
  BY SubSeqProperties
<1>2. ASSUME NEW x \in Lines(SubSeq(s, i, j)) PROVE x \in Lines(s)
  <2>1. PICK k \in DOMAIN SubSeq(s, i, j) : SubSeq(s, i, j)[k] = x
    BY <1>2, InLines
  <2>2. k \in 1 .. j - i + 1
    BY <1>1
  <2>3. i + k - 1 \in DOMAIN s /\ s[i + k - 1] = x
    BY <1>1, <2>1, <2>2
  <2>4. QED
    BY <2>3, InLines
<1>3. ASSUME NEW k \in i .. j PROVE s[k] \in Lines(SubSeq(s, i, j))
  <2>1. k - i + 1 \in 1 .. j - i + 1 /\ i + (k - i + 1) - 1 = k /\ i <= j
    OBVIOUS
  <2>2. k - i + 1 \in DOMAIN SubSeq(s, i, j) /\ SubSeq(s, i, j)[k - i + 1] = s[k]
    BY <1>1, <2>1
  <2>3. QED
    BY <2>2, InLines
<1>4. QED
  BY <1>1, <1>2, <1>3

\* Hunks lie within the base and bring lines of the other version.
LEMMA HunkType ==
    ASSUME NEW L, NEW base \in Seq(L), NEW other \in Seq(L)
    PROVE  computeHunks(base, other) \subseteq Hunk(L, Len(base), other)
<1> SUFFICES ASSUME NEW h \in computeHunks(base, other) PROVE h \in Hunk(L, Len(base), other)
  OBVIOUS
<1>1. PICK p, q \in Anchors(base, other) :
         Follows(Anchors(base, other), p, q) /\ h = HunkBetween(other, p, q)
  BY HunkIsGap
<1>2. /\ p[1] \in 0 .. Len(base) + 1 /\ q[1] \in 0 .. Len(base) + 1 /\ p[1] < q[1]
      /\ p[2] \in 0 .. Len(other) + 1 /\ q[2] \in 0 .. Len(other) + 1 /\ p[2] < q[2]
      /\ Len(base) \in Nat /\ Len(other) \in Nat
  BY <1>1, AnchorsInLine DEF Follows
<1>3. /\ p[1] + 1 \in 1 .. Len(base) + 1 /\ q[1] \in 1 .. Len(base) + 1 /\ p[1] + 1 <= q[1]
      /\ p[2] + 1 \in Nat /\ p[2] + 1 >= 1 /\ q[2] - 1 \in Nat /\ q[2] - 1 <= Len(other)
  <2>1. \A n \in Nat, i, j \in Int : i \in 0 .. n + 1 /\ j \in 0 .. n + 1 /\ i < j =>
           i + 1 \in 1 .. n + 1 /\ j \in 1 .. n + 1 /\ i + 1 <= j /\ j - 1 \in Nat /\ j - 1 <= n
    OBVIOUS
  <2>2. /\ p[1] + 1 \in 1 .. Len(base) + 1 /\ q[1] \in 1 .. Len(base) + 1 /\ p[1] + 1 <= q[1]
    BY <1>2, <2>1
  <2>3. p[2] + 1 \in 1 .. Len(other) + 1 /\ q[2] - 1 \in Nat /\ q[2] - 1 <= Len(other)
    BY <1>2, <2>1
  <2>4. QED
    BY <1>2, <2>2, <2>3
<1>4. /\ SubSeq(other, p[2] + 1, q[2] - 1) \in Seq(L)
      /\ Lines(SubSeq(other, p[2] + 1, q[2] - 1)) \subseteq Lines(other)
  BY <1>3, PartLines
<1>5. QED
  BY <1>1, <1>3, <1>4 DEF Hunk, HunkBetween

\* Between two hunks of one side there is a matched line.
LEMMA HunksApart ==
    ASSUME NEW L, NEW base \in Seq(L), NEW other \in Seq(L),
           NEW h \in computeHunks(base, other), NEW k \in computeHunks(base, other)
    PROVE  h = k \/ h.end < k.start \/ k.end < h.start
<1> DEFINE A == Anchors(base, other)
<1>1. PICK p, q \in A : Follows(A, p, q) /\ h = HunkBetween(other, p, q)
  BY HunkIsGap
<1>2. PICK r, s \in A : Follows(A, r, s) /\ k = HunkBetween(other, r, s)
  BY HunkIsGap
<1>3. /\ h.start = p[1] + 1 /\ h.end = q[1] /\ k.start = r[1] + 1 /\ k.end = s[1]
      /\ p[1] \in Int /\ q[1] \in Int /\ r[1] \in Int /\ s[1] \in Int
  BY <1>1, <1>2, AnchorsInLine DEF HunkBetween
<1>4. CASE p[1] < r[1]
  <2>1. r[1] >= q[1]
    BY <1>1, <1>3, <1>4 DEF Follows
  <2>2. QED
    BY <1>3, <2>1
<1>5. CASE r[1] < p[1]
  <2>1. p[1] >= s[1]
    BY <1>2, <1>3, <1>5 DEF Follows
  <2>2. QED
    BY <1>3, <2>1
<1>6. CASE p[1] = r[1]
  <2>1. q[1] <= s[1] /\ s[1] <= q[1]
    BY <1>1, <1>2, <1>3, <1>6 DEF Follows
  <2>2. p = r /\ q = s
    BY <1>3, <1>6, <2>1, AnchorsApart
  <2>3. QED
    BY <1>1, <1>2, <2>2
<1>7. QED
  BY <1>3, <1>4, <1>5, <1>6

\* A base line is matched or in a hunk, and not both.
LEMMA BaseCovered ==
    ASSUME NEW L, NEW base \in Seq(L), NEW other \in Seq(L), NEW x \in 1 .. Len(base)
    PROVE  (\E y \in 1 .. Len(other) : <<x, y>> \in lcsMatch(base, other))
              <=> ~ \E h \in computeHunks(base, other) : h.start <= x /\ x < h.end
<1> DEFINE A == Anchors(base, other)
           P == lcsMatch(base, other)
<1>1. /\ Len(base) \in Nat /\ Len(other) \in Nat /\ P \subseteq A
      /\ \A r \in A : r[1] = x => r \in P
  BY DEF Anchors
<1>2. \A r \in P : r = <<r[1], r[2]>> /\ r[1] \in 1 .. Len(base) /\ r[2] \in 1 .. Len(other)
  BY Matched DEF Matching
<1>3. ASSUME NEW y \in 1 .. Len(other), <<x, y>> \in P,
             NEW h \in computeHunks(base, other), h.start <= x, x < h.end
      PROVE  FALSE
  <2>1. PICK p, q \in A : Follows(A, p, q) /\ h = HunkBetween(other, p, q)
    BY HunkIsGap
  <2>2. h.start = p[1] + 1 /\ h.end = q[1] /\ p[1] \in Int /\ q[1] \in Int
    BY <2>1, AnchorsInLine DEF HunkBetween
  <2>3. x <= p[1] \/ x >= q[1]
    <3> DEFINE r == <<x, y>>
    <3>1. r \in A /\ r[1] = x
      BY <1>1, <1>3
    <3> HIDE DEF r
    <3>2. QED
      BY <2>1, <3>1 DEF Follows
  <2>4. QED
    BY <1>3, <2>2, <2>3
<1>4. ASSUME ~ \E y \in 1 .. Len(other) : <<x, y>> \in P
      PROVE  \E h \in computeHunks(base, other) : h.start <= x /\ x < h.end
  <2>1. \A r \in A : r[1] # x
    BY <1>1, <1>2, <1>4
  <2>2. PICK p, q \in A : Follows(A, p, q) /\ p[1] < x /\ x < q[1]
    BY <1>1, <2>1, BetweenAnchors
  <2>3. p[1] \in Int /\ q[1] \in Int /\ q[1] > p[1] + 1 /\ p[1] + 1 <= x
    BY <2>2, AnchorsInLine
  <2>4. HunkBetween(other, p, q) \in computeHunks(base, other)
    BY <2>2, <2>3, HunkIsGap
  <2>5. HunkBetween(other, p, q).start = p[1] + 1 /\ HunkBetween(other, p, q).end = q[1]
    BY DEF HunkBetween
  <2>6. QED
    BY <2>2, <2>3, <2>4, <2>5
<1>5. QED
  BY <1>3, <1>4

\* A line of the other version is matched or brought by a hunk.
LEMMA OtherCovered ==
    ASSUME NEW L, NEW base \in Seq(L), NEW other \in Seq(L), NEW y \in 1 .. Len(other)
    PROVE  \/ \E x \in 1 .. Len(base) : <<x, y>> \in lcsMatch(base, other)
           \/ \E h \in computeHunks(base, other) : other[y] \in Lines(h.content)
<1> DEFINE A == Anchors(base, other)
           P == lcsMatch(base, other)
<1>1. /\ Len(base) \in Nat /\ Len(other) \in Nat /\ P \subseteq A
      /\ \A r \in A : r[2] = y => r \in P
  BY DEF Anchors
<1>2. \A r \in P : r = <<r[1], r[2]>> /\ r[1] \in 1 .. Len(base) /\ r[2] \in 1 .. Len(other)
  BY Matched DEF Matching
<1>3. ASSUME ~ \E x \in 1 .. Len(base) : <<x, y>> \in P
      PROVE  \E h \in computeHunks(base, other) : other[y] \in Lines(h.content)
  <2>1. \A r \in A : r[2] # y
    BY <1>1, <1>2, <1>3
  <2>2. PICK p, q \in A : Follows(A, p, q) /\ p[2] < y /\ y < q[2]
    BY <1>1, <2>1, BetweenAnchors
  <2>3. /\ p[2] \in 0 .. Len(other) + 1 /\ q[2] \in 0 .. Len(other) + 1
        /\ q[2] > p[2] + 1 /\ y \in (p[2] + 1) .. (q[2] - 1)
    BY <2>2, AnchorsInLine
  <2>4. HunkBetween(other, p, q) \in computeHunks(base, other)
    BY <2>2, <2>3, HunkIsGap
  <2>5. p[2] + 1 \in Nat /\ p[2] + 1 >= 1 /\ q[2] - 1 \in Nat /\ q[2] - 1 <= Len(other)
    BY <1>1, <2>3
  <2>6. other[y] \in Lines(SubSeq(other, p[2] + 1, q[2] - 1))
    BY <2>3, <2>5, PartLines
  <2>7. HunkBetween(other, p, q).content = SubSeq(other, p[2] + 1, q[2] - 1)
    BY DEF HunkBetween
  <2>8. QED
    BY <2>4, <2>6, <2>7
<1>4. QED
  BY <1>3

(***************************************************************************)
(* Clusters: the walk over base positions gathers every hunk.              *)
(***************************************************************************)
\* Hunks within a base of n lines.
Within(hunks, n) ==
    \A h \in hunks : h.start \in 1 .. n + 1 /\ h.end \in 1 .. n + 1 /\ h.start <= h.end

Starts(a, b, p) == {h.start : h \in {k \in a \cup b : k.start >= p}}
FirstStart(a, b, p) == CHOOSE s \in Starts(a, b, p) : \A t \in Starts(a, b, p) : s <= t

\* Where Clusters' walk goes on after the cluster at start.
Onward(a, b, n, start) ==
    IF ClusterEnd(a, b, n, start) > start THEN ClusterEnd(a, b, n, start) ELSE start + 1

ClusterAt(a, b, n, start) == [start |-> start, end |-> ClusterEnd(a, b, n, start)]

\* A step of the walk, with what is clustered further on given.
ClusterWalk(from, a, b, n, p) ==
    IF Starts(a, b, p) = {} THEN {}
    ELSE {ClusterAt(a, b, n, FirstStart(a, b, p))} \cup from[Onward(a, b, n, FirstStart(a, b, p))]

\* The cluster at a start ends at the first place that no hunk in it goes beyond.
LEMMA ClusterEnds ==
    ASSUME NEW n \in Nat, NEW a, NEW b, Within(a \cup b, n), NEW start \in 1 .. n + 1
    PROVE  LET e == ClusterEnd(a, b, n, start)
               Reaches(f) == \A h \in a \cup b :
                                h.start = start \/ h.start \in start .. f - 1 => h.end <= f
           IN  /\ e \in start .. n + 1
               /\ Reaches(e)
               /\ \A f \in start .. n + 1 : Reaches(f) => e <= f
<1> DEFINE Reaches(f) == \A h \in a \cup b :
                            h.start = start \/ h.start \in start .. f - 1 => h.end <= f
           ends == {f \in start .. n + 1 : Reaches(f)}
<1>1. n + 1 \in ends
  BY DEF Within
<1>2. ends \subseteq Nat
  OBVIOUS
<1>3. ClusterEnd(a, b, n, start) = CHOOSE e \in ends : \A f \in ends : e <= f
  BY DEF ClusterEnd
<1> HIDE DEF ends
<1>4. \E e \in ends : \A f \in ends : e <= f
  BY <1>1, <1>2, Least
<1>5. ClusterEnd(a, b, n, start) \in ends /\ \A f \in ends : ClusterEnd(a, b, n, start) <= f
  BY <1>3, <1>4
<1>6. QED
  BY <1>5 DEF ends

\* The walk over the base stops at the first hunk's start.
LEMMA FirstStarts ==
    ASSUME NEW n \in Nat, NEW a, NEW b, Within(a \cup b, n), NEW p \in 1 .. n + 2,
           Starts(a, b, p) # {}
    PROVE  /\ FirstStart(a, b, p) \in p .. n + 1 /\ FirstStart(a, b, p) \in 1 .. n + 1
           /\ \A h \in a \cup b : h.start >= p => FirstStart(a, b, p) <= h.start
           /\ \E h \in a \cup b : h.start = FirstStart(a, b, p)
<1>1. Starts(a, b, p) \subseteq Nat
  BY DEF Starts, Within
<1>2. \E s \in Starts(a, b, p) : \A t \in Starts(a, b, p) : s <= t
  BY <1>1, Least
<1>3. /\ FirstStart(a, b, p) \in Starts(a, b, p)
      /\ \A t \in Starts(a, b, p) : FirstStart(a, b, p) <= t
  BY <1>2 DEF FirstStart
<1>4. PICK h \in a \cup b : h.start >= p /\ h.start = FirstStart(a, b, p)
  BY <1>3 DEF Starts
<1>5. FirstStart(a, b, p) \in p .. n + 1 /\ FirstStart(a, b, p) \in 1 .. n + 1
  BY <1>4 DEF Within
<1>6. \A k \in a \cup b : k.start >= p => FirstStart(a, b, p) <= k.start
  BY <1>3 DEF Starts
<1>7. QED
  BY <1>4, <1>5, <1>6

\* It goes on past the cluster, so it ends.
LEMMA GoesOnward ==
    ASSUME NEW n \in Nat, NEW a, NEW b, Within(a \cup b, n), NEW start \in 1 .. n + 1
    PROVE  /\ Onward(a, b, n, start) \in start + 1 .. n + 2
           /\ ClusterEnd(a, b, n, start) <= Onward(a, b, n, start)
<1>1. ClusterEnd(a, b, n, start) \in start .. n + 1
  BY ClusterEnds
<1>2. QED
  BY <1>1 DEF Onward

\* A step depends only on the clusters further on.
LEMMA ClusterWalkLocal ==
    ASSUME NEW n \in Nat, NEW a, NEW b, Within(a \cup b, n), NEW p \in 1 .. n + 2, NEW f, NEW g,
           \A q \in p + 1 .. n + 2 : f[q] = g[q]
    PROVE  ClusterWalk(f, a, b, n, p) = ClusterWalk(g, a, b, n, p)
<1>1. CASE Starts(a, b, p) = {}
  BY <1>1 DEF ClusterWalk
<1>2. CASE Starts(a, b, p) # {}
  <2> DEFINE start == FirstStart(a, b, p)
             next == Onward(a, b, n, start)
  <2>1. start \in p .. n + 1 /\ start \in 1 .. n + 1
    <3> HIDE DEF start
    <3> QED
      BY <1>2, FirstStarts DEF start
  <2>2. next \in start + 1 .. n + 2
    BY <2>1, GoesOnward
  <2>3. next \in p + 1 .. n + 2
    BY <2>1, <2>2
  <2>4. f[next] = g[next]
    BY <2>3
  <2>5. QED
    BY <2>4 DEF ClusterWalk
<1>3. QED
  BY <1>1, <1>2

\* So the function that Clusters chooses exists.
LEMMA ClustersExist ==
    ASSUME NEW n \in Nat, NEW a, NEW b, Within(a \cup b, n)
    PROVE  \E from : /\ \A p \in 1 .. n + 2 : from[p] = ClusterWalk(from, a, b, n, p)
                     /\ Clusters(a, b, n) = from[1]
<1> DEFINE D == 1 .. n + 2
           Part(k) == \E f : \A p \in D : n + 2 - p < k => f[p] = ClusterWalk(f, a, b, n, p)
           P == {k \in Nat : Part(k)}
<1>1. Part(0)
  <2>1. \A p \in D : ~(n + 2 - p < 0)
    OBVIOUS
  <2>2. QED
    BY <2>1
<1>2. ASSUME NEW k \in Nat, Part(k) PROVE Part(k + 1)
  <2>1. PICK f : \A p \in D : n + 2 - p < k => f[p] = ClusterWalk(f, a, b, n, p)
    BY <1>2
  <2> DEFINE g == [p \in D |-> IF n + 2 - p < k THEN f[p] ELSE ClusterWalk(f, a, b, n, p)]
  <2>2. \A p \in D : g[p] = ClusterWalk(f, a, b, n, p)
    BY <2>1
  <2>3. \A p \in D : n + 2 - p < k => g[p] = f[p]
    OBVIOUS
  <2> HIDE DEF g
  <2>4. ASSUME NEW p \in D, n + 2 - p < k + 1 PROVE g[p] = ClusterWalk(g, a, b, n, p)
    <3>1. \A q \in p + 1 .. n + 2 : q \in D /\ n + 2 - q < k
      BY <2>4
    <3>2. \A q \in p + 1 .. n + 2 : g[q] = f[q]
      BY <2>3, <3>1
    <3>3. ClusterWalk(g, a, b, n, p) = ClusterWalk(f, a, b, n, p)
      BY <3>2, ClusterWalkLocal
    <3>4. QED
      BY <2>2, <3>3
  <2>5. QED
    BY <2>4
<1>3. Nat \subseteq P
  <2> HIDE DEF Part
  <2>1. 0 \in P /\ \A k \in Nat : k \in P => k + 1 \in P
    BY <1>1, <1>2
  <2> HIDE DEF P
  <2>2. QED
    BY <2>1, Induct
<1>4. \E f : f = [p \in D |-> ClusterWalk(f, a, b, n, p)]
  <2>1. n + 2 \in Nat /\ \A p \in D : n + 2 - p < n + 2
    OBVIOUS
  <2>2. Part(n + 2)
    <3> HIDE DEF Part
    <3> QED
      BY <1>3, <2>1
  <2>3. PICK f : \A p \in D : f[p] = ClusterWalk(f, a, b, n, p)
    BY <2>1, <2>2
  <2> DEFINE g == [p \in D |-> f[p]]
  <2>4. ASSUME NEW p \in D PROVE ClusterWalk(g, a, b, n, p) = ClusterWalk(f, a, b, n, p)
    <3>1. \A q \in p + 1 .. n + 2 : g[q] = f[q]
      OBVIOUS
    <3> HIDE DEF g
    <3>2. QED
      BY <3>1, ClusterWalkLocal
  <2>5. g = [p \in D |-> ClusterWalk(g, a, b, n, p)]
    BY <2>3, <2>4
  <2> HIDE DEF g
  <2>6. QED
    BY ONLY <2>5, Zenon
<1> DEFINE from == CHOOSE f : f = [p \in D |-> ClusterWalk(f, a, b, n, p)]
<1>5. from = [p \in D |-> ClusterWalk(from, a, b, n, p)]
  BY <1>4
<1>6. Clusters(a, b, n) = from[1]
  BY DEF Clusters, ClusterWalk, ClusterAt, Onward, FirstStart, Starts
<1> HIDE DEF from
<1>7. \A p \in D : from[p] = ClusterWalk(from, a, b, n, p)
  BY <1>5
<1>8. QED
  BY <1>6, <1>7

\* The clusters from p on: each starts with a hunk and ends where ClusterEnd
\* says, they do not overlap, and every hunk is in one.
Clustering(C, a, b, n, p) ==
    /\ \A c \in C : /\ c.start \in p .. n + 1
                    /\ c = ClusterAt(a, b, n, c.start)
                    /\ \E h \in a \cup b : h.start = c.start
    /\ \A c, d \in C : \/ c = d
                       \/ c.start < d.start /\ c.end <= d.start
                       \/ d.start < c.start /\ d.end <= c.start
    /\ \A h \in a \cup b : h.start >= p => \E c \in C : Inside(h, c)

\* A step of the walk keeps the clusters apart and every hunk in one.
LEMMA WalkClusters ==
    ASSUME NEW n \in Nat, NEW a, NEW b, Within(a \cup b, n), NEW p \in 1 .. n + 2, NEW from,
           \A q \in p + 1 .. n + 2 : Clustering(from[q], a, b, n, q)
    PROVE  Clustering(ClusterWalk(from, a, b, n, p), a, b, n, p)
<1>1. CASE Starts(a, b, p) = {}
  <2>1. \A h \in a \cup b : ~(h.start >= p)
    BY <1>1 DEF Starts
  <2>2. ClusterWalk(from, a, b, n, p) = {}
    BY <1>1 DEF ClusterWalk
  <2>3. QED
    BY <2>1, <2>2 DEF Clustering
<1>2. CASE Starts(a, b, p) # {}
  <2> DEFINE start == FirstStart(a, b, p)
             next == Onward(a, b, n, start)
             this == ClusterAt(a, b, n, start)
             rest == from[next]
  <2>1. /\ start \in p .. n + 1 /\ start \in 1 .. n + 1
        /\ \A h \in a \cup b : h.start >= p => start <= h.start
        /\ \E h \in a \cup b : h.start = start
    <3> HIDE DEF start
    <3> QED
      BY <1>2, FirstStarts DEF start
  <2>2. /\ next \in start + 1 .. n + 2 /\ this.end <= next /\ this.start = start
        /\ this.end \in start .. n + 1
        /\ next = IF this.end > start THEN this.end ELSE start + 1
        /\ this = ClusterAt(a, b, n, this.start)
    BY <2>1, GoesOnward, ClusterEnds DEF ClusterAt, Onward
  <2>3. ClusterWalk(from, a, b, n, p) = {this} \cup rest
    BY <1>2 DEF ClusterWalk
  <2>4. Clustering(rest, a, b, n, next)
    BY <2>1, <2>2
  <2> HIDE DEF start, next, this, rest
  <2>5. \A c \in rest : c.start \in next .. n + 1 /\ c.start \in p .. n + 1
                        /\ this.start < c.start /\ this.end <= c.start
    BY <2>1, <2>2, <2>4 DEF Clustering
  <2>6. \A c \in {this} \cup rest : /\ c.start \in p .. n + 1
                                    /\ c = ClusterAt(a, b, n, c.start)
                                    /\ \E h \in a \cup b : h.start = c.start
    BY <2>1, <2>2, <2>4, <2>5 DEF Clustering
  <2>7. \A c, d \in {this} \cup rest : \/ c = d
                                       \/ c.start < d.start /\ c.end <= d.start
                                       \/ d.start < c.start /\ d.end <= c.start
    BY <2>4, <2>5 DEF Clustering
  <2>8. ASSUME NEW h \in a \cup b, h.start >= p PROVE \E c \in {this} \cup rest : Inside(h, c)
    <3>1. h.start \in start .. n + 1
      BY <2>1, <2>8 DEF Within
    <3>2. CASE h.start >= next
      BY <2>4, <3>2 DEF Clustering
    <3>3. CASE h.start < next
      <4>1. h.start = this.start \/ h.start \in this.start .. this.end - 1
        BY <2>1, <2>2, <3>1, <3>3
      <4>2. QED
        BY <4>1 DEF Inside
    <3>4. QED
      BY <2>1, <2>2, <3>1, <3>2, <3>3
  <2>9. QED
    BY <2>3, <2>6, <2>7, <2>8 DEF Clustering
<1>3. QED
  BY <1>1, <1>2

\* What Clusters returns.
LEMMA Clustered ==
    ASSUME NEW n \in Nat, NEW a, NEW b, Within(a \cup b, n)
    PROVE  Clustering(Clusters(a, b, n), a, b, n, 1)
<1>1. PICK from : /\ \A p \in 1 .. n + 2 : from[p] = ClusterWalk(from, a, b, n, p)
                  /\ Clusters(a, b, n) = from[1]
  BY ClustersExist
<1> DEFINE Good(k) == \A p \in 1 .. n + 2 : n + 2 - p < k => Clustering(from[p], a, b, n, p)
           P == {k \in Nat : Good(k)}
<1>2. Good(0)
  <2>1. \A p \in 1 .. n + 2 : ~(n + 2 - p < 0)
    OBVIOUS
  <2>2. QED
    BY <2>1
<1>3. ASSUME NEW k \in Nat, Good(k) PROVE Good(k + 1)
  <2> SUFFICES ASSUME NEW p \in 1 .. n + 2, n + 2 - p < k + 1
               PROVE  Clustering(from[p], a, b, n, p)
    OBVIOUS
  <2>1. \A q \in p + 1 .. n + 2 : q \in 1 .. n + 2 /\ n + 2 - q < k
    OBVIOUS
  <2>2. \A q \in p + 1 .. n + 2 : Clustering(from[q], a, b, n, q)
    BY <1>3, <2>1
  <2>3. Clustering(ClusterWalk(from, a, b, n, p), a, b, n, p)
    BY <2>2, WalkClusters
  <2>4. QED
    BY <1>1, <2>3
<1>4. Nat \subseteq P
  <2> HIDE DEF Good
  <2>1. 0 \in P /\ \A k \in Nat : k \in P => k + 1 \in P
    BY <1>2, <1>3
  <2> HIDE DEF P
  <2>2. QED
    BY <2>1, Induct
<1>5. Good(n + 2)
  <2> HIDE DEF Good
  <2> QED
    BY <1>4
<1>6. 1 \in 1 .. n + 2 /\ n + 2 - 1 < n + 2
  OBVIOUS
<1>7. QED
  BY <1>1, <1>5, <1>6

(***************************************************************************)
(* What the clusters become.                                               *)
(***************************************************************************)
\* The lines of a merged text, with whom they are attributed to.
Attributed(L) == [line : L, by : {"a", "b", "none"}]

Attributes(m, L, doc, user) ==
    /\ m \in Seq(Attributed(L))
    /\ Text(m) = doc
    /\ \A e \in Lines(m) : e.by = user /\ e.line \in Lines(doc)
    /\ \A x \in Lines(doc) : \E e \in Lines(m) : e.line = x

\* A document's lines, attributed to one user.
LEMMA ByLines ==
    ASSUME NEW L, NEW doc \in Seq(L), NEW user \in {"a", "b", "none"}
    PROVE  Attributes(By(doc, user), L, doc, user)
<1>1. Len(doc) \in Nat /\ DOMAIN doc = 1 .. Len(doc) /\ \A i \in 1 .. Len(doc) : doc[i] \in L
  OBVIOUS
<1>2. By(doc, user) = [i \in 1 .. Len(doc) |-> [line |-> doc[i], by |-> user]]
  BY <1>1 DEF By
<1>3. By(doc, user) \in Seq(Attributed(L)) /\ DOMAIN By(doc, user) = 1 .. Len(doc)
  BY <1>1, <1>2 DEF Attributed
<1>4. Text(By(doc, user)) = doc
  <2>1. Text(By(doc, user)) = [i \in 1 .. Len(doc) |-> doc[i]]
    BY <1>2 DEF Text
  <2>2. doc = [i \in 1 .. Len(doc) |-> doc[i]]
    BY <1>1
  <2>3. QED
    BY <2>1, <2>2
<1>5. ASSUME NEW e \in Lines(By(doc, user)) PROVE e.by = user /\ e.line \in Lines(doc)
  <2>1. PICK i \in 1 .. Len(doc) : e = [line |-> doc[i], by |-> user]
    BY <1>2, <1>3, <1>5 DEF Lines
  <2>2. QED
    BY <1>1, <2>1 DEF Lines
<1>6. ASSUME NEW x \in Lines(doc) PROVE \E e \in Lines(By(doc, user)) : e.line = x
  <2>1. PICK i \in 1 .. Len(doc) : x = doc[i]
    BY <1>1, <1>6 DEF Lines
  <2>2. By(doc, user)[i] \in Lines(By(doc, user))
    BY <1>3, InLines
  <2>3. By(doc, user)[i].line = x
    BY <1>2, <2>1
  <2>4. QED
    BY <2>2, <2>3
<1>7. QED
  BY <1>3, <1>4, <1>5, <1>6 DEF Attributes

\* The text of a merged document has its lines.
LEMMA TextLines ==
    ASSUME NEW L, NEW m \in Seq(Attributed(L))
    PROVE  /\ Text(m) \in Seq(L) /\ Len(Text(m)) = Len(m)
           /\ \A x : x \in Lines(Text(m)) <=> \E e \in Lines(m) : e.line = x
<1>1. Len(m) \in Nat /\ DOMAIN m = 1 .. Len(m) /\ \A i \in 1 .. Len(m) : m[i] \in Attributed(L)
  OBVIOUS
<1>2. Text(m) = [i \in 1 .. Len(m) |-> m[i].line]
  BY <1>1 DEF Text
<1>3. \A i \in 1 .. Len(m) : m[i].line \in L
  BY <1>1 DEF Attributed
<1>4. Text(m) \in Seq(L) /\ Len(Text(m)) = Len(m) /\ DOMAIN Text(m) = 1 .. Len(m)
  BY <1>1, <1>2, <1>3
<1>5. \A x : x \in Lines(Text(m)) <=> \E i \in 1 .. Len(m) : m[i].line = x
  BY <1>2, <1>4 DEF Lines
<1>6. \A e : e \in Lines(m) <=> \E i \in 1 .. Len(m) : m[i] = e
  BY <1>1 DEF Lines
<1>7. QED
  BY <1>4, <1>5, <1>6

\* The hunks of one side, and a cluster of a base of n lines.
OneSide(hunks, L, n, other) ==
    /\ hunks \subseteq Hunk(L, n, other)
    /\ \A h, k \in hunks : h = k \/ h.end < k.start \/ k.end < h.start

\* computeHunks returns the hunks of one side.
LEMMA HunksOneSide ==
    ASSUME NEW L, NEW base \in Seq(L), NEW other \in Seq(L)
    PROVE  OneSide(computeHunks(base, other), L, Len(base), other)
BY HunkType, HunksApart DEF OneSide

\* A replacement is made of the lines of the hunks in the cluster.
LEMMA ReplacementLines ==
    ASSUME NEW L, NEW n \in Nat, NEW other, NEW hunks, OneSide(hunks, L, n, other),
           NEW c, c.start \in 1 .. n + 1, c.end \in c.start .. n + 1
    PROVE  /\ Replacement(hunks, c) \in Seq(L)
           /\ \A x : x \in Lines(Replacement(hunks, c))
                     <=> \E h \in Members(hunks, c) : x \in Lines(h.content)
<1> DEFINE M == Members(hunks, c)
           part(p) == IF \E h \in M : h.start = p THEN (CHOOSE h \in M : h.start = p).content
                      ELSE <<>>
           parts == [p \in 1 .. c.end |-> part(p)]
<1>1. \A h \in M : /\ h \in hunks /\ h.start \in 1 .. n + 1 /\ h.end \in 1 .. n + 1
                   /\ h.start <= h.end /\ h.content \in Seq(L) /\ h.start \in 1 .. c.end
  <2> SUFFICES ASSUME NEW h \in M
               PROVE  /\ h \in hunks /\ h.start \in 1 .. n + 1 /\ h.end \in 1 .. n + 1
                      /\ h.start <= h.end /\ h.content \in Seq(L) /\ h.start \in 1 .. c.end
    OBVIOUS
  <2>1. h \in hunks /\ Inside(h, c)
    BY DEF Members
  <2>2. h \in Hunk(L, n, other)
    BY <2>1 DEF OneSide
  <2>3. h.start \in 1 .. c.end
    BY <2>1, <2>2 DEF Inside, Hunk
  <2>4. QED
    BY <2>1, <2>2, <2>3 DEF Hunk
<1>2. \A h, k \in M : h.start = k.start => h = k
  BY <1>1 DEF OneSide
<1>3. \A h \in M : part(h.start) = h.content
  <2> SUFFICES ASSUME NEW h \in M PROVE part(h.start) = h.content
    OBVIOUS
  <2> HIDE DEF M
  <2>1. (CHOOSE k \in M : k.start = h.start) \in M
        /\ (CHOOSE k \in M : k.start = h.start).start = h.start
    OBVIOUS
  <2>2. (CHOOSE k \in M : k.start = h.start) = h
    BY <1>2, <2>1
  <2>3. QED
    BY <2>2
<1>4. \A p : (\E h \in M : h.start = p /\ part(p) = h.content) \/ part(p) = <<>>
  <2> SUFFICES ASSUME NEW p PROVE (\E h \in M : h.start = p /\ part(p) = h.content) \/ part(p) = <<>>
    OBVIOUS
  <2>1. CASE \E h \in M : h.start = p
    <3>1. PICK h \in M : h.start = p
      BY <2>1
    <3>2. part(h.start) = h.content
      BY <1>3
    <3> HIDE DEF part, M
    <3>3. QED
      BY <3>1, <3>2
  <2>2. CASE ~ \E h \in M : h.start = p
    BY <2>2
  <2>3. QED
    BY <2>1, <2>2
<1>5. Replacement(hunks, c) = FlattenSeq(parts)
  BY DEF Replacement
<1> HIDE DEF part, M
<1>6. <<>> \in Seq(L) /\ Lines(<<>>) = {}
  BY DEF Lines
<1>7. \A p \in 1 .. c.end : part(p) \in Seq(L)
  BY <1>1, <1>4, <1>6
<1>8. parts \in Seq(Seq(L)) /\ parts # <<>> /\ Len(parts) = c.end /\ \A p \in 1 .. c.end : parts[p] = part(p)
  BY <1>7
<1> HIDE DEF parts
<1>9. /\ FlattenSeq(parts) \in Seq(L)
      /\ \A x : x \in Lines(FlattenSeq(parts)) <=> \E p \in 1 .. c.end : x \in Lines(part(p))
  BY <1>8, FlattenLines
<1>10. \A x : (\E p \in 1 .. c.end : x \in Lines(part(p))) <=> \E h \in M : x \in Lines(h.content)
  BY <1>1, <1>3, <1>4, <1>6
<1>11. QED
  BY <1>5, <1>9, <1>10 DEF M

\* Some side has a hunk in the cluster.
Occupied(a, b, c) == Members(a, c) # {} \/ Members(b, c) # {}

\* Clusters lie within the base and start at different places; they cover the
\* hunks, and no base line besides.
LEMMA ClusterShape ==
    ASSUME NEW n \in Nat, NEW a, NEW b, Within(a \cup b, n), NEW C, C = Clusters(a, b, n)
    PROVE  /\ \A c \in C : c.start \in 1 .. n + 1 /\ c.end \in c.start .. n + 1
           /\ \A c, d \in C : c.start = d.start => c = d
           /\ \A h \in a \cup b : \E c \in C : Inside(h, c) /\ c.start <= h.start /\ h.end <= c.end
           /\ \A c \in C, p \in 1 .. n : c.start <= p /\ p < c.end =>
                 \E h \in a \cup b : h.start <= p /\ p < h.end
           /\ \A c \in C : Occupied(a, b, c)
<1> DEFINE end(s) == ClusterEnd(a, b, n, s)
           Reaches(s, f) == \A h \in a \cup b :
                               h.start = s \/ h.start \in s .. f - 1 => h.end <= f
<1>1. \A s \in 1 .. n + 1 : /\ end(s) \in s .. n + 1 /\ Reaches(s, end(s))
                            /\ \A f \in s .. n + 1 : Reaches(s, f) => end(s) <= f
  BY ClusterEnds
<1>2. Clustering(C, a, b, n, 1)
  BY Clustered
<1> HIDE DEF end
<1>3. \A c \in C : c.start \in 1 .. n + 1 /\ c.end = end(c.start) /\ c.end \in c.start .. n + 1
  <2>1. \A c \in C : c.start \in 1 .. n + 1 /\ c.end = end(c.start)
    BY <1>2 DEF Clustering, ClusterAt, end
  <2>2. QED
    BY <1>1, <2>1
<1>4. \A c, d \in C : c.start = d.start => c = d
  BY <1>2, <1>3 DEF Clustering
<1>5. ASSUME NEW h \in a \cup b
      PROVE  \E c \in C : Inside(h, c) /\ c.start <= h.start /\ h.end <= c.end
  <2>1. PICK c \in C : Inside(h, c)
    BY <1>2 DEF Clustering, Within
  <2>2. h.start = c.start \/ h.start \in c.start .. end(c.start) - 1
    BY <1>3, <2>1 DEF Inside
  <2>3. h.end <= end(c.start)
    BY <1>1, <1>3, <2>2
  <2>4. c.start <= h.start
    BY <1>3, <2>2
  <2>5. QED
    BY <1>3, <2>1, <2>3, <2>4
<1>6. ASSUME NEW c \in C, NEW p \in 1 .. n, c.start <= p, p < c.end
      PROVE  \E h \in a \cup b : h.start <= p /\ p < h.end
  <2> SUFFICES ASSUME \A h \in a \cup b : ~(h.start <= p /\ p < h.end) PROVE FALSE
    OBVIOUS
  <2>1. c.start \in 1 .. n + 1 /\ p \in c.start .. n + 1
    BY <1>3, <1>6
  <2>2. Reaches(c.start, p)
    <3> SUFFICES ASSUME NEW h \in a \cup b, h.start = c.start \/ h.start \in c.start .. p - 1
                 PROVE  h.end <= p
      OBVIOUS
    <3>1. h.start \in 1 .. n + 1 /\ h.end \in 1 .. n + 1
      BY DEF Within
    <3>2. h.start <= p
      BY <2>1
    <3>3. QED
      BY <3>1, <3>2
  <2> HIDE DEF Reaches
  <2>3. end(c.start) <= p
    BY <1>1, <2>1, <2>2
  <2>4. QED
    BY <1>3, <1>6, <2>3
<1>7. ASSUME NEW c \in C PROVE Occupied(a, b, c)
  <2>1. PICK h \in a \cup b : h.start = c.start
    BY <1>2 DEF Clustering
  <2>2. Inside(h, c)
    BY <2>1 DEF Inside
  <2>3. QED
    BY <2>2 DEF Members, Occupied
<1>8. QED
  BY <1>3, <1>4, <1>5, <1>6, <1>7

\* The hunks of both sides lie within the base.
LEMMA SidesWithin ==
    ASSUME NEW L, NEW n \in Nat, NEW a, NEW b, NEW userA, NEW userB,
           OneSide(a, L, n, userA), OneSide(b, L, n, userB)
    PROVE  Within(a \cup b, n)
BY DEF OneSide, Hunk, Within

\* An attribution says whose version has the line.
TrulyBy(e, userA, userB) ==
    /\ e.by # "b" => e.line \in Lines(userA)
    /\ e.by # "a" => e.line \in Lines(userB)

\* The lines of every hunk of a cluster are there.
HasHunks(piece, a, b, c) ==
    \A h \in Members(a, c) \cup Members(b, c) : \A x \in Lines(h.content) :
       \E e \in Lines(piece) : e.line = x

\* What a cluster without a conflict becomes, and whom it is attributed to.
LEMMA ResolvedLines ==
    ASSUME NEW L, NEW n \in Nat, NEW a, NEW b, NEW userA, NEW userB,
           OneSide(a, L, n, userA), OneSide(b, L, n, userB),
           NEW c, c.start \in 1 .. n + 1, c.end \in c.start .. n + 1,
           ~Clashes(a, b, c), Occupied(a, b, c)
    PROVE  /\ Resolved(a, b, c) \in Seq(Attributed(L))
           /\ Text(Resolved(a, b, c)) =
                 IF Members(b, c) = {} THEN Replacement(a, c) ELSE Replacement(b, c)
           /\ Members(a, c) = {} \/ Members(b, c) = {} \/ Replacement(a, c) = Replacement(b, c)
           /\ \A e \in Lines(Resolved(a, b, c)) : TrulyBy(e, userA, userB)
           /\ HasHunks(Resolved(a, b, c), a, b, c)
<1> DEFINE ra == Replacement(a, c)
           rb == Replacement(b, c)
<1>1. /\ ra \in Seq(L) /\ \A x : x \in Lines(ra) <=> \E h \in Members(a, c) : x \in Lines(h.content)
      /\ rb \in Seq(L) /\ \A x : x \in Lines(rb) <=> \E h \in Members(b, c) : x \in Lines(h.content)
  BY ReplacementLines
<1>2. Lines(ra) \subseteq Lines(userA) /\ Lines(rb) \subseteq Lines(userB)
  <2>1. \A h \in Members(a, c) : Lines(h.content) \subseteq Lines(userA)
    BY DEF Members, OneSide, Hunk
  <2>2. \A h \in Members(b, c) : Lines(h.content) \subseteq Lines(userB)
    BY DEF Members, OneSide, Hunk
  <2>3. QED
    BY <1>1, <2>1, <2>2
<1>3. Members(a, c) = {} \/ Members(b, c) = {} \/ ra = rb
  BY DEF Clashes
<1>4. CASE Members(b, c) = {}
  <2>1. Resolved(a, b, c) = By(ra, "a")
    BY <1>4 DEF Resolved
  <2> HIDE DEF ra, rb, Attributes
  <2>2. Attributes(By(ra, "a"), L, ra, "a")
    <3>1. ra \in Seq(L) /\ "a" \in {"a", "b", "none"}
      BY <1>1
    <3>2. QED
      BY ONLY <3>1, ByLines, Zenon
  <2>3. \A e \in Lines(By(ra, "a")) : TrulyBy(e, userA, userB)
    BY <1>2, <2>2 DEF TrulyBy, Attributes
  <2>4. QED
    BY <1>1, <1>3, <1>4, <2>1, <2>2, <2>3 DEF ra, rb, Attributes, HasHunks, Occupied
<1>5. CASE Members(b, c) # {} /\ Members(a, c) = {}
  <2>1. Resolved(a, b, c) = By(rb, "b")
    BY <1>5 DEF Resolved
  <2> HIDE DEF ra, rb, Attributes
  <2>2. Attributes(By(rb, "b"), L, rb, "b")
    <3>1. rb \in Seq(L) /\ "b" \in {"a", "b", "none"}
      BY <1>1
    <3>2. QED
      BY ONLY <3>1, ByLines, Zenon
  <2>3. \A e \in Lines(By(rb, "b")) : TrulyBy(e, userA, userB)
    BY <1>2, <2>2 DEF TrulyBy, Attributes
  <2>4. QED
    BY <1>1, <1>3, <1>5, <2>1, <2>2, <2>3 DEF ra, rb, Attributes, HasHunks, Occupied
<1>6. CASE Members(b, c) # {} /\ Members(a, c) # {}
  <2>1. Resolved(a, b, c) = By(rb, "none")
    BY <1>6 DEF Resolved
  <2>2. ra = rb
    BY <1>3, <1>6
  <2> HIDE DEF ra, rb, Attributes
  <2>3. Attributes(By(rb, "none"), L, rb, "none")
    <3>1. rb \in Seq(L) /\ "none" \in {"a", "b", "none"}
      BY <1>1
    <3>2. QED
      BY ONLY <3>1, ByLines, Zenon
  <2>4. \A e \in Lines(By(rb, "none")) : TrulyBy(e, userA, userB)
    BY <1>2, <2>2, <2>3 DEF TrulyBy, Attributes
  <2>5. QED
    BY <1>1, <1>3, <1>6, <2>1, <2>2, <2>3, <2>4 DEF ra, rb, Attributes, HasHunks, Occupied
<1>7. QED
  BY <1>4, <1>5, <1>6

(***************************************************************************)
(* The merged text.                                                        *)
(***************************************************************************)
Pieces(base, a, b, C) == [p \in 1 .. Len(base) + 1 |-> Piece(base, a, b, C, p)]

\* Two versions of a base, their hunks and clusters, none of which clashes.
Merges(L, base, userA, userB, a, b, C) ==
    /\ base \in Seq(L) /\ userA \in Seq(L) /\ userB \in Seq(L)
    /\ a = computeHunks(base, userA) /\ b = computeHunks(base, userB)
    /\ C = Clusters(a, b, Len(base))
    /\ \A c \in C : ~Clashes(a, b, c)

\* A merge that does not conflict is made of the pieces.
LEMMA MergeIs ==
    ASSUME NEW L, NEW base \in Seq(L), NEW userA \in Seq(L), NEW userB \in Seq(L),
           mergeArtefactEdits(base, userA, userB) # MERGE_CONFLICT_HARD
    PROVE  \E a, b, C : /\ Merges(L, base, userA, userB, a, b, C)
                        /\ mergeArtefactEdits(base, userA, userB) = FlattenSeq(Pieces(base, a, b, C))
<1> DEFINE a == computeHunks(base, userA)
           b == computeHunks(base, userB)
           C == Clusters(a, b, Len(base))
<1>1. mergeArtefactEdits(base, userA, userB) =
         IF \E c \in C : Clashes(a, b, c) THEN MERGE_CONFLICT_HARD
         ELSE FlattenSeq(Pieces(base, a, b, C))
  BY DEF mergeArtefactEdits, Pieces
<1>2. Merges(L, base, userA, userB, a, b, C)
  BY <1>1 DEF Merges
<1>3. mergeArtefactEdits(base, userA, userB) = FlattenSeq(Pieces(base, a, b, C))
  BY <1>1
<1>4. QED
  BY <1>2, <1>3

\* What is known of the clusters of a merge.
LEMMA MergeClusters ==
    ASSUME NEW L, NEW base, NEW userA, NEW userB, NEW a, NEW b, NEW C,
           Merges(L, base, userA, userB, a, b, C)
    PROVE  /\ Len(base) \in Nat
           /\ OneSide(a, L, Len(base), userA) /\ OneSide(b, L, Len(base), userB)
           /\ Within(a \cup b, Len(base))
           /\ \A c \in C : c.start \in 1 .. Len(base) + 1 /\ c.end \in c.start .. Len(base) + 1
           /\ \A c, d \in C : c.start = d.start => c = d
           /\ \A h \in a \cup b : \E c \in C : Inside(h, c) /\ c.start <= h.start /\ h.end <= c.end
           /\ \A c \in C, p \in 1 .. Len(base) : c.start <= p /\ p < c.end =>
                 \E h \in a \cup b : h.start <= p /\ p < h.end
           /\ \A c \in C : Occupied(a, b, c)
<1>1. Len(base) \in Nat
  BY DEF Merges
<1>2. OneSide(a, L, Len(base), userA) /\ OneSide(b, L, Len(base), userB)
  BY HunksOneSide DEF Merges
<1>3. Within(a \cup b, Len(base))
  BY <1>1, <1>2, SidesWithin
<1>4. C = Clusters(a, b, Len(base))
  BY DEF Merges
<1>5. QED
  BY <1>1, <1>2, <1>3, <1>4, ClusterShape

\* A base line is kept when no hunk of either side replaces it; then both sides
\* have it.
LEMMA KeptLines ==
    ASSUME NEW L, NEW base, NEW userA, NEW userB, NEW a, NEW b, NEW C,
           Merges(L, base, userA, userB, a, b, C), NEW p \in 1 .. Len(base)
    PROVE  /\ Kept(base, C, p) <=> \A h \in a \cup b : ~(h.start <= p /\ p < h.end)
           /\ Kept(base, C, p) => base[p] \in Lines(userA) /\ base[p] \in Lines(userB)
<1>1. /\ Len(base) \in Nat
      /\ \A c \in C : c.start \in 1 .. Len(base) + 1 /\ c.end \in c.start .. Len(base) + 1
      /\ \A h \in a \cup b : \E c \in C : c.start <= h.start /\ h.end <= c.end
      /\ \A c \in C : c.start <= p /\ p < c.end => \E h \in a \cup b : h.start <= p /\ p < h.end
      /\ \A h \in a \cup b : h.start \in Int /\ h.end \in Int
  BY MergeClusters DEF Within
<1>2. Kept(base, C, p) <=> \A c \in C : ~(c.start <= p /\ p < c.end)
  <2>1. \A c \in C : p \in c.start .. c.end - 1 <=> c.start <= p /\ p < c.end
    BY <1>1
  <2>2. p <= Len(base)
    OBVIOUS
  <2>3. QED
    BY <2>1, <2>2 DEF Kept
<1>3. ASSUME NEW h \in a \cup b, h.start <= p, p < h.end PROVE ~Kept(base, C, p)
  <2>1. PICK c \in C : c.start <= h.start /\ h.end <= c.end
    BY <1>1
  <2>2. c.start <= p /\ p < c.end
    BY <1>1, <1>3, <2>1
  <2>3. QED
    BY <1>2, <2>2
<1>4. ASSUME NEW other \in Seq(L), base \in Seq(L),
             \A h \in computeHunks(base, other) : ~(h.start <= p /\ p < h.end)
      PROVE  base[p] \in Lines(other)
  <2>1. PICK y \in 1 .. Len(other) : <<p, y>> \in lcsMatch(base, other)
    BY <1>4, BaseCovered
  <2> DEFINE r == <<p, y>>
  <2>2. r \in lcsMatch(base, other) /\ r[1] = p /\ r[2] = y
    BY <2>1
  <2> HIDE DEF r
  <2>3. base[p] = other[y]
    BY <1>4, <2>2, Matched DEF Matching
  <2>4. QED
    BY <2>3 DEF Lines
<1>5. QED
  BY <1>1, <1>2, <1>3, <1>4 DEF Merges

\* What stands at a place: lines attributed truly, those of the hunks of a
\* cluster that starts there, and a base line that is kept.
LEMMA PieceLines ==
    ASSUME NEW L, NEW base, NEW userA, NEW userB, NEW a, NEW b, NEW C,
           Merges(L, base, userA, userB, a, b, C), NEW p \in 1 .. Len(base) + 1
    PROVE  LET piece == Piece(base, a, b, C, p)
           IN  /\ piece \in Seq(Attributed(L))
               /\ \A e \in Lines(piece) : TrulyBy(e, userA, userB)
               /\ \A c \in C : c.start = p => HasHunks(piece, a, b, c)
               /\ Kept(base, C, p) => \E e \in Lines(piece) : e.line = base[p]
<1> DEFINE here == CHOOSE c \in C : c.start = p
           new == IF \E c \in C : c.start = p THEN Resolved(a, b, here) ELSE <<>>
           old == IF Kept(base, C, p) THEN By(<<base[p]>>, "none") ELSE <<>>
<1>1. Piece(base, a, b, C, p) = new \o old
  BY DEF Piece
<1>2. \A c \in C : c.start = p => here = c
  <2> SUFFICES ASSUME NEW c \in C, c.start = p PROVE here = c
    OBVIOUS
  <2>1. here \in C /\ here.start = p
    OBVIOUS
  <2> HIDE DEF here
  <2>2. QED
    BY <2>1, MergeClusters
<1>3. <<>> \in Seq(Attributed(L)) /\ Lines(<<>>) = {}
  BY DEF Lines
<1> HIDE DEF here
<1>4. /\ new \in Seq(Attributed(L))
      /\ \A e \in Lines(new) : TrulyBy(e, userA, userB)
      /\ \A c \in C : c.start = p =>
            HasHunks(new, a, b, c)
  <2>1. CASE \E c \in C : c.start = p
    <3>1. PICK c \in C : c.start = p
      BY <2>1
    <3>2. here = c /\ new = Resolved(a, b, c) /\ \A d \in C : d.start = p => d = c
      BY <1>2, <3>1
    <3>3. ~Clashes(a, b, c)
      BY DEF Merges
    <3>4. Occupied(a, b, c)
      BY MergeClusters
    <3>5. /\ c.start \in 1 .. Len(base) + 1 /\ c.end \in c.start .. Len(base) + 1
          /\ Len(base) \in Nat
          /\ OneSide(a, L, Len(base), userA) /\ OneSide(b, L, Len(base), userB)
      BY MergeClusters
    <3>6. /\ Resolved(a, b, c) \in Seq(Attributed(L))
          /\ \A e \in Lines(Resolved(a, b, c)) : TrulyBy(e, userA, userB)
          /\ HasHunks(Resolved(a, b, c), a, b, c)
      BY <3>3, <3>4, <3>5, ResolvedLines
    <3> HIDE DEF new
    <3>7. QED
      BY <3>2, <3>6
  <2>2. CASE ~ \E c \in C : c.start = p
    BY <1>3, <2>2
  <2>3. QED
    BY <2>1, <2>2
<1>5. /\ old \in Seq(Attributed(L))
      /\ \A e \in Lines(old) : TrulyBy(e, userA, userB)
      /\ Kept(base, C, p) => \E e \in Lines(old) : e.line = base[p]
  <2>1. CASE Kept(base, C, p)
    <3>1. p \in 1 .. Len(base)
      BY <2>1, MergeClusters DEF Kept
    <3>2. base[p] \in Lines(userA) /\ base[p] \in Lines(userB)
      BY <2>1, <3>1, KeptLines
    <3>3. <<base[p]>> \in Seq(L) /\ Lines(<<base[p]>>) = {base[p]}
      BY <3>1 DEF Merges, Lines
    <3>4. Attributes(By(<<base[p]>>, "none"), L, <<base[p]>>, "none")
      <4>1. "none" \in {"a", "b", "none"}
        OBVIOUS
      <4>2. QED
        BY ONLY <3>3, <4>1, ByLines, Zenon
    <3>5. old = By(<<base[p]>>, "none")
      BY <2>1
    <3> HIDE DEF old
    <3>6. QED
      BY <3>2, <3>3, <3>4, <3>5 DEF Attributes, TrulyBy
  <2>2. CASE ~Kept(base, C, p)
    BY <1>3, <2>2
  <2>3. QED
    BY <2>1, <2>2
<1> HIDE DEF new, old
<1>6. new \o old \in Seq(Attributed(L)) /\ Lines(new \o old) = Lines(new) \cup Lines(old)
  BY <1>4, <1>5, ConcatLines
<1>7. \A c \in C : c.start = p => HasHunks(new \o old, a, b, c)
  BY <1>4, <1>6 DEF HasHunks
<1>8. QED
  BY <1>1, <1>4, <1>5, <1>6, <1>7

\* The merged text is made of the pieces.
LEMMA MergedLines ==
    ASSUME NEW L, NEW base, NEW userA, NEW userB, NEW a, NEW b, NEW C,
           Merges(L, base, userA, userB, a, b, C)
    PROVE  LET merged == FlattenSeq(Pieces(base, a, b, C))
           IN  /\ merged \in Seq(Attributed(L))
               /\ \A e : e \in Lines(merged) <=>
                     \E p \in 1 .. Len(base) + 1 : e \in Lines(Piece(base, a, b, C, p))
<1> DEFINE pieces == Pieces(base, a, b, C)
<1>1. Len(base) \in Nat
  BY MergeClusters
<1>2. \A p \in 1 .. Len(base) + 1 : Piece(base, a, b, C, p) \in Seq(Attributed(L))
  BY PieceLines
<1>3. /\ pieces \in Seq(Seq(Attributed(L))) /\ pieces # <<>> /\ Len(pieces) = Len(base) + 1
      /\ \A p \in 1 .. Len(base) + 1 : pieces[p] = Piece(base, a, b, C, p)
  BY <1>1, <1>2 DEF Pieces
<1> HIDE DEF pieces
<1>4. /\ FlattenSeq(pieces) \in Seq(Attributed(L))
      /\ \A e : e \in Lines(FlattenSeq(pieces)) <=>
            \E p \in 1 .. Len(base) + 1 : e \in Lines(pieces[p])
  BY <1>3, FlattenLines
<1>5. QED
  BY <1>3, <1>4 DEF pieces

\* The merge attributes its lines truly.
LEMMA MergeAttributesTruly ==
    ASSUME NEW L, NEW base \in Seq(L), NEW userA \in Seq(L), NEW userB \in Seq(L),
           mergeArtefactEdits(base, userA, userB) # MERGE_CONFLICT_HARD
    PROVE  \A i \in DOMAIN mergeArtefactEdits(base, userA, userB) :
              TrulyBy(mergeArtefactEdits(base, userA, userB)[i], userA, userB)
<1> DEFINE merged == mergeArtefactEdits(base, userA, userB)
<1>1. PICK a, b, C : /\ Merges(L, base, userA, userB, a, b, C)
                     /\ merged = FlattenSeq(Pieces(base, a, b, C))
  BY MergeIs
<1> HIDE DEF merged
<1>2. \A e \in Lines(merged) : TrulyBy(e, userA, userB)
  BY <1>1, MergedLines, PieceLines
<1>3. QED
  BY <1>2 DEF Lines, merged

(***************************************************************************)
(* What the merged text has.                                               *)
(***************************************************************************)
\* A sequence with as many lines as places repeats none.
LEMMA NoneRepeated ==
    ASSUME NEW L, NEW doc \in Seq(L), Cardinality(Lines(doc)) = Len(doc)
    PROVE  \A p, q \in 1 .. Len(doc) : doc[p] = doc[q] => p = q
<1> DEFINE D == 1 .. Len(doc)
<1>1. /\ Len(doc) \in Nat /\ doc \in [D -> L] /\ DOMAIN doc = D
      /\ Lines(doc) = {doc[i] : i \in D}
  BY DEF Lines
<1>2. doc \in Surjection(D, Lines(doc))
  <2>1. doc \in [D -> Lines(doc)]
    BY <1>1
  <2>2. \A x \in Lines(doc) : \E i \in D : doc[i] = x
    BY <1>1
  <2>3. QED
    BY <2>1, <2>2 DEF Surjection
<1>3. IsFiniteSet(D) /\ Cardinality(D) = Len(doc)
  <2>0. Len(doc) \in Nat
    OBVIOUS
  <2>1. /\ IsFiniteSet(D)
        /\ Cardinality(D) = IF 1 > Len(doc) THEN 0 ELSE Len(doc) - 1 + 1
    <3>1. 1 \in Int /\ Len(doc) \in Int
      BY <2>0
    <3>2. QED
      BY <3>1, FS_Interval
  <2>2. QED
    BY <2>0, <2>1
<1> HIDE DEF D
<1>4. doc \in Injection(D, Lines(doc))
  BY <1>2, <1>3, FS_Surjection
<1>5. \A p, q \in D : doc[p] = doc[q] => p = q
  BY <1>4 DEF Injection, IsInjective
<1>6. QED
  BY <1>5 DEF D

MergedText(base, a, b, C) == Text(FlattenSeq(Pieces(base, a, b, C)))

\* A piece's lines are in the merged text.
LEMMA MergedTextLines ==
    ASSUME NEW L, NEW base, NEW userA, NEW userB, NEW a, NEW b, NEW C,
           Merges(L, base, userA, userB, a, b, C),
           NEW p \in 1 .. Len(base) + 1, NEW e \in Lines(Piece(base, a, b, C, p))
    PROVE  e.line \in Lines(MergedText(base, a, b, C))
<1> DEFINE merged == FlattenSeq(Pieces(base, a, b, C))
<1>1. /\ merged \in Seq(Attributed(L))
      /\ e \in Lines(merged)
  BY MergedLines
<1> HIDE DEF merged
<1>2. e.line \in Lines(Text(merged))
  BY <1>1, TextLines
<1>3. QED
  BY <1>2 DEF merged, MergedText

\* What either side put in is in the merged text.
LEMMA HunksSurvive ==
    ASSUME NEW L, NEW base, NEW userA, NEW userB, NEW a, NEW b, NEW C,
           Merges(L, base, userA, userB, a, b, C), NEW h \in a \cup b
    PROVE  Lines(h.content) \subseteq Lines(MergedText(base, a, b, C))
<1>0. \A k \in a \cup b : \E c \in C : Inside(k, c) /\ c.start <= k.start /\ k.end <= c.end
  BY MergeClusters DEF Within
<1>1. PICK c \in C : Inside(h, c)
  BY <1>0
<1>2. h \in Members(a, c) \cup Members(b, c)
  BY <1>1 DEF Members
<1>3. c.start \in 1 .. Len(base) + 1
  BY MergeClusters
<1>4. HasHunks(Piece(base, a, b, C, c.start), a, b, c)
  BY <1>3, PieceLines
<1>5. \A x \in Lines(h.content) : \E e \in Lines(Piece(base, a, b, C, c.start)) : e.line = x
  BY <1>2, <1>4 DEF HasHunks
<1>6. \A e \in Lines(Piece(base, a, b, C, c.start)) : e.line \in Lines(MergedText(base, a, b, C))
  BY <1>3, MergedTextLines
<1>7. QED
  BY <1>5, <1>6

\* A base line that neither side changed is in the merged text.
LEMMA KeptSurvives ==
    ASSUME NEW L, NEW base, NEW userA, NEW userB, NEW a, NEW b, NEW C,
           Merges(L, base, userA, userB, a, b, C), NEW p \in 1 .. Len(base),
           \A h \in a \cup b : ~(h.start <= p /\ p < h.end)
    PROVE  base[p] \in Lines(MergedText(base, a, b, C))
<1>1. Kept(base, C, p)
  BY KeptLines
<1>2. p \in 1 .. Len(base) + 1
  BY MergeClusters
<1>3. PICK e \in Lines(Piece(base, a, b, C, p)) : e.line = base[p]
  BY <1>1, <1>2, PieceLines
<1>4. e.line \in Lines(MergedText(base, a, b, C))
  BY <1>2, MergedTextLines
<1>5. QED
  BY <1>3, <1>4

\* A line of a version that is not matched with the base is in the merged text.
LEMMA UnmatchedSurvives ==
    ASSUME NEW L, NEW base, NEW userA, NEW userB, NEW a, NEW b, NEW C,
           Merges(L, base, userA, userB, a, b, C), NEW other \in {userA, userB},
           NEW y \in 1 .. Len(other)
    PROVE  \/ other[y] \in Lines(MergedText(base, a, b, C))
           \/ \E x \in 1 .. Len(base) :
                 <<x, y>> \in lcsMatch(base, other) /\ base[x] = other[y]
<1>1. base \in Seq(L) /\ other \in Seq(L) /\ computeHunks(base, other) \subseteq a \cup b
  BY DEF Merges
<1>2. CASE \E x \in 1 .. Len(base) : <<x, y>> \in lcsMatch(base, other)
  <2>1. PICK x \in 1 .. Len(base) : <<x, y>> \in lcsMatch(base, other)
    BY <1>2
  <2> DEFINE r == <<x, y>>
  <2>2. r \in lcsMatch(base, other) /\ r[1] = x /\ r[2] = y
    BY <2>1
  <2> HIDE DEF r
  <2>3. base[x] = other[y]
    BY <1>1, <2>2, Matched DEF Matching
  <2>4. QED
    BY <2>1, <2>3
<1>3. CASE \E h \in computeHunks(base, other) : other[y] \in Lines(h.content)
  BY <1>1, <1>3, HunksSurvive
<1>4. QED
  BY <1>1, <1>2, <1>3, OtherCovered

\* What is in a version and not in the base is in the merged text.
LEMMA AddedSurvive ==
    ASSUME NEW L, NEW base, NEW userA, NEW userB, NEW a, NEW b, NEW C,
           Merges(L, base, userA, userB, a, b, C)
    PROVE  (Lines(userA) \cup Lines(userB)) \ Lines(base) \subseteq Lines(MergedText(base, a, b, C))
<1> SUFFICES ASSUME NEW other \in {userA, userB}, NEW z \in Lines(other), z \notin Lines(base)
             PROVE  z \in Lines(MergedText(base, a, b, C))
  OBVIOUS
<1>1. other \in Seq(L) /\ base \in Seq(L)
  BY DEF Merges
<1>2. PICK y \in 1 .. Len(other) : other[y] = z
  BY <1>1 DEF Lines
<1>3. \A x \in 1 .. Len(base) : base[x] # z
  BY <1>1 DEF Lines
<1>4. \/ other[y] \in Lines(MergedText(base, a, b, C))
      \/ \E x \in 1 .. Len(base) : <<x, y>> \in lcsMatch(base, other) /\ base[x] = other[y]
  BY UnmatchedSurvives
<1>5. QED
  BY <1>2, <1>3, <1>4

\* Of a base that repeats no line, what both versions have is in the merged text.
LEMMA CommonSurvive ==
    ASSUME NEW L, NEW base, NEW userA, NEW userB, NEW a, NEW b, NEW C,
           Merges(L, base, userA, userB, a, b, C), Cardinality(Lines(base)) = Len(base)
    PROVE  Lines(userA) \cap Lines(userB) \subseteq Lines(MergedText(base, a, b, C))
<1> SUFFICES ASSUME NEW z \in Lines(userA) \cap Lines(userB),
                    z \notin Lines(MergedText(base, a, b, C))
             PROVE  FALSE
  OBVIOUS
<1>1. base \in Seq(L) /\ userA \in Seq(L) /\ userB \in Seq(L)
  BY DEF Merges
<1>2. PICK y \in 1 .. Len(userA) : userA[y] = z
  BY <1>1 DEF Lines
<1>3. PICK w \in 1 .. Len(userB) : userB[w] = z
  BY <1>1 DEF Lines
<1>4. PICK p \in 1 .. Len(base) : <<p, y>> \in lcsMatch(base, userA) /\ base[p] = z
  BY <1>2, UnmatchedSurvives
<1>5. PICK q \in 1 .. Len(base) : <<q, w>> \in lcsMatch(base, userB) /\ base[q] = z
  BY <1>3, UnmatchedSurvives
<1>6. p = q
  BY <1>1, <1>4, <1>5, NoneRepeated
<1>7. \A h \in computeHunks(base, userA) : ~(h.start <= p /\ p < h.end)
  BY <1>1, <1>4, BaseCovered
<1>8. \A h \in computeHunks(base, userB) : ~(h.start <= p /\ p < h.end)
  BY <1>1, <1>5, <1>6, BaseCovered
<1>9. \A h \in a \cup b : ~(h.start <= p /\ p < h.end)
  BY <1>7, <1>8 DEF Merges
<1>10. QED
  BY <1>4, <1>9, KeptSurvives

(***************************************************************************)
(* Texts of concatenations.                                                *)
(***************************************************************************)
\* Induction up to a bound.
LEMMA InductUpTo ==
    ASSUME NEW n \in Nat, NEW S, 1 \in S, \A i \in 2 .. n : i - 1 \in S => i \in S
    PROVE  1 .. n \subseteq S
<1> SUFFICES ASSUME NEW k \in 1 .. n, k \notin S PROVE FALSE
  OBVIOUS
<1> DEFINE T == (1 .. n) \ S
<1>1. T \subseteq Nat /\ T # {}
  OBVIOUS
<1> HIDE DEF T
<1>2. PICK m \in T : \A i \in T : m <= i
  BY <1>1, Least
<1>3. m \in 2 .. n /\ m \notin S
  BY DEF T
<1>4. m - 1 \in 1 .. n /\ ~(m <= m - 1)
  BY <1>3
<1>5. m - 1 \in S
  BY <1>2, <1>4 DEF T
<1>6. QED
  BY <1>3, <1>5

\* The text of a concatenation.
LEMMA TextConcat ==
    ASSUME NEW L, NEW m \in Seq(Attributed(L)), NEW k \in Seq(Attributed(L))
    PROVE  /\ m \o k \in Seq(Attributed(L))
           /\ Text(m \o k) = Text(m) \o Text(k)
<1>1. /\ m \o k \in Seq(Attributed(L)) /\ Len(m \o k) = Len(m) + Len(k)
      /\ \A i \in 1 .. Len(m) + Len(k) :
            (m \o k)[i] = IF i <= Len(m) THEN m[i] ELSE k[i - Len(m)]
  BY ConcatProperties
<1>2. \A q \in {m, k, m \o k} : Text(q) \in Seq(L) /\ Len(Text(q)) = Len(q)
  BY <1>1, TextLines
<1>3. Text(m) \in Seq(L) /\ Text(k) \in Seq(L) /\ Text(m \o k) \in Seq(L)
  BY <1>2
<1>4. /\ Text(m) \o Text(k) \in Seq(L) /\ Len(Text(m) \o Text(k)) = Len(Text(m)) + Len(Text(k))
      /\ \A i \in 1 .. Len(Text(m)) + Len(Text(k)) :
            (Text(m) \o Text(k))[i] = IF i <= Len(Text(m)) THEN Text(m)[i] ELSE Text(k)[i - Len(Text(m))]
  BY <1>3, ConcatProperties
<1>5. Len(m) \in Nat /\ Len(k) \in Nat
  OBVIOUS
<1>6. /\ Len(Text(m)) = Len(m) /\ Len(Text(k)) = Len(k)
      /\ Len(Text(m \o k)) = Len(m) + Len(k)
  BY <1>1, <1>2
<1>7. \A q \in Seq(Attributed(L)) : \A i \in 1 .. Len(q) : Text(q)[i] = q[i].line
  BY DEF Text
<1>8. ASSUME NEW i \in 1 .. Len(m) + Len(k)
      PROVE  Text(m \o k)[i] = (Text(m) \o Text(k))[i]
  <2>1. Text(m \o k)[i] = (m \o k)[i].line
    BY <1>1, <1>7
  <2>2. CASE i <= Len(m)
    <3>1. i \in 1 .. Len(m)
      BY <1>5, <2>2
    <3>2. Text(m)[i] = m[i].line
      BY <1>7, <3>1
    <3>3. QED
      BY <1>1, <1>4, <1>6, <2>1, <2>2, <3>2
  <2>3. CASE ~(i <= Len(m))
    <3>1. i - Len(m) \in 1 .. Len(k)
      BY <1>5, <2>3
    <3>2. Text(k)[i - Len(m)] = k[i - Len(m)].line
      BY <1>7, <3>1
    <3>3. QED
      BY <1>1, <1>4, <1>6, <2>1, <2>3, <3>2
  <2>4. QED
    BY <2>2, <2>3
<1>9. Text(m \o k) = Text(m) \o Text(k)
  BY <1>3, <1>4, <1>6, <1>8, SeqEqual
<1>10. QED
  BY <1>1, <1>9

\* The text of a concatenation grows by the text of each part.
LEMMA TextSteps ==
    ASSUME NEW L, NEW seqs \in Seq(Seq(Attributed(L))), seqs # <<>>
    PROVE  \E f : /\ f[1] = Text(seqs[1])
                  /\ \A i \in 2 .. Len(seqs) : f[i] = f[i - 1] \o Text(seqs[i])
                  /\ Text(FlattenSeq(seqs)) = f[Len(seqs)]
<1> DEFINE n == Len(seqs)
           A == Attributed(L)
<1>1. PICK g : /\ g[1] = seqs[1]
               /\ \A i \in 2 .. n : g[i] = g[i - 1] \o seqs[i]
               /\ FlattenSeq(seqs) = g[n]
  BY FlattenSteps
<1>2. n \in Nat \ {0} /\ \A i \in 1 .. n : seqs[i] \in Seq(A)
  BY EmptySeq
<1> DEFINE S == {i \in 1 .. n : g[i] \in Seq(A)}
<1>3. 1 .. n \subseteq S
  <2>1. 1 \in S
    BY <1>1, <1>2
  <2>2. ASSUME NEW i \in 2 .. n, i - 1 \in S PROVE i \in S
    <3>1. g[i - 1] \in Seq(A) /\ seqs[i] \in Seq(A) /\ i \in 1 .. n
      BY <1>2, <2>2
    <3>2. g[i - 1] \o seqs[i] \in Seq(A)
      BY <3>1, ConcatProperties
    <3>3. QED
      BY <1>1, <3>1, <3>2
  <2> HIDE DEF S
  <2>3. QED
    BY <1>2, <2>1, <2>2, InductUpTo
<1> DEFINE f == [i \in 1 .. n |-> Text(g[i])]
<1>4. f[1] = Text(seqs[1])
  BY <1>1, <1>2
<1>5. ASSUME NEW i \in 2 .. n PROVE f[i] = f[i - 1] \o Text(seqs[i])
  <2>1. i \in 1 .. n /\ i - 1 \in 1 .. n
    BY <1>2
  <2>2. g[i - 1] \in Seq(A) /\ seqs[i] \in Seq(A)
    BY <1>2, <1>3, <2>1
  <2>3. Text(g[i - 1] \o seqs[i]) = Text(g[i - 1]) \o Text(seqs[i])
    BY <2>2, TextConcat
  <2>4. g[i] = g[i - 1] \o seqs[i]
    BY <1>1
  <2>5. f[i] = Text(g[i]) /\ f[i - 1] = Text(g[i - 1])
    BY <2>1
  <2> HIDE DEF f
  <2>6. QED
    BY <2>3, <2>4, <2>5
<1>6. Text(FlattenSeq(seqs)) = f[n]
  BY <1>1, <1>2
<1> HIDE DEF f
<1>7. QED
  BY <1>4, <1>5, <1>6

\* Concatenations of parts with the same texts have the same text.
LEMMA SameTexts ==
    ASSUME NEW L, NEW s \in Seq(Seq(Attributed(L))), NEW t \in Seq(Seq(Attributed(L))),
           s # <<>>, t # <<>>, Len(s) = Len(t),
           \A i \in 1 .. Len(s) : Text(s[i]) = Text(t[i])
    PROVE  Text(FlattenSeq(s)) = Text(FlattenSeq(t))
<1> DEFINE n == Len(s)
<1>1. PICK f : /\ f[1] = Text(s[1])
               /\ \A i \in 2 .. n : f[i] = f[i - 1] \o Text(s[i])
               /\ Text(FlattenSeq(s)) = f[n]
  BY TextSteps
<1>2. PICK g : /\ g[1] = Text(t[1])
               /\ \A i \in 2 .. n : g[i] = g[i - 1] \o Text(t[i])
               /\ Text(FlattenSeq(t)) = g[n]
  BY TextSteps
<1>3. n \in Nat \ {0}
  BY EmptySeq
<1> DEFINE S == {i \in 1 .. n : f[i] = g[i]}
<1>4. 1 \in S
  BY <1>1, <1>2, <1>3
<1>5. ASSUME NEW i \in 2 .. n, i - 1 \in S PROVE i \in S
  <2>1. i \in 1 .. n
    BY <1>3
  <2>2. QED
    BY <1>1, <1>2, <1>5, <2>1
<1> HIDE DEF S
<1>6. 1 .. n \subseteq S
  BY <1>3, <1>4, <1>5, InductUpTo
<1>7. f[n] = g[n]
  <2>1. n \in 1 .. n
    BY <1>3
  <2>2. n \in S
    BY ONLY <1>6, <2>1
  <2>3. QED
    BY <2>2 DEF S
<1>8. QED
  BY <1>1, <1>2, <1>7

(***************************************************************************)
(* Swapping the sides.                                                     *)
(***************************************************************************)
ResolvedText(a, b, c) == IF Members(b, c) = {} THEN Replacement(a, c) ELSE Replacement(b, c)

PieceText(base, a, b, C, p) ==
    (IF \E c \in C : c.start = p THEN ResolvedText(a, b, CHOOSE c \in C : c.start = p) ELSE <<>>)
    \o (IF Kept(base, C, p) THEN <<base[p]>> ELSE <<>>)

\* The text of what stands at a place.
LEMMA TextOfPiece ==
    ASSUME NEW L, NEW base, NEW userA, NEW userB, NEW a, NEW b, NEW C,
           Merges(L, base, userA, userB, a, b, C), NEW p \in 1 .. Len(base) + 1
    PROVE  Text(Piece(base, a, b, C, p)) = PieceText(base, a, b, C, p)
<1> DEFINE here == CHOOSE c \in C : c.start = p
           new == IF \E c \in C : c.start = p THEN Resolved(a, b, here) ELSE <<>>
           old == IF Kept(base, C, p) THEN By(<<base[p]>>, "none") ELSE <<>>
           newText == IF \E c \in C : c.start = p THEN ResolvedText(a, b, here) ELSE <<>>
           oldText == IF Kept(base, C, p) THEN <<base[p]>> ELSE <<>>
<1>1. Piece(base, a, b, C, p) = new \o old /\ PieceText(base, a, b, C, p) = newText \o oldText
  BY DEF Piece, PieceText
<1>2. (\E c \in C : c.start = p) => here \in C
  OBVIOUS
<1>3. <<>> \in Seq(Attributed(L)) /\ Text(<<>>) = <<>>
  <2>1. DOMAIN <<>> = {}
    OBVIOUS
  <2>2. Text(<<>>) = [i \in {} |-> <<>>[i].line]
    BY <2>1 DEF Text
  <2>3. <<>> = [i \in {} |-> <<>>[i].line]
    OBVIOUS
  <2>4. QED
    BY <2>2, <2>3
<1> HIDE DEF here
<1>4. new \in Seq(Attributed(L)) /\ Text(new) = newText
  <2>1. CASE \E c \in C : c.start = p
    <3>1. here \in C
      BY <1>2, <2>1
    <3>2. ~Clashes(a, b, here)
      BY <3>1 DEF Merges
    <3>3. Occupied(a, b, here)
      BY <3>1, MergeClusters
    <3>4. /\ here.start \in 1 .. Len(base) + 1 /\ here.end \in here.start .. Len(base) + 1
          /\ Len(base) \in Nat
          /\ OneSide(a, L, Len(base), userA) /\ OneSide(b, L, Len(base), userB)
      BY <3>1, MergeClusters
    <3>5. Resolved(a, b, here) \in Seq(Attributed(L))
          /\ Text(Resolved(a, b, here)) =
                IF Members(b, here) = {} THEN Replacement(a, here) ELSE Replacement(b, here)
      BY <3>2, <3>3, <3>4, ResolvedLines
    <3>6. QED
      BY <2>1, <3>5 DEF ResolvedText
  <2>2. CASE ~ \E c \in C : c.start = p
    BY <1>3, <2>2
  <2>3. QED
    BY <2>1, <2>2
<1>5. old \in Seq(Attributed(L)) /\ Text(old) = oldText
  <2>1. CASE Kept(base, C, p)
    <3>1. p \in 1 .. Len(base)
      BY <2>1, MergeClusters DEF Kept
    <3>2. <<base[p]>> \in Seq(L)
      BY <3>1 DEF Merges
    <3>3. Attributes(By(<<base[p]>>, "none"), L, <<base[p]>>, "none")
      <4>1. "none" \in {"a", "b", "none"}
        OBVIOUS
      <4>2. QED
        BY ONLY <3>2, <4>1, ByLines, Zenon
    <3>4. old = By(<<base[p]>>, "none") /\ oldText = <<base[p]>>
      BY <2>1
    <3> HIDE DEF old, oldText
    <3>5. QED
      BY <3>3, <3>4 DEF Attributes
  <2>2. CASE ~Kept(base, C, p)
    BY <1>3, <2>2
  <2>3. QED
    BY <2>1, <2>2
<1> HIDE DEF new, old, newText, oldText
<1>6. QED
  BY <1>1, <1>4, <1>5, TextConcat

\* The pieces, and their texts.
LEMMA PiecesType ==
    ASSUME NEW L, NEW base, NEW userA, NEW userB, NEW a, NEW b, NEW C,
           Merges(L, base, userA, userB, a, b, C)
    PROVE  LET pieces == Pieces(base, a, b, C)
           IN  /\ pieces \in Seq(Seq(Attributed(L))) /\ pieces # <<>>
               /\ Len(base) \in Nat /\ Len(pieces) = Len(base) + 1
               /\ \A p \in 1 .. Len(base) + 1 : Text(pieces[p]) = PieceText(base, a, b, C, p)
<1> DEFINE pieces == Pieces(base, a, b, C)
<1>1. Len(base) \in Nat
  BY MergeClusters
<1>2. \A p \in 1 .. Len(base) + 1 : Piece(base, a, b, C, p) \in Seq(Attributed(L))
  BY PieceLines
<1>3. \A p \in 1 .. Len(base) + 1 : Text(Piece(base, a, b, C, p)) = PieceText(base, a, b, C, p)
  BY TextOfPiece
<1>4. /\ pieces \in Seq(Seq(Attributed(L))) /\ pieces # <<>> /\ Len(pieces) = Len(base) + 1
      /\ \A p \in 1 .. Len(base) + 1 : pieces[p] = Piece(base, a, b, C, p)
  BY <1>1, <1>2 DEF Pieces
<1> HIDE DEF pieces
<1>5. \A p \in 1 .. Len(base) + 1 : Text(pieces[p]) = PieceText(base, a, b, C, p)
  BY <1>3, <1>4
<1>6. QED
  BY <1>1, <1>4, <1>5 DEF pieces

\* The clusters do not depend on which side is which.
ClustersOf(hunks, n) ==
    LET endsAt(start) == {e \in start .. n + 1 :
                            \A h \in hunks :
                               h.start = start \/ h.start \in start .. e - 1 => h.end <= e}
        endAt(start) == CHOOSE e \in endsAt(start) : \A f \in endsAt(start) : e <= f
        from[p \in 1 .. n + 2] ==
          LET starts == {h.start : h \in {k \in hunks : k.start >= p}}
          IN  IF starts = {} THEN {}
              ELSE LET start == CHOOSE s \in starts : \A t \in starts : s <= t
                   IN  {[start |-> start, end |-> endAt(start)]}
                         \cup from[IF endAt(start) > start THEN endAt(start) ELSE start + 1]
    IN  from[1]

\* Swapping the sides leaves the clusters.
LEMMA ClustersSwap ==
    ASSUME NEW a, NEW b, NEW n
    PROVE  Clusters(a, b, n) = Clusters(b, a, n)
<1>1. Clusters(a, b, n) = ClustersOf(a \cup b, n)
  BY DEF Clusters, ClusterEnd, ClustersOf
<1>2. Clusters(b, a, n) = ClustersOf(b \cup a, n)
  BY DEF Clusters, ClusterEnd, ClustersOf
<1>3. a \cup b = b \cup a
  OBVIOUS
<1>4. QED
  BY <1>1, <1>2, <1>3

\* It leaves a merge that does not conflict one that does not.
LEMMA MergesSwap ==
    ASSUME NEW L, NEW base, NEW userA, NEW userB, NEW a, NEW b, NEW C,
           Merges(L, base, userA, userB, a, b, C)
    PROVE  /\ Merges(L, base, userB, userA, b, a, C)
           /\ mergeArtefactEdits(base, userB, userA) = FlattenSeq(Pieces(base, b, a, C))
<1>1. C = Clusters(b, a, Len(base))
  BY ClustersSwap DEF Merges
<1>2. \A c \in C : ~Clashes(b, a, c)
  BY DEF Merges, Clashes
<1>3. Merges(L, base, userB, userA, b, a, C)
  BY <1>1, <1>2 DEF Merges
<1>4. mergeArtefactEdits(base, userB, userA) = FlattenSeq(Pieces(base, b, a, C))
  BY <1>3 DEF Merges, mergeArtefactEdits, Pieces
<1>5. QED
  BY <1>3, <1>4

\* It does not matter which version is whose.
LEMMA MergeCommutes ==
    ASSUME NEW L, NEW base, NEW userA, NEW userB, NEW a, NEW b, NEW C,
           Merges(L, base, userA, userB, a, b, C)
    PROVE  MergedText(base, b, a, C) = MergedText(base, a, b, C)
<1>1. Merges(L, base, userB, userA, b, a, C)
  BY MergesSwap
<1>2. \A c \in C : ResolvedText(a, b, c) = ResolvedText(b, a, c)
  <2> TAKE c \in C
  <2>1. ~Clashes(a, b, c) 
    BY DEF Merges
  <2>2. Occupied(a, b, c)
    BY MergeClusters
  <2>3. QED
    BY <2>1, <2>2 DEF ResolvedText, Clashes, Occupied
<1>3. ASSUME NEW p \in 1 .. Len(base) + 1
      PROVE  PieceText(base, a, b, C, p) = PieceText(base, b, a, C, p)
  <2>1. CASE \E c \in C : c.start = p
    <3> DEFINE here == CHOOSE c \in C : c.start = p
    <3>1. here \in C
      BY <2>1
    <3> HIDE DEF here
    <3>2. ResolvedText(a, b, here) = ResolvedText(b, a, here)
      BY <1>2, <3>1
    <3>3. QED
      BY <2>1, <3>2 DEF PieceText, here
  <2>2. CASE ~ \E c \in C : c.start = p
    BY <2>2 DEF PieceText
  <2>3. QED
    BY <2>1, <2>2
<1> DEFINE s == Pieces(base, a, b, C)
           t == Pieces(base, b, a, C)
<1>4. /\ s \in Seq(Seq(Attributed(L))) /\ s # <<>>
      /\ Len(base) \in Nat /\ Len(s) = Len(base) + 1
      /\ \A p \in 1 .. Len(base) + 1 : Text(s[p]) = PieceText(base, a, b, C, p)
  BY PiecesType
<1>5. /\ t \in Seq(Seq(Attributed(L))) /\ t # <<>>
      /\ Len(t) = Len(base) + 1
      /\ \A p \in 1 .. Len(base) + 1 : Text(t[p]) = PieceText(base, b, a, C, p)
  BY <1>1, PiecesType
<1> HIDE DEF s, t
<1>6. \A i \in 1 .. Len(s) : Text(s[i]) = Text(t[i])
  BY <1>3, <1>4, <1>5
<1>7. Text(FlattenSeq(s)) = Text(FlattenSeq(t))
  BY <1>4, <1>5, <1>6, SameTexts
<1>8. QED
  BY <1>7 DEF MergedText, s, t

(***************************************************************************)
(* A version that is the base.                                             *)
(***************************************************************************)
\* A version that is the base has no hunks.
LEMMA NoHunks ==
    ASSUME NEW L, NEW base \in Seq(L)
    PROVE  computeHunks(base, base) = {}
<1> DEFINE A == Anchors(base, base)
           n == Len(base)
<1> SUFFICES ASSUME NEW h \in computeHunks(base, base) PROVE FALSE
  OBVIOUS
<1>1. PICK p, q \in A : /\ Follows(A, p, q)
                        /\ q[1] > p[1] + 1 \/ q[2] > p[2] + 1
  BY HunkIsGap
<1>2. n \in Nat /\ lcsMatch(base, base) = {<<i, i>> : i \in 1 .. n}
  BY MatchedItself
<1>3. \A r \in A : \E i \in 0 .. n + 1 : r = <<i, i>>
  <2>1. \A r \in A : r \in lcsMatch(base, base) \/ r = <<0, 0>> \/ r = <<n + 1, n + 1>>
    BY DEF Anchors
  <2>2. QED
    BY <1>2, <2>1
<1>4. \A i \in 0 .. n + 1 : <<i, i>> \in A
  <2> TAKE i \in 0 .. n + 1
  <2>1. CASE i \in 1 .. n
    BY <1>2, <2>1 DEF Anchors
  <2>2. CASE i = 0
    BY <2>2 DEF Anchors
  <2>3. CASE i = n + 1
    BY <2>3 DEF Anchors
  <2>4. QED
    BY <1>2, <2>1, <2>2, <2>3
<1> HIDE DEF A
<1>5. PICK i \in 0 .. n + 1 : p = <<i, i>>
  BY <1>3
<1>6. PICK j \in 0 .. n + 1 : q = <<j, j>>
  BY <1>3
<1>7. p[1] = i /\ p[2] = i /\ q[1] = j /\ q[2] = j
  BY <1>5, <1>6
<1>8. i < j /\ \A r \in A : r[1] <= i \/ r[1] >= j
  BY <1>1, <1>7 DEF Follows
<1>9. i + 1 \in 0 .. n + 1
  BY <1>2, <1>8
<1>10. i + 1 <= i \/ i + 1 >= j
  <2> DEFINE r == <<i + 1, i + 1>>
  <2>1. r \in A /\ r[1] = i + 1
    BY <1>4, <1>9
  <2> HIDE DEF r
  <2>2. QED
    BY <1>8, <2>1
<1>11. j = i + 1
  BY <1>8, <1>10
<1>12. QED
  BY <1>1, <1>7, <1>11

\* The anchor before another.
LEMMA Preceding ==
    ASSUME NEW L, NEW base \in Seq(L), NEW other \in Seq(L),
           NEW v \in Anchors(base, other), v[1] > 0
    PROVE  \E u \in Anchors(base, other) : Follows(Anchors(base, other), u, v)
<1> DEFINE A == Anchors(base, other)
           S == {r[1] : r \in {t \in A : t[1] < v[1]}}
           first == <<0, 0>>
<1>1. Len(base) \in Nat /\ \A r \in A : r[1] \in 0 .. Len(base) + 1
  BY AnchorsInLine
<1>2. first \in A /\ first[1] = 0
  BY DEF Anchors
<1> HIDE DEF A, first
<1>3. S \subseteq 0 .. Len(base) + 1 /\ S # {}
  BY <1>1, <1>2
<1>4. PICK m \in S : \A k \in S : k <= m
  <2> HIDE DEF S
  <2>1. Len(base) + 1 \in Nat
    BY <1>1
  <2>2. QED
    BY <1>3, <2>1, Greatest
<1>5. PICK u \in A : u[1] = m /\ u[1] < v[1]
  OBVIOUS
<1>6. ASSUME NEW r \in A PROVE r[1] <= u[1] \/ r[1] >= v[1]
  <2>1. CASE r[1] < v[1]
    BY <1>4, <1>5, <2>1
  <2>2. CASE ~(r[1] < v[1])
    BY <1>1, <2>2 DEF A
  <2>3. QED
    BY <2>1, <2>2
<1>7. QED
  BY <1>5, <1>6 DEF Follows, A

\* A side that is alone has a cluster for each hunk, and it becomes the hunk.
LEMMA AloneClusters ==
    ASSUME NEW L, NEW base, NEW userA, NEW userB, NEW a, NEW b, NEW C,
           Merges(L, base, userA, userB, a, b, C), b = {}
    PROVE  /\ \A c \in C : c.start \in {h.start : h \in a}
           /\ \A h \in a : \E c \in C : c.start = h.start /\ c.end = h.end
           /\ \A h \in a, c \in C : c.start = h.start =>
                 /\ c.end = h.end
                 /\ \A k : k \in Members(a, c) <=> k = h
<1> DEFINE n == Len(base)
           end(s) == ClusterEnd(a, b, n, s)
           Reaches(s, f) == \A h \in a \cup b :
                               h.start = s \/ h.start \in s .. f - 1 => h.end <= f
<1>1. n \in Nat /\ Within(a \cup b, n) /\ C = Clusters(a, b, n) /\ a \cup b = a
  <2>1. n \in Nat /\ Within(a \cup b, n)
    BY MergeClusters
  <2>2. C = Clusters(a, b, n)
    BY DEF Merges
  <2>3. a \cup b = a
    OBVIOUS
  <2>4. QED
    BY <2>1, <2>2, <2>3
<1>2. Clustering(C, a, b, n, 1)
  BY <1>1, Clustered
<1>3. \A s \in 1 .. n + 1 : /\ end(s) \in s .. n + 1 /\ Reaches(s, end(s))
                            /\ \A f \in s .. n + 1 : Reaches(s, f) => end(s) <= f
  BY <1>1, ClusterEnds
<1> HIDE DEF end
<1>4. \A c \in C : c.start \in 1 .. n + 1 /\ c.end = end(c.start) /\ \E h \in a : h.start = c.start
  BY <1>1, <1>2 DEF Clustering, ClusterAt, end
<1>5. \A h \in a : h.start \in 1 .. n + 1 /\ h.end \in 1 .. n + 1 /\ h.start <= h.end
  BY <1>1 DEF Within
<1>6. \A h, k \in a : h = k \/ h.end < k.start \/ k.end < h.start
  BY MergeClusters DEF OneSide
<1>7. ASSUME NEW h \in a PROVE end(h.start) = h.end
  <2>1. \A k \in a : k.start = h.start \/ k.start \in h.start .. h.end - 1 => k = h
    BY <1>5, <1>6
  <2>2. Reaches(h.start, h.end)
    BY <1>1, <1>5, <2>1
  <2>3. end(h.start) <= h.end
    <3>1. h.start \in 1 .. n + 1 /\ h.end \in h.start .. n + 1
      BY <1>1, <1>5
    <3> HIDE DEF Reaches
    <3>2. QED
      BY <1>3, <2>2, <3>1
  <2>4. h.end <= end(h.start)
    BY <1>1, <1>3, <1>5
  <2>5. QED
    BY <1>3, <1>5, <2>3, <2>4
<1>8. ASSUME NEW h \in a, NEW c \in C, c.start = h.start
      PROVE  c.end = h.end /\ \A k : k \in Members(a, c) <=> k = h
  <2>1. c.end = h.end
    BY <1>4, <1>7, <1>8
  <2>2. \A k \in a : Inside(k, c) <=> k = h
    BY <1>5, <1>6, <1>8, <2>1 DEF Inside
  <2>3. QED
    BY <2>1, <2>2 DEF Members
<1>9. ASSUME NEW h \in a PROVE \E c \in C : c.start = h.start /\ c.end = h.end
  <2>1. PICK c \in C : Inside(h, c)
    BY <1>1, <1>2, <1>5 DEF Clustering
  <2>2. PICK k \in a : k.start = c.start
    BY <1>4
  <2>3. c.end = k.end
    BY <1>8, <2>2
  <2>4. h = k
    BY <1>5, <1>6, <2>1, <2>2, <2>3 DEF Inside
  <2>5. QED
    BY <2>2, <2>3, <2>4
<1>10. QED
  BY <1>4, <1>8, <1>9

\* A sequence of parts of which only the one at a place has lines.
LEMMA FlattenOne ==
    ASSUME NEW L, NEW seqs \in Seq(Seq(L)), NEW p \in 1 .. Len(seqs),
           \A i \in 1 .. Len(seqs) : i # p => seqs[i] = <<>>
    PROVE  FlattenSeq(seqs) = seqs[p]
<1> DEFINE n == Len(seqs)
<1>1. n \in Nat \ {0} /\ seqs # <<>> /\ p \in 1 .. n
  BY EmptySeq
<1>2. PICK f : /\ f[1] = seqs[1]
               /\ \A i \in 2 .. n : f[i] = f[i - 1] \o seqs[i]
               /\ FlattenSeq(seqs) = f[n]
  BY <1>1, FlattenSteps
<1> DEFINE S == {i \in 1 .. n : f[i] = IF i < p THEN <<>> ELSE seqs[p]}
<1>3. 1 \in S
  BY <1>1, <1>2
<1>4. ASSUME NEW i \in 2 .. n, i - 1 \in S PROVE i \in S
  <2>0. f[i - 1] = IF i - 1 < p THEN <<>> ELSE seqs[p]
    BY <1>4
  <2>1. /\ i \in 1 .. n /\ f[i] = f[i - 1] \o seqs[i]
        /\ f[i - 1] = IF i - 1 < p THEN <<>> ELSE seqs[p]
    <3>1. i \in 1 .. n
      BY <1>1
    <3>2. f[i] = f[i - 1] \o seqs[i]
      BY <1>2
    <3>3. QED
      BY <2>0, <3>1, <3>2
  <2>2. seqs[p] \in Seq(L) /\ <<>> \in Seq(L)
    BY <1>1
  <2>3. seqs[p] \o <<>> = seqs[p] /\ <<>> \o seqs[p] = seqs[p] /\ <<>> \o <<>> = <<>>
    BY <2>2, ConcatEmptySeq
  <2>4. CASE i < p
    <3>1. seqs[i] = <<>> /\ f[i - 1] = <<>>
      BY <1>1, <2>1, <2>4
    <3>2. QED
      BY <2>1, <2>3, <2>4, <3>1
  <2>5. CASE i = p
    <3>1. f[i - 1] = <<>>
      BY <1>1, <2>1, <2>5
    <3>2. f[i] = seqs[p]
      BY <2>1, <2>3, <2>5, <3>1
    <3>3. ~(i < p) /\ i \in 1 .. n
      BY <1>1, <2>1, <2>5
    <3>4. QED
      BY <3>2, <3>3
  <2>6. CASE i > p
    <3>1. seqs[i] = <<>> /\ f[i - 1] = seqs[p]
      BY <1>1, <2>1, <2>6
    <3>2. QED
      BY <1>1, <2>1, <2>3, <2>6, <3>1
  <2>7. QED
    BY <1>1, <2>4, <2>5, <2>6
<1> HIDE DEF S
<1>5. 1 .. n \subseteq S
  BY <1>1, <1>3, <1>4, InductUpTo
<1>6. n \in S
  <2>1. n \in 1 .. n
    BY <1>1
  <2>2. QED
    BY ONLY <1>5, <2>1
<1>7. f[n] = seqs[p]
  BY <1>1, <1>6 DEF S
<1>8. QED
  BY <1>2, <1>7

\* Its cluster becomes the hunk.
LEMMA AloneText ==
    ASSUME NEW L, NEW base, NEW userA, NEW userB, NEW a, NEW b, NEW C,
           Merges(L, base, userA, userB, a, b, C), b = {},
           NEW h \in a, NEW c \in C, c.start = h.start
    PROVE  ResolvedText(a, b, c) = h.content
<1> DEFINE M == Members(a, c)
           part(p) == IF \E k \in M : k.start = p THEN (CHOOSE k \in M : k.start = p).content
                      ELSE <<>>
           parts == [p \in 1 .. c.end |-> part(p)]
<1>1. c.end = h.end /\ \A k : k \in M <=> k = h
  BY AloneClusters
<1>2. /\ h.start \in 1 .. c.end /\ h.content \in Seq(L)
      /\ c.end \in Nat
  <2>1. h \in Hunk(L, Len(base), userA)
    BY MergeClusters DEF OneSide
  <2>2. c.start \in 1 .. Len(base) + 1 /\ c.end \in c.start .. Len(base) + 1 /\ Len(base) \in Nat
    BY MergeClusters
  <2>3. QED
    BY <2>1, <2>2 DEF Hunk
<1>3. ResolvedText(a, b, c) = FlattenSeq(parts)
  BY DEF ResolvedText, Members, Replacement
<1> HIDE DEF M
<1>4. part(h.start) = h.content
  <2>1. \E k \in M : k.start = h.start
    BY <1>1
  <2> DEFINE k == CHOOSE k \in M : k.start = h.start
  <2>2. k \in M
    BY <2>1
  <2> HIDE DEF k
  <2>3. k = h
    BY <1>1, <2>2
  <2>4. QED
    BY <2>1, <2>3 DEF k
<1>5. \A p : p # h.start => part(p) = <<>>
  BY <1>1
<1> HIDE DEF part
<1>6. \A p : part(p) \in Seq(L)
  <2>1. <<>> \in Seq(L)
    OBVIOUS
  <2>2. QED
    BY <1>2, <1>4, <1>5, <2>1
<1>7. parts \in Seq(Seq(L)) /\ Len(parts) = c.end /\ \A p \in 1 .. c.end : parts[p] = part(p)
  BY <1>2, <1>6
<1> HIDE DEF parts
<1>8. FlattenSeq(parts) = parts[h.start]
  BY <1>2, <1>5, <1>7, FlattenOne
<1>9. QED
  BY <1>2, <1>3, <1>4, <1>7, <1>8

\* What stands at a place of a gap between two matched lines when one side is
\* alone: the side's lines of the gap where it begins, the matched line where it
\* ends.
GapNew(doc, u, v, p) == IF p = u[1] + 1 THEN SubSeq(doc, u[2] + 1, v[2] - 1) ELSE <<>>
GapOld(doc, n, v, p) == IF p = v[1] /\ p <= n THEN <<doc[v[2]]>> ELSE <<>>

LEMMA AlonePiece ==
    ASSUME NEW L, NEW base, NEW userA, NEW userB, NEW a, NEW b, NEW C,
           Merges(L, base, userA, userB, a, b, C), b = {}, NEW p \in 1 .. Len(base) + 1,
           NEW u \in Anchors(base, userA), NEW v \in Anchors(base, userA),
           Follows(Anchors(base, userA), u, v), u[1] < p, p <= v[1]
    PROVE  PieceText(base, a, b, C, p) =
              GapNew(userA, u, v, p) \o GapOld(userA, Len(base), v, p)
<1> DEFINE A == Anchors(base, userA)
           n == Len(base)
           here == CHOOSE c \in C : c.start = p
           new == IF \E c \in C : c.start = p THEN ResolvedText(a, b, here) ELSE <<>>
           old == IF Kept(base, C, p) THEN <<base[p]>> ELSE <<>>
           gap == SubSeq(userA, u[2] + 1, v[2] - 1)
<1>1. base \in Seq(L) /\ userA \in Seq(L) /\ a = computeHunks(base, userA) /\ n \in Nat
  BY MergeClusters DEF Merges
<1>2. /\ \A r \in A : r = <<r[1], r[2]>> /\ r[1] \in 0 .. n + 1 /\ r[2] \in 0 .. Len(userA) + 1
      /\ \A r, s \in A : r[1] < s[1] <=> r[2] < s[2]
      /\ Len(userA) \in Nat
  BY <1>1, AnchorsInLine
<1>3. \A r, s \in A : r[1] = s[1] => r = s
  BY <1>1, AnchorsApart
<1>4. u \in A /\ v \in A /\ u[1] < v[1] /\ \A r \in A : r[1] <= u[1] \/ r[1] >= v[1]
  BY DEF Follows
<1>5. PieceText(base, a, b, C, p) = new \o old
  BY DEF PieceText
<1>6. \A h \in a : h.start = p => /\ p = u[1] + 1 /\ h.content = gap
                                  /\ v[1] > u[1] + 1 \/ v[2] > u[2] + 1
  <2> SUFFICES ASSUME NEW h \in a, h.start = p
               PROVE  p = u[1] + 1 /\ h.content = gap /\ (v[1] > u[1] + 1 \/ v[2] > u[2] + 1)
    OBVIOUS
  <2>1. PICK r, s \in A : /\ Follows(A, r, s) /\ h = HunkBetween(userA, r, s)
                          /\ s[1] > r[1] + 1 \/ s[2] > r[2] + 1
    BY <1>1, HunkIsGap
  <2>2. h.start = r[1] + 1 /\ h.content = SubSeq(userA, r[2] + 1, s[2] - 1)
    BY <2>1 DEF HunkBetween
  <2>3. r[1] < s[1] /\ \A t \in A : t[1] <= r[1] \/ t[1] >= s[1]
    BY <2>1 DEF Follows
  <2> HIDE DEF A
  <2>4. r[1] = u[1]
    <3>1. r[1] + 1 = p
      BY <2>2
    <3>2. r[1] \in Int /\ u[1] \in Int /\ v[1] \in Int
      BY <1>2, <1>4
    <3>3. r[1] <= u[1] \/ r[1] >= v[1]
      BY <1>4
    <3>4. u[1] < p /\ p <= v[1]
      OBVIOUS
    <3>5. QED
      BY ONLY <3>1, <3>2, <3>3, <3>4
  <2>5. s[1] = v[1]
    BY <1>2, <1>4, <2>3, <2>4
  <2>6. r = u /\ s = v
    BY <1>3, <1>4, <2>4, <2>5
  <2>7. QED
    BY <1>2, <2>1, <2>2, <2>6
<1>7. v[1] > u[1] + 1 \/ v[2] > u[2] + 1 => \E h \in a : h.start = u[1] + 1
  <2> SUFFICES ASSUME v[1] > u[1] + 1 \/ v[2] > u[2] + 1 PROVE \E h \in a : h.start = u[1] + 1
    OBVIOUS
  <2>1. HunkBetween(userA, u, v) \in a
    BY <1>1, HunkIsGap
  <2>2. HunkBetween(userA, u, v).start = u[1] + 1
    BY DEF HunkBetween
  <2>3. QED
    BY <2>1, <2>2
<1>8. \A c \in C : c.start \in {h.start : h \in a}
  BY AloneClusters
<1>9. \A h \in a : \E c \in C : c.start = h.start
  BY AloneClusters
<1> HIDE DEF here, gap
<1>10. new = IF p = u[1] + 1 THEN gap ELSE <<>>
  <2>1. CASE \E c \in C : c.start = p
    <3>1. here \in C /\ here.start = p
      BY <2>1 DEF here
    <3>2. PICK h \in a : h.start = p
      BY <1>8, <3>1
    <3>3. ResolvedText(a, b, here) = h.content
      BY <3>1, <3>2, AloneText
    <3>4. p = u[1] + 1 /\ h.content = gap
      BY <1>6, <3>2
    <3>5. new = h.content
      BY <2>1, <3>3
    <3> HIDE DEF new
    <3>6. QED
      BY <3>4, <3>5
  <2>2. CASE ~ \E c \in C : c.start = p
    <3>1. new = <<>>
      BY <2>2
    <3>2. \A h \in a : h.start # p
      BY <1>9, <2>2
    <3>3. CASE p = u[1] + 1
      <4>1. ~(v[1] > u[1] + 1 \/ v[2] > u[2] + 1)
        BY <1>7, <3>2, <3>3
      <4>2. u[2] + 1 \in Int /\ v[2] - 1 \in Int /\ v[2] - 1 < u[2] + 1
        BY <1>2, <1>4, <4>1
      <4>3. gap = <<>>
        BY <4>2, SubSeqEmpty DEF gap
      <4>4. QED
        BY <3>1, <4>3
    <3>4. CASE p # u[1] + 1
      BY <3>1, <3>4
    <3>5. QED
      BY <3>3, <3>4
  <2>3. QED
    BY <2>1, <2>2
<1>11. old = IF p = v[1] /\ p <= n THEN <<userA[v[2]]>> ELSE <<>>
  <2>1. CASE p = n + 1
    <3>1. ~Kept(base, C, p) /\ ~(p <= n)
      BY <1>1, <2>1 DEF Kept
    <3>2. QED
      BY <3>1
  <2>2. CASE p # n + 1
    <3>1. p \in 1 .. n
      BY <1>1, <2>2
    <3>2. Kept(base, C, p) <=> \A h \in a \cup b : ~(h.start <= p /\ p < h.end)
      BY <3>1, KeptLines
    <3>3. Kept(base, C, p) <=> \E y \in 1 .. Len(userA) : <<p, y>> \in lcsMatch(base, userA)
      BY <1>1, <3>1, <3>2, BaseCovered
    <3>4. CASE p = v[1]
      <4>1. v \in lcsMatch(base, userA)
        <5>1. v \in lcsMatch(base, userA) \/ v = <<0, 0>> \/ v = <<n + 1, Len(userA) + 1>>
          BY DEF Anchors
        <5>2. v[1] # 0 /\ v[1] # n + 1
          BY <1>1, <3>1, <3>4
        <5>3. QED
          BY <5>1, <5>2
      <4>2. v[2] \in 1 .. Len(userA) /\ base[v[1]] = userA[v[2]]
        BY <1>1, <4>1, Matched DEF Matching
      <4>3. v = <<p, v[2]>>
        BY <1>2, <1>4, <3>4
      <4>4. Kept(base, C, p)
        BY <3>3, <4>1, <4>2, <4>3
      <4>5. QED
        BY <3>1, <3>4, <4>2, <4>4
    <3>5. CASE p # v[1]
      <4>1. ASSUME Kept(base, C, p) PROVE FALSE
        <5>1. PICK y \in 1 .. Len(userA) : <<p, y>> \in lcsMatch(base, userA)
          BY <3>3, <4>1
        <5> DEFINE r == <<p, y>>
        <5>2. r \in A /\ r[1] = p
          BY <5>1 DEF Anchors
        <5> HIDE DEF r, A
        <5>3. QED
          BY <1>2, <1>4, <3>5, <5>2
      <4>2. QED
        BY <3>5, <4>1
    <3>6. QED
      BY <3>4, <3>5
  <2>3. QED
    BY <2>1, <2>2
<1> HIDE DEF new, old
<1>12. QED
  BY <1>5, <1>10, <1>11 DEF gap, GapNew, GapOld

\* A merge with an unchanged version is the other version.
LEMMA MergeWithBase ==
    ASSUME NEW L, NEW base, NEW userA, NEW userB, NEW a, NEW b, NEW C,
           Merges(L, base, userA, userB, a, b, C), userB = base
    PROVE  MergedText(base, a, b, C) = userA
<1> DEFINE A == Anchors(base, userA)
           n == Len(base)
           pieces == Pieces(base, a, b, C)
           first == <<0, 0>>
           last == <<n + 1, Len(userA) + 1>>
           upTo(p, v) == IF p = v[1] /\ p <= n THEN v[2] ELSE v[2] - 1
<1>1. base \in Seq(L) /\ userA \in Seq(L) /\ n \in Nat
  BY MergeClusters DEF Merges
<1>2. b = {}
  <2>1. b = computeHunks(base, base)
    BY DEF Merges
  <2>2. QED
    BY <1>1, <2>1, NoHunks
<1>3. /\ \A r \in A : r = <<r[1], r[2]>> /\ r[1] \in 0 .. n + 1 /\ r[2] \in 0 .. Len(userA) + 1
      /\ \A r, s \in A : r[1] < s[1] <=> r[2] < s[2]
      /\ Len(userA) \in Nat
  BY <1>1, AnchorsInLine
<1>4. \A r, s \in A : r[1] = s[1] => r = s
  BY <1>1, AnchorsApart
<1>5. first \in A /\ last \in A /\ first[1] = 0 /\ first[2] = 0 /\ last[1] = n + 1
      /\ last[2] = Len(userA) + 1
  BY DEF Anchors
<1>6. /\ pieces \in Seq(Seq(Attributed(L))) /\ pieces # <<>>
      /\ Len(pieces) = n + 1
      /\ \A p \in 1 .. n + 1 : Text(pieces[p]) = PieceText(base, a, b, C, p)
  BY PiecesType
<1>7. PICK f : /\ f[1] = Text(pieces[1])
               /\ \A i \in 2 .. n + 1 : f[i] = f[i - 1] \o Text(pieces[i])
               /\ Text(FlattenSeq(pieces)) = f[n + 1]
  <2> HIDE DEF pieces
  <2>1. PICK f : /\ f[1] = Text(pieces[1])
                 /\ \A i \in 2 .. Len(pieces) : f[i] = f[i - 1] \o Text(pieces[i])
                 /\ Text(FlattenSeq(pieces)) = f[Len(pieces)]
    BY <1>6, TextSteps
  <2>2. QED
    BY <1>6, <2>1
<1> DEFINE new(p, u, v) == GapNew(userA, u, v, p)
           old(p, v) == GapOld(userA, n, v, p)
<1>8. \A p \in 1 .. n + 1 : \A u, v \in A : Follows(A, u, v) /\ u[1] < p /\ p <= v[1] =>
         Text(pieces[p]) = new(p, u, v) \o old(p, v)
  <2>1. ASSUME NEW p \in 1 .. n + 1, NEW u \in A, NEW v \in A,
               Follows(A, u, v), u[1] < p, p <= v[1]
        PROVE  PieceText(base, a, b, C, p) = new(p, u, v) \o old(p, v)
    BY <1>2, <2>1, AlonePiece
  <2> HIDE DEF pieces, new, old, A
  <2>2. QED
    BY <1>6, <2>1
<1> HIDE DEF pieces, A, first, last
<1> USE DEF GapNew, GapOld
<1> DEFINE Good(p) == \A u, v \in A : Follows(A, u, v) /\ u[1] < p /\ p <= v[1] =>
                         f[p] = SubSeq(userA, 1, upTo(p, v))
           S == {p \in 1 .. n + 1 : Good(p)}
\* The lines of a gap, then the matched line.
<1>9. ASSUME NEW u \in A, NEW v \in A, Follows(A, u, v), NEW p \in 1 .. n + 1, u[1] < p, p <= v[1],
             NEW before, before = SubSeq(userA, 1, IF p = u[1] + 1 THEN u[2] ELSE v[2] - 1)
      PROVE  /\ new(p, u, v) \o old(p, v) \in Seq(L)
             /\ before \o (new(p, u, v) \o old(p, v)) = SubSeq(userA, 1, upTo(p, v))
  <2>1. /\ u[2] \in 0 .. Len(userA) /\ v[2] \in u[2] + 1 .. Len(userA) + 1
        /\ u[1] < v[1]
    BY <1>3, <1>9 DEF Follows
  <2> DEFINE whole == SubSeq(userA, 1, v[2] - 1)
  <2>2. before \o new(p, u, v) = whole
    <3>1. CASE p = u[1] + 1
      <4>1. SubSeq(userA, 1, u[2]) \o SubSeq(userA, u[2] + 1, v[2] - 1) = whole
        <5>1. /\ 1 \in 1 .. Len(userA) + 1 /\ u[2] \in 1 - 1 .. Len(userA)
              /\ v[2] - 1 \in u[2] .. Len(userA)
          BY <1>3, <2>1
        <5>2. QED
          BY <1>1, <5>1, ConcatAdjacentSubSeq
      <4>2. QED
        BY <1>9, <3>1, <4>1
    <3>2. CASE p # u[1] + 1
      <4>1. new(p, u, v) = <<>> /\ before = whole
        BY <1>9, <3>2
      <4>2. whole \in Seq(L)
        BY <1>1, <1>3, <2>1, PartLines
      <4> HIDE DEF new, whole
      <4>3. QED
        BY <4>1, <4>2, ConcatEmptySeq
    <3>3. QED
      BY <3>1, <3>2
  <2>3. before \in Seq(L) /\ new(p, u, v) \in Seq(L) /\ whole \in Seq(L)
    <3>1. \A i \in 1 .. Len(userA) + 1, j \in 0 .. Len(userA) : SubSeq(userA, i, j) \in Seq(L)
      BY <1>1, <1>3, PartLines
    <3>2. /\ 1 \in 1 .. Len(userA) + 1 /\ u[2] \in 0 .. Len(userA) /\ v[2] - 1 \in 0 .. Len(userA)
          /\ u[2] + 1 \in 1 .. Len(userA) + 1
      BY <1>3, <2>1
    <3>3. <<>> \in Seq(L)
      OBVIOUS
    <3>4. before \in Seq(L)
      BY <1>9, <3>1, <3>2
    <3>5. new(p, u, v) \in Seq(L)
      BY <3>1, <3>2, <3>3
    <3>6. whole \in Seq(L)
      BY <3>1, <3>2
    <3>7. QED
      BY <3>4, <3>5, <3>6
  <2>4. CASE p = v[1] /\ p <= n
    <3>1. v[2] \in 1 .. Len(userA)
      <4>1. last[1] = n + 1 /\ v[1] < last[1] => v[2] < last[2]
        BY <1>3, <1>5
      <4>2. v[1] < last[1] /\ v[1] \in Int
        BY <1>1, <1>5, <2>4
      <4>3. QED
        BY <1>3, <1>5, <2>1, <4>1, <4>2
    <3>2. SubSeq(userA, 1, v[2]) = whole \o <<userA[v[2]]>>
      <4>1. 1 \in 1 .. Len(userA) /\ v[2] \in 1 .. Len(userA)
        BY <1>3, <3>1
      <4>2. QED
        BY <1>1, <4>1, SubSeqRecursiveSecond
    <3>3. old(p, v) = <<userA[v[2]]>> /\ upTo(p, v) = v[2]
      BY <2>4
    <3>4. <<userA[v[2]]>> \in Seq(L)
      BY <1>1, <3>1
    <3> HIDE DEF new, old, whole, upTo
    <3>5. before \o (new(p, u, v) \o old(p, v)) = (before \o new(p, u, v)) \o old(p, v)
      BY <2>3, <3>3, <3>4, ConcatAssociative
    <3>6. new(p, u, v) \o old(p, v) \in Seq(L)
      BY <2>3, <3>3, <3>4, ConcatProperties
    <3>7. QED
      BY <2>2, <3>2, <3>3, <3>5, <3>6
  <2>5. CASE ~(p = v[1] /\ p <= n)
    <3>1. old(p, v) = <<>> /\ upTo(p, v) = v[2] - 1
      BY <2>5
    <3> HIDE DEF new, old, upTo
    <3>2. new(p, u, v) \o <<>> = new(p, u, v)
      BY <2>3, ConcatEmptySeq
    <3>3. QED
      BY <2>2, <2>3, <3>1, <3>2
  <2>6. QED
    BY <2>4, <2>5
<1> HIDE DEF new, old
<1>10. 1 \in S
  <2> SUFFICES ASSUME NEW u \in A, NEW v \in A, Follows(A, u, v), u[1] < 1, 1 <= v[1]
               PROVE  f[1] = SubSeq(userA, 1, upTo(1, v))
    BY <1>1
  <2>1. 1 \in 1 .. n + 1 /\ u[1] = 0
    BY <1>1, <1>3
  <2>2. u = first
    BY <1>4, <1>5, <2>1
  <2>3. f[1] = new(1, u, v) \o old(1, v)
    BY <1>7, <1>8, <2>1
  <2>4. <<>> = SubSeq(userA, 1, IF 1 = u[1] + 1 THEN u[2] ELSE v[2] - 1)
    <3>1. SubSeq(userA, 1, 0) = <<>>
      BY SubSeqEmpty
    <3>2. 1 = u[1] + 1 /\ u[2] = 0
      BY <1>5, <2>1, <2>2
    <3>3. QED
      BY <3>1, <3>2
  <2>5. /\ new(1, u, v) \o old(1, v) \in Seq(L)
        /\ <<>> \o (new(1, u, v) \o old(1, v)) = SubSeq(userA, 1, upTo(1, v))
    BY <1>9, <2>1, <2>4
  <2>6. QED
    BY <2>3, <2>5, ConcatEmptySeq
<1>11. ASSUME NEW p \in 2 .. n + 1, p - 1 \in S PROVE p \in S
  <2> SUFFICES ASSUME NEW u \in A, NEW v \in A, Follows(A, u, v), u[1] < p, p <= v[1]
               PROVE  f[p] = SubSeq(userA, 1, upTo(p, v))
    BY <1>1
  <2>1. p \in 1 .. n + 1 /\ p - 1 \in 1 .. n + 1 /\ Good(p - 1)
    BY <1>1, <1>11
  <2>2. f[p] = f[p - 1] \o (new(p, u, v) \o old(p, v))
    BY <1>7, <1>8, <2>1
  <2>3. f[p - 1] = SubSeq(userA, 1, IF p = u[1] + 1 THEN u[2] ELSE v[2] - 1)
    <3>1. u[1] \in Int /\ v[1] \in Int /\ u[1] <= p - 1 /\ p - 1 < v[1] /\ p - 1 <= n
      BY <1>1, <1>3
    <3>2. CASE p = u[1] + 1
      <4>1. u[1] > 0 /\ u[1] = p - 1
        BY <1>1, <3>1, <3>2
      <4>2. PICK w \in A : Follows(A, w, u)
        BY <1>1, <4>1, Preceding DEF A
      <4>3. w[1] < p - 1
        BY <4>1, <4>2 DEF Follows
      <4>4. f[p - 1] = SubSeq(userA, 1, upTo(p - 1, u))
        BY <2>1, <4>1, <4>2, <4>3
      <4>5. upTo(p - 1, u) = u[2]
        BY <3>1, <4>1
      <4>6. QED
        BY <3>2, <4>4, <4>5
    <3>3. CASE p # u[1] + 1
      <4>1. u[1] < p - 1 /\ p - 1 <= v[1] /\ p - 1 # v[1]
        BY <3>1, <3>3
      <4>2. f[p - 1] = SubSeq(userA, 1, upTo(p - 1, v))
        BY <2>1, <4>1
      <4>3. upTo(p - 1, v) = v[2] - 1
        BY <4>1
      <4>4. QED
        BY <3>3, <4>2, <4>3
    <3>4. QED
      BY <3>2, <3>3
  <2>4. QED
    BY <1>9, <2>1, <2>2, <2>3
<1>12. n + 1 \in S
  <2> HIDE DEF S
  <2>1. n + 1 \in Nat /\ n + 1 \in 1 .. n + 1
    BY <1>1
  <2>2. 1 .. n + 1 \subseteq S
    BY <1>10, <1>11, <2>1, InductUpTo
  <2>3. QED
    BY <2>1, <2>2
<1>13. f[n + 1] = userA
  <2>1. PICK u \in A : Follows(A, u, last)
    BY <1>1, <1>5, Preceding DEF A
  <2>2. u[1] < n + 1 /\ n + 1 <= last[1]
    BY <1>1, <1>5, <2>1 DEF Follows
  <2>3. f[n + 1] = SubSeq(userA, 1, upTo(n + 1, last))
    BY <1>5, <1>12, <2>1, <2>2
  <2>4. upTo(n + 1, last) = Len(userA)
    BY <1>1, <1>3, <1>5
  <2>5. QED
    BY <1>1, <2>3, <2>4, SubSeqFull
<1>14. QED
  BY <1>7, <1>13 DEF MergedText, pieces

(***************************************************************************)
(* The theorems.                                                           *)
(***************************************************************************)

LEMMA SampleMerge ==
    ASSUME NEW v \in Samples, Merge(v) # MERGE_CONFLICT_HARD
    PROVE  \E L, a, b, C : /\ Merges(L, v[1], v[2], v[3], a, b, C)
                           /\ Merge(v) = FlattenSeq(Pieces(v[1], a, b, C))
<1> DEFINE L == Lines(v[1]) \cup Lines(v[2]) \cup Lines(v[3])
<1>1. \A i \in 1 .. 3 : v[i] \in Seq(Lines(v[i])) /\ Lines(v[i]) \subseteq L
  BY SamplesAssumption
<1> HIDE DEF L
<1>2. \A i \in 1 .. 3 : v[i] \in Seq(L)
  <2> TAKE i \in 1 .. 3
  <2>1. QED
    BY <1>1, SeqMonotonic
<1>3. v[1] \in Seq(L) /\ v[2] \in Seq(L) /\ v[3] \in Seq(L)
  BY <1>2
<1>4. \E a, b, C : /\ Merges(L, v[1], v[2], v[3], a, b, C)
                   /\ Merge(v) = FlattenSeq(Pieces(v[1], a, b, C))
  BY <1>3, MergeIs DEF Merge
<1>5. QED
  BY <1>4

\* For all versions of an artefact, a line the merge attributes to one side is a
\* line of that side's version, and an unattributed one is in both
\* (merge-artefact-edits.js:160-274).
THEOREM AttributionsAreTrue == Spec => []AttributionsTrue
<1>1. AttributionsTrue
  <2> SUFFICES ASSUME NEW v \in Samples, Merge(v) # MERGE_CONFLICT_HARD,
                      NEW i \in DOMAIN Merge(v)
               PROVE  /\ Merge(v)[i].by # "b" => Merge(v)[i].line \in Lines(v[2])
                      /\ Merge(v)[i].by # "a" => Merge(v)[i].line \in Lines(v[3])
    BY DEF AttributionsTrue
  <2>1. PICK L, a, b, C : /\ Merges(L, v[1], v[2], v[3], a, b, C)
                          /\ Merge(v) = FlattenSeq(Pieces(v[1], a, b, C))
    BY SampleMerge
  <2>2. Merge(v)[i] \in Lines(Merge(v))
    BY DEF Lines
  <2>3. PICK p \in 1 .. Len(v[1]) + 1 : Merge(v)[i] \in Lines(Piece(v[1], a, b, C, p))
    BY <2>1, <2>2, MergedLines
  <2>4. TrulyBy(Merge(v)[i], v[2], v[3])
    BY <2>1, <2>3, PieceLines
  <2>5. QED
    BY <2>4 DEF TrulyBy
<1>2. QED
  BY <1>1, PTL

\* For all versions of an artefact, a merge that does not conflict loses no line
\* either side added and, of a base that repeats none, no line both kept; it is
\* the changed version where only one side changed anything, and the same
\* whichever version arrives last (merge-artefact-edits.js:160-274).
THEOREM MergeLosesNothing == Spec => []MergeKeepsBoth
<1>1. MergeKeepsBoth
  <2> SUFFICES ASSUME NEW v \in Samples, Merge(v) # MERGE_CONFLICT_HARD
               PROVE  /\ (Lines(v[2]) \cup Lines(v[3])) \ Lines(v[1]) \subseteq Lines(Text(Merge(v)))
                      /\ Cardinality(Lines(v[1])) = Len(v[1]) =>
                            Lines(v[2]) \cap Lines(v[3]) \subseteq Lines(Text(Merge(v)))
                      /\ v[3] = v[1] => Text(Merge(v)) = v[2]
                      /\ Text(Merge(<<v[1], v[3], v[2]>>)) = Text(Merge(v))
    BY DEF MergeKeepsBoth
  <2>1. PICK L, a, b, C : /\ Merges(L, v[1], v[2], v[3], a, b, C)
                          /\ Merge(v) = FlattenSeq(Pieces(v[1], a, b, C))
    BY SampleMerge
  <2>2. Text(Merge(v)) = MergedText(v[1], a, b, C)
    BY <2>1 DEF MergedText
  <2>3. (Lines(v[2]) \cup Lines(v[3])) \ Lines(v[1]) \subseteq Lines(MergedText(v[1], a, b, C))
    BY <2>1, AddedSurvive
  <2>4. Cardinality(Lines(v[1])) = Len(v[1]) =>
           Lines(v[2]) \cap Lines(v[3]) \subseteq Lines(MergedText(v[1], a, b, C))
    BY <2>1, CommonSurvive
  <2>5. v[3] = v[1] => MergedText(v[1], a, b, C) = v[2]
    BY <2>1, MergeWithBase
  <2>6. Text(Merge(<<v[1], v[3], v[2]>>)) = MergedText(v[1], b, a, C)
    <3>1. Merge(<<v[1], v[3], v[2]>>) = mergeArtefactEdits(v[1], v[3], v[2])
      BY DEF Merge
    <3>2. mergeArtefactEdits(v[1], v[3], v[2]) = FlattenSeq(Pieces(v[1], b, a, C))
      BY <2>1, MergesSwap
    <3>3. QED
      BY <3>1, <3>2 DEF MergedText
  <2>7. MergedText(v[1], b, a, C) = MergedText(v[1], a, b, C)
    BY <2>1, MergeCommutes
  <2>8. QED
    BY <2>2, <2>3, <2>4, <2>5, <2>6, <2>7
<1>2. QED
  BY <1>1, PTL
================================================================================
