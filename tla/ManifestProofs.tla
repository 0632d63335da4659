---------------------------- MODULE ManifestProofs ----------------------------
(***************************************************************************)
(* parse_manifest's stack is the path of open elements, for every document *)
(* whose ends match, as the XML reader checks, and every MAX_DEPTH; so a   *)
(* manifest that ends inside an element has no rows.                       *)
(*                                                                         *)
(* The path is a function defined by recursion.  The lemmas of the first   *)
(* part show that there is one, and what one more event makes of it.  The  *)
(* invariant then says, of the source and of what strip_manifest makes of  *)
(* it, that the stack shadows the path up to the cap; and while the source *)
(* is rewritten, that what is written has the same elements open as the    *)
(* source, but for those that are skipped: so it is a document again.      *)
(*                                                                         *)
(* The rest is about the rows.  Told from the document alone, they are the *)
(* elements from a file-entry under the root to the next event that leaves *)
(* it, in order and counted; the parser's handlers open and close exactly  *)
(* those.  What is in the bag while one is open is its own (Unborrowed),   *)
(* and, where the row is as LibreOffice writes it, says what its elements  *)
(* have said so far (AllHeard).                                            *)
(*                                                                         *)
(* Last, what the paths, media types and versions of the rows are is told  *)
(* from the events, one after the other (Tally).  An event that is dropped *)
(* tells nothing, one that is written tells what it told: so the source,   *)
(* what is written of it, and the second parse tell the same (Traced).     *)
(***************************************************************************)
EXTENDS ManifestImport, FiniteSetTheorems, WellFoundedInduction, TLAPS

\* Of natural numbers there is a least.
LEMMA Least ==
  ASSUME NEW T, T \subseteq Nat, T # {}
  PROVE  \E n \in T : \A m \in T : n <= m
<1> DEFINE R == OpToRel(<, Nat)
<1>1. IsWellFoundedOn(R, Nat)
  BY NatLessThanWellFounded
<1>2. \A x, y \in Nat : x < y => <<x, y>> \in R
  BY DEF OpToRel
<1> HIDE DEF R
<1>3. PICK n \in T : \A y \in T : ~(<<y, n>> \in R)
  BY <1>1, WFMin, Zenon
<1>4. ASSUME NEW m \in T PROVE n <= m
  <2>1. n \in Nat /\ m \in Nat
    BY T \subseteq Nat
  <2>2. ~(m < n)
    BY <1>2, <1>3, <2>1
  <2> QED BY <2>1, <2>2
<1> QED BY <1>4

\* What one event makes of the path of open elements.
After(path, e) == CASE e.kind = "start" -> Append(path, e)
                    [] e.kind = "end"   -> Front(path)
                    [] OTHER            -> path

Hop(events, f, i) == IF i = 0 THEN <<>> ELSE After(f[i - 1], events[i])

\* f[i] is the path after i of the events.
Follows(events, n, f) == f = [i \in 0..n |-> Hop(events, f, i)]

\* The path after each event is what the event makes of the one before.
LEMMA FollowsEach ==
  ASSUME NEW events, NEW n \in Nat, NEW f, Follows(events, n, f)
  PROVE  \A i \in 0..n : f[i] = Hop(events, f, i)
<1>1. PICK h : h = [i \in 0..n |-> Hop(events, f, i)]
  OBVIOUS
<1>2. f = h
  BY <1>1 DEF Follows
<1>3. \A i \in 0..n : h[i] = Hop(events, f, i)
  BY <1>1
<1> QED BY <1>2, <1>3

\* However many the events, there is such a function.
LEMMA SomethingFollows ==
  ASSUME NEW events, NEW n \in Nat
  PROVE  \E f : Follows(events, n, f)
<1> DEFINE T == {m \in Nat : ~\E f : Follows(events, m, f)}
<1> SUFFICES ASSUME T # {} PROVE FALSE
  OBVIOUS
<1>1. PICK m \in T : \A k \in T : m <= k
  <2>1. T \subseteq Nat
    OBVIOUS
  <2> QED BY <2>1, Least, Zenon
<1>2. m \in Nat /\ ~\E f : Follows(events, m, f)
  BY <1>1
<1>3. CASE m = 0
  <2> DEFINE f == [i \in 0..0 |-> <<>>]
  <2>1. \A i \in 0..0 : Hop(events, f, i) = <<>>
    BY DEF Hop
  <2>2. f = [i \in 0..0 |-> Hop(events, f, i)]
    BY <2>1
  <2> QED BY <1>2, <1>3, <2>2 DEF Follows
<1>4. CASE m # 0
  <2>1. m - 1 \in Nat /\ ~(m <= m - 1)
    BY <1>2, <1>4
  <2>2. PICK g : Follows(events, m - 1, g)
    BY <1>1, <2>1
  <2>3. \A i \in 0..(m - 1) : g[i] = Hop(events, g, i)
    BY <2>1, <2>2, FollowsEach, Zenon
  <2> DEFINE f == [i \in 0..m |-> IF i = m THEN Hop(events, g, m) ELSE g[i]]
  <2>4. \A i \in 0..(m - 1) : f[i] = g[i]
    BY <1>2
  <2>5. f[m] = Hop(events, g, m)
    BY <1>2
  <2> HIDE DEF f
  <2>6. ASSUME NEW i \in 0..m PROVE Hop(events, f, i) = Hop(events, g, i)
    <3>1. i # 0 => f[i - 1] = g[i - 1]
      BY <1>2, <2>4
    <3> QED BY <3>1 DEF Hop
  <2>7. ASSUME NEW i \in 0..m PROVE f[i] = Hop(events, f, i)
    <3>1. i # m => i \in 0..(m - 1)
      BY <1>2
    <3> QED BY <2>3, <2>4, <2>5, <2>6, <3>1
  <2>8. f = [i \in 0..m |-> f[i]]
    BY DEF f
  <2>9. [i \in 0..m |-> f[i]] = [i \in 0..m |-> Hop(events, f, i)]
    BY <2>7, Zenon
  <2> QED BY <1>2, <2>8, <2>9 DEF Follows
<1> QED BY <1>3, <1>4

\* It depends on no later event.
LEMMA FollowsAlike ==
  ASSUME NEW a, NEW b, NEW n \in Nat, NEW m \in Nat, n <= m, NEW f, NEW g,
         Follows(a, n, f), Follows(b, m, g), \A i \in 1..n : a[i] = b[i]
  PROVE  f[n] = g[n]
<1>1. \A i \in 0..n : f[i] = Hop(a, f, i)
  BY FollowsEach
<1>2. \A i \in 0..m : g[i] = Hop(b, g, i)
  BY FollowsEach
<1> DEFINE T == {i \in 0..n : f[i] # g[i]}
<1> SUFFICES ASSUME n \in T PROVE FALSE
  OBVIOUS
<1>3. PICK i \in T : \A j \in T : i <= j
  <2>1. T \subseteq Nat
    OBVIOUS
  <2> QED BY <2>1, Least, Zenon
<1>4. i \in 0..n /\ i \in 0..m /\ f[i] # g[i]
  BY <1>3
<1>5. i # 0
  BY <1>1, <1>2, <1>4 DEF Hop
<1>6. f[i - 1] = g[i - 1] /\ a[i] = b[i]
  <2>1. i - 1 \in 0..n /\ ~(i <= i - 1) /\ i \in 1..n
    BY <1>4, <1>5
  <2> QED BY <1>3, <2>1
<1> QED BY <1>1, <1>2, <1>4, <1>5, <1>6 DEF Hop

\* OpenAfter is its last value.
LEMMA OpenFollows ==
  ASSUME NEW events, NEW f, Len(events) \in Nat, Follows(events, Len(events), f)
  PROVE  OpenAfter(events) = f[Len(events)]
<1> DEFINE P(g) == g = [i \in 0..Len(events) |->
             IF i = 0 THEN <<>>
             ELSE CASE events[i].kind = "start" -> Append(g[i - 1], events[i])
                    [] events[i].kind = "end"   -> Front(g[i - 1])
                    [] OTHER                    -> g[i - 1]]
           h == CHOOSE g : P(g)
<1>1. P(f)
  BY DEF Follows, Hop, After
<1>2. P(h)
  BY <1>1, Zenon
<1>3. Follows(events, Len(events), h)
  BY <1>2 DEF Follows, Hop, After
<1>4. f[Len(events)] = h[Len(events)]
  BY <1>3, FollowsAlike
<1>5. OpenAfter(events) = h[Len(events)]
  BY DEF OpenAfter
<1> QED BY <1>4, <1>5

-----------------------------------------------------------------------------
\* The elements open after n of the events.
Open(events, n) == OpenAfter(SubSeq(events, 1, n))

LEMMA OpenSteps ==
  ASSUME NEW S, NEW d \in Seq(S)
  PROVE  /\ Open(d, 0) = <<>>
         /\ \A n \in 1..Len(d) : Open(d, n) = After(Open(d, n - 1), d[n])
         /\ Open(d, Len(d)) = OpenAfter(d)
<1>0. Len(d) \in Nat
  OBVIOUS
<1>1. PICK f : Follows(d, Len(d), f)
  BY <1>0, SomethingFollows
<1>2. \A i \in 0..Len(d) : f[i] = Hop(d, f, i)
  BY <1>0, <1>1, FollowsEach
<1>3. ASSUME NEW n \in 0..Len(d) PROVE Open(d, n) = f[n]
  <2>1. PICK p : p = SubSeq(d, 1, n)
    OBVIOUS
  <2>2. Len(p) = n /\ n \in Nat /\ n <= Len(d) /\ \A i \in 1..n : p[i] = d[i]
    BY <1>0, <2>1
  <2>3. PICK g : Follows(p, n, g)
    BY <2>2, SomethingFollows
  <2>4. OpenAfter(p) = g[n]
    BY <2>2, <2>3, OpenFollows
  <2>5. g[n] = f[n]
    BY <1>0, <1>1, <2>2, <2>3, FollowsAlike
  <2> QED BY <2>1, <2>4, <2>5 DEF Open
<1>4. Open(d, 0) = <<>>
  <2>1. 0 \in 0..Len(d)
    BY <1>0
  <2> QED BY <1>2, <1>3, <2>1 DEF Hop
<1>5. ASSUME NEW n \in 1..Len(d) PROVE Open(d, n) = After(Open(d, n - 1), d[n])
  <2>1. n \in 0..Len(d) /\ n - 1 \in 0..Len(d) /\ n # 0
    BY <1>0
  <2> QED BY <1>2, <1>3, <2>1 DEF Hop
<1>6. Open(d, Len(d)) = OpenAfter(d)
  <2>1. SubSeq(d, 1, Len(d)) = d
    OBVIOUS
  <2> QED BY <2>1 DEF Open
<1> QED BY <1>4, <1>5, <1>6

LEMMA AfterTyped ==
  ASSUME NEW S, NEW e \in S, NEW p \in Seq(S)
  PROVE  After(p, e) \in Seq(S)
<1>1. Append(p, e) \in Seq(S)
  OBVIOUS
<1>2. Front(p) \in Seq(S)
  <2>1. Len(p) \in Nat
    OBVIOUS
  <2>2. CASE Len(p) = 0
    BY <2>2 DEF Front
  <2>3. CASE Len(p) > 0
    BY <2>3 DEF Front
  <2> QED BY <2>1, <2>2, <2>3
<1> QED BY <1>1, <1>2 DEF After

\* Open elements are start events.
LEMMA OpenTyped ==
  ASSUME NEW S, NEW d \in Seq(S), NEW n \in 0..Len(d)
  PROVE  Open(d, n) \in Seq(S)
<1> DEFINE T == {m \in 0..Len(d) : Open(d, m) \notin Seq(S)}
<1> SUFFICES ASSUME T # {} PROVE FALSE
  OBVIOUS
<1>0. Len(d) \in Nat
  OBVIOUS
<1>1. PICK m \in T : \A k \in T : m <= k
  <2>1. T \subseteq Nat
    OBVIOUS
  <2> QED BY <2>1, Least, Zenon
<1>2. m \in 0..Len(d) /\ Open(d, m) \notin Seq(S)
  BY <1>1
<1>3. m # 0
  <2>1. Open(d, 0) = <<>>
    BY OpenSteps
  <2>2. <<>> \in Seq(S)
    OBVIOUS
  <2> QED BY <1>2, <2>1, <2>2
<1>4. m - 1 \in 0..Len(d) /\ m \in 1..Len(d) /\ ~(m <= m - 1)
  BY <1>0, <1>2, <1>3
<1>5. Open(d, m - 1) \in Seq(S)
  BY <1>1, <1>4
<1>6. d[m] \in S
  BY <1>4
<1>7. Open(d, m) = After(Open(d, m - 1), d[m])
  BY <1>4, OpenSteps
<1> QED BY <1>2, <1>5, <1>6, <1>7, AfterTyped

\* One event more at the end changes nothing before it.
LEMMA OpenAppended ==
  ASSUME NEW S, NEW d \in Seq(S), NEW e \in S
  PROVE  /\ \A n \in 0..Len(d) : Open(Append(d, e), n) = Open(d, n)
         /\ OpenAfter(Append(d, e)) = After(OpenAfter(d), e)
<1>1. PICK a : a = Append(d, e)
  OBVIOUS
<1>2. /\ a \in Seq(S) /\ Len(a) = Len(d) + 1 /\ Len(d) \in Nat
      /\ a[Len(d) + 1] = e /\ \A i \in 1..Len(d) : a[i] = d[i]
  BY <1>1
<1>3. ASSUME NEW n \in 0..Len(d) PROVE Open(a, n) = Open(d, n)
  <2>1. SubSeq(a, 1, n) = SubSeq(d, 1, n)
    BY <1>2
  <2> QED BY <2>1 DEF Open
<1>4. OpenAfter(a) = After(Open(a, Len(d)), e)
  <2>1. Len(a) \in 1..Len(a) /\ Len(a) - 1 = Len(d)
    BY <1>2
  <2>2. Open(a, Len(a)) = After(Open(a, Len(a) - 1), a[Len(a)])
    BY <1>2, <2>1, OpenSteps
  <2> QED BY <1>2, <2>1, <2>2, OpenSteps
<1>5. Open(a, Len(d)) = OpenAfter(d)
  <2>1. Len(d) \in 0..Len(d)
    BY <1>2
  <2> QED BY <1>3, <2>1, OpenSteps
<1> QED BY <1>1, <1>3, <1>4, <1>5

LEMMA OwnRange == ASSUME NEW S, NEW s \in Seq(S) PROVE s \in Seq(Range(s))
<1>1. \A i \in 1..Len(s) : s[i] \in Range(s)
  BY DEF Range
<1>2. Len(s) \in Nat /\ s = [i \in 1..Len(s) |-> s[i]]
  OBVIOUS
<1> QED BY <1>1, <1>2

\* A name depends on the elements around it only.
LEMMA SameNames ==
  ASSUME NEW S, NEW p \in Seq(S), NEW q \in Seq(S), NEW n \in Nat, n <= Len(p), n <= Len(q),
         \A i \in 1..n : p[i].name = q[i].name /\ p[i].ns = q[i].ns
  PROVE  \A j \in 1..n : Names(p)[j] = Names(q)[j]
<1> SUFFICES ASSUME NEW j \in 1..n PROVE Names(p)[j] = Names(q)[j]
  OBVIOUS
<1>1. j \in DOMAIN p /\ j \in DOMAIN q
  OBVIOUS
<1>2. {p[i].ns : i \in 1..j} = {q[i].ns : i \in 1..j}
  <2>1. \A i \in 1..j : p[i].ns = q[i].ns
    OBVIOUS
  <2> QED BY <2>1
<1>3. Names(p)[j] = Convert(p[j].name, {p[i].ns : i \in 1..j})
  BY <1>1 DEF Names
<1>4. Names(q)[j] = Convert(q[j].name, {q[i].ns : i \in 1..j})
  BY <1>1 DEF Names
<1> QED BY <1>2, <1>3, <1>4

-----------------------------------------------------------------------------
Cut(open) == IF Len(open) > MaxDepth THEN MaxDepth ELSE Len(open)

\* The import's stack s, with b elements beyond it, is the path of open elements,
\* cut at the cap.
Shadows(s, b, open) ==
  /\ s \in Seq(Range(s)) /\ Len(s) = Cut(open) /\ b = Len(open) - Cut(open)
  /\ \A j \in 1..Len(s) :
       /\ s[j].name = Names(open)[j] /\ s[j].ns = open[j].ns /\ s[j].valid \in BOOLEAN
       /\ j > 1 => (s[j].valid <=> \A k \in 2..j : Names(open)[k] \in KnownAt(k))

LEMMA CutIs ==
  ASSUME NEW S, NEW open \in Seq(S)
  PROVE  /\ Cut(open) \in Nat /\ Cut(open) <= Len(open) /\ Len(open) \in Nat
         /\ Cut(open) <= MaxDepth /\ (Len(open) <= MaxDepth => Cut(open) = Len(open))
         /\ (Len(open) >= MaxDepth => Cut(open) = MaxDepth)
BY DepthAssumption DEF Cut

\* Nothing but the path up to the cap matters.
LEMMA ShadowsOther ==
  ASSUME NEW S, NEW open \in Seq(S), NEW other \in Seq(S), NEW s, NEW b, NEW c,
         Shadows(s, b, open), Cut(other) = Cut(open), c = Len(other) - Cut(other),
         \A j \in 1..Cut(open) : other[j] = open[j]
  PROVE  Shadows(s, c, other)
<1>1. /\ s \in Seq(Range(s)) /\ Len(s) = Cut(other)
      /\ Cut(open) \in Nat /\ Cut(open) <= Len(open) /\ Cut(open) <= Len(other)
  BY CutIs DEF Shadows
<1>2. \A j \in 1..Cut(open) : Names(other)[j] = Names(open)[j]
  BY <1>1, SameNames
<1>3. ASSUME NEW j \in 1..Len(s)
      PROVE  /\ s[j].name = Names(other)[j] /\ s[j].ns = other[j].ns /\ s[j].valid \in BOOLEAN
             /\ j > 1 => (s[j].valid <=> \A k \in 2..j : Names(other)[k] \in KnownAt(k))
  <2>1. j \in 1..Cut(open) /\ \A k \in 2..j : k \in 1..Cut(open)
    BY <1>1
  <2>2. /\ s[j].name = Names(open)[j] /\ s[j].ns = open[j].ns /\ s[j].valid \in BOOLEAN
        /\ j > 1 => (s[j].valid <=> \A k \in 2..j : Names(open)[k] \in KnownAt(k))
    BY <1>3 DEF Shadows
  <2>3. (\A k \in 2..j : Names(open)[k] \in KnownAt(k))
          <=> (\A k \in 2..j : Names(other)[k] \in KnownAt(k))
    BY <1>2, <2>1
  <2>4. s[j].name = Names(other)[j] /\ s[j].ns = other[j].ns
    BY <1>2, <2>1, <2>2
  <2> QED BY <2>2, <2>3, <2>4, Zenon
<1> QED BY <1>1, <1>3 DEF Shadows

\* push_name_and_namespaces
LEMMA ShadowsMore ==
  ASSUME NEW S, NEW open \in Seq(S), NEW e \in S, NEW s, Shadows(s, 0, open),
         Len(s) < MaxDepth, NEW v \in BOOLEAN, NEW name, NEW frame,
         frame = [name |-> name, ns |-> e.ns, valid |-> v],
         name = Convert(e.name, Scopes(s) \cup {e.ns}),
         v <=> /\ Len(s) + 1 >= 3 => Last(s).valid
               /\ name \in KnownAt(Len(s) + 1)
  PROVE  Shadows(Append(s, frame), 0, Append(open, e))
<1>1. PICK more, t, n : more = Append(open, e) /\ t = Append(s, frame) /\ n = Len(open)
  OBVIOUS
<1>2. /\ n \in Nat /\ Len(s) = n /\ n < MaxDepth /\ s \in Seq(Range(s)) /\ Cut(open) = n
  BY <1>1, CutIs, DepthAssumption DEF Shadows, Cut
<1>3. /\ more \in Seq(S) /\ Len(more) = n + 1 /\ more[n + 1] = e
      /\ \A j \in 1..n : more[j] = open[j]
  BY <1>1, <1>2
<1>4. /\ t \in Seq(Range(s) \cup {frame}) /\ Len(t) = n + 1 /\ t[n + 1] = frame
      /\ \A j \in 1..n : t[j] = s[j]
  <2>1. s \in Seq(Range(s) \cup {frame})
    BY <1>2
  <2> QED BY <1>1, <1>2, <2>1
<1>5. Cut(more) = n + 1
  BY <1>2, <1>3, DepthAssumption DEF Cut
<1>6. \A j \in 1..n : Names(more)[j] = Names(open)[j]
  <2>1. n \in Nat /\ n <= Len(more) /\ n <= Len(open)
    BY <1>1, <1>2, <1>3
  <2>2. \A i \in 1..n : more[i].name = open[i].name /\ more[i].ns = open[i].ns
    BY <1>3
  <2> QED BY <1>3, <2>1, <2>2, SameNames
<1>7. Names(more)[n + 1] = name
  <2>1. Names(more)[n + 1] = Convert(e.name, {more[i].ns : i \in 1..(n + 1)})
    <3>1. n + 1 \in DOMAIN more
      BY <1>2, <1>3
    <3> QED BY <1>3, <3>1 DEF Names
  <2>2. {more[i].ns : i \in 1..(n + 1)} = Scopes(s) \cup {e.ns}
    <3>1. \A i \in 1..n : more[i].ns = s[i].ns
      BY <1>2, <1>3 DEF Shadows
    <3>2. DOMAIN s = 1..n /\ 1..(n + 1) = (1..n) \cup {n + 1}
      BY <1>2
    <3>3. more[n + 1].ns = e.ns
      BY <1>3
    <3>4. Scopes(s) = {s[i].ns : i \in 1..n}
      BY <3>2 DEF Scopes
    <3>5. {more[i].ns : i \in 1..n} = {s[i].ns : i \in 1..n}
      BY <3>1
    <3> QED BY <3>2, <3>3, <3>4, <3>5
  <2> QED BY <2>1, <2>2
<1>8. ASSUME NEW j \in 1..n
      PROVE  /\ t[j].name = Names(more)[j] /\ t[j].ns = more[j].ns /\ t[j].valid \in BOOLEAN
             /\ j > 1 => (t[j].valid <=> \A k \in 2..j : Names(more)[k] \in KnownAt(k))
  <2>1. /\ s[j].name = Names(open)[j] /\ s[j].ns = open[j].ns /\ s[j].valid \in BOOLEAN
        /\ j > 1 => (s[j].valid <=> \A k \in 2..j : Names(open)[k] \in KnownAt(k))
    BY <1>2, <1>8 DEF Shadows
  <2>2. (\A k \in 2..j : Names(open)[k] \in KnownAt(k))
          <=> (\A k \in 2..j : Names(more)[k] \in KnownAt(k))
    BY <1>2, <1>6
  <2>3. t[j] = s[j] /\ more[j] = open[j] /\ Names(more)[j] = Names(open)[j]
    BY <1>3, <1>4, <1>6
  <2> QED BY <2>1, <2>2, <2>3, Zenon
<1>9. frame.name = name /\ frame.ns = e.ns /\ frame.valid = v
  OBVIOUS
<1>10. n + 1 > 1 => (v <=> \A k \in 2..(n + 1) : Names(more)[k] \in KnownAt(k))
  <2>1. CASE n = 1
    BY <1>2, <1>7, <2>1
  <2>2. CASE n > 1
    <3>1. s[n].valid <=> \A k \in 2..n : Names(open)[k] \in KnownAt(k)
      BY <1>2, <2>2 DEF Shadows
    <3>2. s[n].valid <=> \A k \in 2..n : Names(more)[k] \in KnownAt(k)
      <4>1. (\A k \in 2..n : Names(open)[k] \in KnownAt(k))
              <=> (\A k \in 2..n : Names(more)[k] \in KnownAt(k))
        BY <1>2, <1>6
      <4> QED BY <3>1, <4>1, Zenon
    <3>3. Len(s) + 1 >= 3 /\ Last(s) = s[n]
      BY <1>2, <2>2 DEF Last
    <3>4. v <=> (s[n].valid /\ name \in KnownAt(n + 1))
      BY <1>2, <3>3
    <3>5. (\A k \in 2..(n + 1) : Names(more)[k] \in KnownAt(k))
            <=> ((\A k \in 2..n : Names(more)[k] \in KnownAt(k)) /\ name \in KnownAt(n + 1))
      <4>1. 2..(n + 1) = (2..n) \cup {n + 1}
        BY <1>2, <2>2
      <4> QED BY <1>7, <4>1
    <3> QED BY <3>2, <3>4, <3>5, Zenon
  <2> QED BY <1>2, <2>1, <2>2
<1>11. t \in Seq(Range(t))
  BY <1>4, OwnRange
<1>12. ASSUME NEW j \in 1..Len(t)
       PROVE  /\ t[j].name = Names(more)[j] /\ t[j].ns = more[j].ns /\ t[j].valid \in BOOLEAN
              /\ j > 1 => (t[j].valid <=> \A k \in 2..j : Names(more)[k] \in KnownAt(k))
  <2>1. j \in 1..n \/ j = n + 1
    BY <1>2, <1>4
  <2>2. CASE j = n + 1
    <3>1. /\ t[j].name = Names(more)[j] /\ t[j].ns = more[j].ns /\ t[j].valid = v
      BY <1>3, <1>4, <1>7, <1>9, <2>2
    <3> QED BY <1>10, <2>2, <3>1, Zenon
  <2> QED BY <1>8, <2>1, <2>2
<1>13. 0 = Len(more) - Cut(more) /\ Len(t) = Cut(more)
  BY <1>2, <1>3, <1>4, <1>5
<1>14. Shadows(t, 0, more)
  BY <1>11, <1>12, <1>13, Zenon DEF Shadows
<1> QED BY <1>1, <1>14

\* pop
LEMMA ShadowsLess ==
  ASSUME NEW S, NEW open \in Seq(S), open # <<>>, NEW s, Shadows(s, 0, open)
  PROVE  /\ s # <<>> /\ Last(s).name = Convert(Last(open).name, Scopes(s))
         /\ Shadows(Front(s), 0, Front(open))
<1>1. PICK less, t, n : less = Front(open) /\ t = Front(s) /\ n = Len(open)
  OBVIOUS
<1>2. /\ n \in Nat \ {0} /\ Len(s) = n /\ n <= MaxDepth /\ s \in Seq(Range(s)) /\ Cut(open) = n
  BY <1>1, CutIs, DepthAssumption DEF Shadows, Cut
<1>3. /\ less \in Seq(S) /\ Len(less) = n - 1 /\ \A j \in 1..(n - 1) : less[j] = open[j]
  BY <1>1, <1>2 DEF Front
<1>4. /\ t \in Seq(Range(s)) /\ Len(t) = n - 1 /\ \A j \in 1..(n - 1) : t[j] = s[j]
  BY <1>1, <1>2 DEF Front
<1>5. Cut(less) = n - 1
  BY <1>2, <1>3, DepthAssumption DEF Cut
<1>6. \A j \in 1..(n - 1) : Names(less)[j] = Names(open)[j]
  <2>1. n - 1 \in Nat /\ n - 1 <= Len(less) /\ n - 1 <= Len(open)
    BY <1>1, <1>2, <1>3
  <2>2. \A i \in 1..(n - 1) : less[i].name = open[i].name /\ less[i].ns = open[i].ns
    BY <1>3
  <2>3. PICK m \in Nat : m = n - 1
    BY <2>1
  <2>4. \A j \in 1..m : Names(less)[j] = Names(open)[j]
    BY <1>3, <2>1, <2>2, <2>3, SameNames
  <2> QED BY <2>3, <2>4
<1>7. t \in Seq(Range(t))
  BY <1>4, OwnRange
<1>8. ASSUME NEW j \in 1..Len(t)
      PROVE  /\ t[j].name = Names(less)[j] /\ t[j].ns = less[j].ns /\ t[j].valid \in BOOLEAN
             /\ j > 1 => (t[j].valid <=> \A k \in 2..j : Names(less)[k] \in KnownAt(k))
  <2>0. j \in 1..(n - 1) /\ j \in 1..Len(s)
    BY <1>2, <1>4
  <2>1. /\ s[j].name = Names(open)[j] /\ s[j].ns = open[j].ns /\ s[j].valid \in BOOLEAN
        /\ j > 1 => (s[j].valid <=> \A k \in 2..j : Names(open)[k] \in KnownAt(k))
    BY <2>0 DEF Shadows
  <2>2. (\A k \in 2..j : Names(open)[k] \in KnownAt(k))
          <=> (\A k \in 2..j : Names(less)[k] \in KnownAt(k))
    BY <1>2, <1>6, <2>0
  <2>3. t[j] = s[j] /\ less[j] = open[j] /\ Names(less)[j] = Names(open)[j]
    BY <1>3, <1>4, <1>6, <2>0
  <2> QED BY <2>1, <2>2, <2>3, Zenon
<1>9. Shadows(t, 0, less)
  BY <1>2, <1>3, <1>4, <1>5, <1>7, <1>8 DEF Shadows
<1>10. s # <<>> /\ Last(s) = s[n] /\ Last(open) = open[n] /\ n \in DOMAIN open
  BY <1>1, <1>2 DEF Last
<1>11. s[n].name = Convert(open[n].name, Scopes(s))
  <2>1. s[n].name = Names(open)[n]
    BY <1>2 DEF Shadows
  <2>2. Names(open)[n] = Convert(open[n].name, {open[i].ns : i \in 1..n})
    BY <1>10 DEF Names
  <2>3. {open[i].ns : i \in 1..n} = Scopes(s)
    <3>1. \A i \in 1..n : s[i].ns = open[i].ns
      BY <1>2 DEF Shadows
    <3>2. DOMAIN s = 1..n
      BY <1>2
    <3> QED BY <3>1, <3>2 DEF Scopes
  <2> QED BY <2>1, <2>2, <2>3
<1> QED BY <1>1, <1>9, <1>10, <1>11

-----------------------------------------------------------------------------
\* A document whose ends match.
Proper(events) == events \in Seq(Range(events)) /\ WellFormed(events)

\* Reading the input that is being parsed.
Parses ==
  /\ Proper(Input) /\ pos \in 1..(Len(Input) + 1)
  /\ Shadows(stack, beyond, Open(Input, pos - 1))

\* What an event of the input is.
LEMMA EventTaken ==
  ASSUME Parses, NEW kind, Reads(kind)
  PROVE  /\ pos \in 1..Len(Input) /\ pos' = pos + 1 /\ Input' = Input /\ Event.kind = kind
         /\ Event \in Range(Input) /\ Open(Input, pos - 1) \in Seq(Range(Input))
         /\ Open(Input, pos) = After(Open(Input, pos - 1), Event)
         /\ kind = "end" => /\ Open(Input, pos - 1) # <<>>
                            /\ Last(Open(Input, pos - 1)).name = Event.name
<1>1. PICK d : d = Input
  OBVIOUS
<1>2. d \in Seq(Range(d)) /\ WellFormed(d) /\ Len(d) \in Nat /\ DOMAIN d = 1..Len(d)
  BY <1>1 DEF Parses, Proper
<1>3. pos \in 1..Len(d) /\ pos' = pos + 1 /\ Input' = Input /\ Event.kind = kind /\ Event = d[pos]
  BY <1>1, <1>2 DEF Reads, Input, Event, document
<1>4. pos - 1 \in 0..Len(d)
  BY <1>2, <1>3
<1>5. Open(d, pos - 1) \in Seq(Range(d))
  BY <1>2, <1>4, OpenTyped
<1>6. Open(d, pos) = After(Open(d, pos - 1), d[pos])
  BY <1>2, <1>3, OpenSteps
<1>7. kind = "end" => Open(d, pos - 1) # <<>> /\ Last(Open(d, pos - 1)).name = Event.name
  BY <1>2, <1>3 DEF WellFormed, Open
<1>8. Event \in Range(d)
  BY <1>2, <1>3 DEF Range
<1> QED BY <1>1, <1>3, <1>5, <1>6, <1>7, <1>8

\* Parsing goes on if the stack follows the path.
LEMMA ParsesOn ==
  ASSUME Parses, NEW kind, Reads(kind),
         Shadows(stack', beyond', After(Open(Input, pos - 1), Event))
  PROVE  Parses'
<1>1. /\ pos \in 1..Len(Input) /\ pos' = pos + 1 /\ Input' = Input
      /\ Open(Input, pos) = After(Open(Input, pos - 1), Event)
  BY EventTaken
<1>2. Proper(Input)' /\ pos' \in 1..(Len(Input') + 1)
  BY <1>1 DEF Parses, Proper
<1>3. Open(Input', pos' - 1) = Open(Input, pos)
  BY <1>1
<1>4. Shadows(stack', beyond', Open(Input', pos' - 1))
  BY <1>1, <1>3
<1> QED BY <1>2, <1>4 DEF Parses

LEMMA StartParses ==
  ASSUME Parses, StartElement
  PROVE  Parses'
<1>1. Reads("start")
  BY DEF StartElement, OpenTooDeep, OpenRoot, OpenRow, OpenKey, OpenMethod, OpenData,
         OpenAlgorithm, OpenStartKey, OpenDerivation, OpenText, OpenOther, Opens
<1>2. PICK S, open, e : S = Range(Input) /\ open = Open(Input, pos - 1) /\ e = Event
  OBVIOUS
<1>3. open \in Seq(S) /\ e \in S /\ After(open, e) = Append(open, e)
  BY <1>1, <1>2, EventTaken DEF After
<1>4. Shadows(stack, beyond, open)
  BY <1>2 DEF Parses
<1>5. CASE OpenTooDeep
  <2>1. TooDeep /\ stack' = stack /\ beyond' = beyond + 1
    BY <1>5 DEF OpenTooDeep
  <2>2. PICK more : more = Append(open, e)
    OBVIOUS
  <2>3. more \in Seq(S) /\ Len(more) = Len(open) + 1 /\ \A j \in 1..Len(open) : more[j] = open[j]
    BY <1>3, <2>2
  <2>4. Len(open) >= MaxDepth /\ Cut(open) \in Nat /\ Len(open) \in Nat
    BY <1>3, <1>4, <2>1, CutIs, DepthAssumption DEF TooDeep, Shadows, Cut
  <2>5. /\ Cut(more) = MaxDepth /\ Cut(open) = MaxDepth /\ MaxDepth \in Nat
        /\ beyond + 1 = Len(more) - Cut(more)
    BY <1>4, <2>3, <2>4, DepthAssumption DEF Cut, Shadows
  <2>6. \A j \in 1..Cut(open) : more[j] = open[j]
    BY <2>3, <2>4, <2>5
  <2>7. Shadows(stack, beyond + 1, more)
    BY <1>3, <1>4, <2>3, <2>5, <2>6, ShadowsOther
  <2> QED BY <1>1, <1>2, <1>3, <2>1, <2>2, <2>7, ParsesOn
<1>6. CASE Opens
  <2>1. PICK frame, name, v :
          /\ name = ElementName /\ v = (ParentValid /\ ElementName \in KnownAt(Level))
          /\ frame = [name |-> name, ns |-> e.ns, valid |-> v]
    BY Zenon
  <2>2. stack' = Append(stack, frame) /\ beyond' = beyond /\ ~TooDeep
    BY <1>2, <1>6, <2>1, Zenon DEF Opens
  <2>3. beyond \in Nat /\ Len(stack) \in Nat
    BY <1>3, <1>4, CutIs DEF Shadows
  <2>4. beyond = 0 /\ Len(stack) < MaxDepth
    BY <2>2, <2>3, DepthAssumption DEF TooDeep
  <2>5. name = Convert(e.name, Scopes(stack) \cup {e.ns})
    BY <1>2, <2>1 DEF ElementName
  <2>6. v \in BOOLEAN
    BY <2>1, Zenon
  <2>7. v <=> /\ Len(stack) + 1 >= 3 => Last(stack).valid
              /\ name \in KnownAt(Len(stack) + 1)
    BY <2>1, Zenon DEF ParentValid, Level
  <2>8. Shadows(stack, 0, open)
    BY <1>4, <2>4
  <2>9. Shadows(Append(stack, frame), 0, Append(open, e))
    BY <1>3, <2>1, <2>4, <2>5, <2>6, <2>7, <2>8, ShadowsMore, Zenon
  <2> QED BY <1>1, <1>2, <1>3, <2>2, <2>4, <2>9, ParsesOn
<1> QED BY <1>5, <1>6 DEF StartElement, OpenRoot, OpenRow, OpenKey, OpenMethod, OpenData,
        OpenAlgorithm, OpenStartKey, OpenDerivation, OpenText, OpenOther

LEMMA EndParses ==
  ASSUME Parses, EndElement
  PROVE  Parses'
<1>1. Reads("end")
  BY DEF EndElement, CloseNothing, CloseRow, CloseKey, CloseText, CloseOther, Closes
<1>2. PICK S, open, e : S = Range(Input) /\ open = Open(Input, pos - 1) /\ e = Event
  OBVIOUS
<1>3. /\ open \in Seq(S) /\ After(open, e) = Front(open)
      /\ open # <<>> /\ Last(open).name = e.name
  BY <1>1, <1>2, EventTaken DEF After
<1>4. Shadows(stack, beyond, open)
  BY <1>2 DEF Parses
<1>5. beyond \in Nat
  BY <1>3, <1>4, CutIs DEF Shadows
<1>6. CASE beyond > 0
  <2>1. stack' = stack /\ beyond' = beyond - 1
    BY <1>6 DEF EndElement, CloseNothing, CloseRow, CloseKey, CloseText, CloseOther, Closes
  <2>2. PICK less : less = Front(open)
    OBVIOUS
  <2>3. Len(open) \in Nat /\ Len(open) > MaxDepth /\ Cut(open) = MaxDepth
    BY <1>3, <1>4, <1>6, CutIs, DepthAssumption DEF Shadows, Cut
  <2>4. less \in Seq(S) /\ Len(less) = Len(open) - 1 /\ \A j \in 1..(Len(open) - 1) : less[j] = open[j]
    BY <1>3, <2>2, <2>3, DepthAssumption DEF Front
  <2>5. /\ Cut(less) = MaxDepth /\ MaxDepth \in Nat
        /\ beyond - 1 = Len(less) - Cut(less)
    <3>1. beyond = Len(open) - Cut(open)
      BY <1>4 DEF Shadows
    <3>2. MaxDepth \in Nat /\ Len(less) >= MaxDepth
      BY <2>3, <2>4, DepthAssumption
    <3>3. Cut(less) = MaxDepth
      BY <2>3, <2>4, <3>2 DEF Cut
    <3> QED BY <2>3, <2>4, <3>1, <3>2, <3>3
  <2>6. \A j \in 1..Cut(open) : less[j] = open[j]
    BY <2>3, <2>4, <2>5
  <2>7. Shadows(stack, beyond - 1, less)
    BY <1>3, <1>4, <2>3, <2>4, <2>5, <2>6, ShadowsOther
  <2> QED BY <1>1, <1>2, <1>3, <2>1, <2>2, <2>7, ParsesOn
<1>7. CASE beyond = 0
  <2>1. /\ stack # <<>> /\ Last(stack).name = Convert(e.name, Scopes(stack))
        /\ Shadows(Front(stack), 0, Front(open))
    BY <1>3, <1>4, <1>7, ShadowsLess
  <2>2. Matches
    BY <1>2, <2>1 DEF Matches, Top, EndName
  <2>3. stack' = Front(stack) /\ beyond' = beyond
    BY <1>7, <2>2 DEF EndElement, CloseNothing, CloseRow, CloseKey, CloseText, CloseOther, Closes
  <2> QED BY <1>1, <1>2, <1>3, <1>7, <2>1, <2>3, ParsesOn
<1> QED BY <1>5, <1>6, <1>7

LEMMA TextParses == ASSUME Parses, Characters PROVE Parses'
<1>1. Reads("text") /\ stack' = stack /\ beyond' = beyond
  BY DEF Characters, elements
<1>2. After(Open(Input, pos - 1), Event) = Open(Input, pos - 1)
  BY <1>1, EventTaken DEF After
<1>3. Shadows(stack', beyond', After(Open(Input, pos - 1), Event))
  BY <1>1, <1>2 DEF Parses
<1> QED BY <1>1, <1>3, ParsesOn

-----------------------------------------------------------------------------
\* strip_manifest's rewriting: what it has written is proper, and has open what the
\* source has open, but for the elements it is skipping.
Strips ==
  /\ pos \in 1..(Len(source) + 1) /\ Proper(rewritten) /\ skipDepth \in Nat
  /\ Len(Open(source, pos - 1)) = Len(OpenAfter(rewritten)) + skipDepth
  /\ \A j \in 1..Len(OpenAfter(rewritten)) :
       /\ OpenAfter(rewritten)[j].name = Open(source, pos - 1)[j].name
       /\ OpenAfter(rewritten)[j].ns = Open(source, pos - 1)[j].ns

LEMMA SourceProper ==
  ASSUME source \in Documents
  PROVE  /\ Proper(source)
         /\ \A e \in Range(source) :
              e.kind = "start" => {"kind", "name", "ns", "attrs"} \subseteq DOMAIN e
BY DocumentAssumption DEF Proper, ElementShape

\* without_size changes neither what an event is nor its name.
LEMMA SizeOnly ==
  ASSUME NEW e, e.kind = "start" => {"kind", "name", "ns", "attrs"} \subseteq DOMAIN e
  PROVE  /\ WithoutSize(e).kind = e.kind
         /\ e.kind = "start" => WithoutSize(e).name = e.name /\ WithoutSize(e).ns = e.ns
         /\ e.kind # "start" => WithoutSize(e) = e
<1>1. CASE e.kind = "start"
  <2> DEFINE w == WithoutSize(e)
  <2>1. w.kind = e.kind /\ w.name = e.name /\ w.ns = e.ns
    BY <1>1 DEF WithoutSize
  <2> QED BY <1>1, <2>1
<1>2. CASE e.kind # "start"
  BY <1>2 DEF WithoutSize
<1> QED BY <1>1, <1>2

LEMMA StripParses ==
  ASSUME Strips, Proper(source), KeepEvent \/ BeginSkip \/ SkipEvent,
         \A e \in Range(source) :
            e.kind = "start" => {"kind", "name", "ns", "attrs"} \subseteq DOMAIN e
  PROVE  Strips'
<1>1. PICK S, o, e, kept :
        /\ S = Range(source) /\ o = Open(source, pos - 1) /\ e = source[pos]
        /\ kept = OpenAfter(rewritten)
  OBVIOUS
<1>2. /\ pos' = pos + 1 /\ source' = source /\ pos \in 1..Len(source) /\ Len(source) \in Nat
      /\ source \in Seq(S) /\ e = Original /\ e \in S
  <2>1. pos \in DOMAIN source /\ source \in Seq(S)
    BY <1>1 DEF KeepEvent, BeginSkip, SkipEvent, Rewrites, Proper
  <2>2. DOMAIN source = 1..Len(source) /\ Len(source) \in Nat
    BY <2>1
  <2>3. e \in S
    BY <1>1, <2>1 DEF Range
  <2> QED BY <1>1, <2>1, <2>2, <2>3 DEF KeepEvent, BeginSkip, SkipEvent, Rewrites, Original, document
<1>3. /\ o \in Seq(S) /\ Open(source, pos) = After(o, e)
      /\ Len(o) \in Nat /\ Open(source, pos) \in Seq(S)
  <2>1. pos - 1 \in 0..Len(source) /\ pos \in 0..Len(source)
    BY <1>2
  <2>2. o \in Seq(S) /\ Open(source, pos) \in Seq(S)
    BY <1>1, <1>2, <2>1, OpenTyped
  <2>3. Open(source, pos) = After(o, e)
    BY <1>1, <1>2, OpenSteps
  <2> QED BY <2>2, <2>3
<1>4. /\ rewritten \in Seq(Range(rewritten)) /\ kept \in Seq(Range(rewritten)) /\ Len(kept) \in Nat
      /\ WellFormed(rewritten) /\ DOMAIN rewritten = 1..Len(rewritten) /\ Len(rewritten) \in Nat
  <2>1. rewritten \in Seq(Range(rewritten)) /\ WellFormed(rewritten)
    BY DEF Strips, Proper
  <2>2. Len(rewritten) \in 0..Len(rewritten)
    BY <2>1
  <2>3. kept \in Seq(Range(rewritten))
    BY <1>1, <2>1, <2>2, OpenTyped, OpenSteps
  <2> QED BY <2>1, <2>3
<1>5. /\ skipDepth \in Nat /\ Len(o) = Len(kept) + skipDepth
      /\ \A j \in 1..Len(kept) : kept[j].name = o[j].name /\ kept[j].ns = o[j].ns
  BY <1>1 DEF Strips
<1>6. e.kind = "end" => o # <<>> /\ Last(o).name = e.name
  <2>1. pos \in DOMAIN source /\ WellFormed(source)
    BY <1>2 DEF Proper
  <2>2. source[pos].kind = "end" =>
          Open(source, pos - 1) # <<>> /\ Last(Open(source, pos - 1)).name = source[pos].name
    BY <2>1, Zenon DEF WellFormed, Open
  <2> QED BY <1>1, <2>2
<1>7. CASE KeepEvent
  <2>1. PICK w : w = WithoutSize(e)
    OBVIOUS
  <2>2. /\ rewritten' = Append(rewritten, w) /\ skipDepth' = 0 /\ skipDepth = 0
        /\ w.kind = e.kind /\ (e.kind = "start" => w.name = e.name /\ w.ns = e.ns)
        /\ (e.kind # "start" => w = e)
    BY <1>1, <1>2, <1>7, <2>1, SizeOnly DEF KeepEvent
  <2>3. PICK T, a : T = Range(rewritten) \cup {w} /\ a = Append(rewritten, w)
    OBVIOUS
  <2>4. /\ rewritten \in Seq(T) /\ w \in T /\ kept \in Seq(T)
        /\ a \in Seq(T) /\ Len(a) = Len(rewritten) + 1 /\ a[Len(rewritten) + 1] = w
        /\ \A i \in 1..Len(rewritten) : a[i] = rewritten[i]
    BY <1>4, <2>3
  <2>5. /\ \A n \in 0..Len(rewritten) : Open(a, n) = Open(rewritten, n)
        /\ OpenAfter(a) = After(kept, w)
    BY <1>1, <2>3, <2>4, OpenAppended
  <2>6. Open(rewritten, Len(rewritten)) = kept
    BY <1>1, <1>4, OpenSteps
  <2>7. Len(o) = Len(kept)
    BY <1>3, <1>4, <1>5, <2>2
  <2>8. e.kind = "end" => kept # <<>> /\ Last(kept).name = e.name
    <3> SUFFICES ASSUME e.kind = "end" PROVE kept # <<>> /\ Last(kept).name = e.name
      OBVIOUS
    <3>1. Len(o) \in 1..Len(kept) /\ kept # <<>>
      BY <1>3, <1>4, <1>6, <2>7
    <3> QED BY <1>5, <1>6, <2>7, <3>1 DEF Last
  <2>9. WellFormed(a)
    <3> SUFFICES ASSUME NEW i \in DOMAIN a, a[i].kind = "end"
                 PROVE  Open(a, i - 1) # <<>> /\ Last(Open(a, i - 1)).name = a[i].name
      BY DEF WellFormed, Open
    <3>1. i \in 1..(Len(rewritten) + 1) /\ i - 1 \in 0..Len(rewritten)
      BY <1>4, <2>4
    <3>2. Open(a, i - 1) = Open(rewritten, i - 1)
      BY <2>5, <3>1
    <3>3. CASE i = Len(rewritten) + 1
      <4>1. Open(a, i - 1) = kept /\ a[i] = w
        BY <1>4, <2>4, <2>6, <3>2, <3>3
      <4>2. e.kind = "end" /\ w = e
        BY <2>2, <4>1
      <4> QED BY <2>8, <4>1, <4>2
    <3>4. CASE i \in 1..Len(rewritten)
      <4>1. a[i] = rewritten[i] /\ i \in DOMAIN rewritten
        BY <1>4, <2>4, <3>4
      <4> QED BY <1>4, <3>2, <4>1 DEF WellFormed, Open
    <3> QED BY <1>4, <3>1, <3>3, <3>4
  <2>10. Proper(rewritten)'
    <3>1. a \in Seq(Range(a))
      BY <2>4, OwnRange
    <3> QED BY <2>2, <2>3, <2>9, <3>1 DEF Proper
  <2>11. /\ Len(After(o, e)) = Len(After(kept, w))
         /\ \A j \in 1..Len(After(kept, w)) : /\ After(kept, w)[j].name = After(o, e)[j].name
                                              /\ After(kept, w)[j].ns = After(o, e)[j].ns
    <3>1. CASE e.kind = "start"
      <4>1. After(o, e) = Append(o, e) /\ After(kept, w) = Append(kept, w) /\ w.name = e.name /\ w.ns = e.ns
        BY <2>2, <3>1 DEF After
      <4>2. PICK p, q, n : p = Append(o, e) /\ q = Append(kept, w) /\ n = Len(kept)
        OBVIOUS
      <4>3. /\ Len(p) = n + 1 /\ Len(q) = n + 1 /\ p[n + 1] = e /\ q[n + 1] = w /\ n \in Nat
            /\ \A j \in 1..n : p[j] = o[j] /\ q[j] = kept[j]
        BY <1>2, <1>3, <1>4, <2>4, <2>7, <4>2
      <4>4. \A j \in 1..(n + 1) : q[j].name = p[j].name /\ q[j].ns = p[j].ns
        BY <1>5, <4>1, <4>2, <4>3
      <4> QED BY <4>1, <4>2, <4>3, <4>4
    <3>2. CASE e.kind = "end"
      <4>1. After(o, e) = Front(o) /\ After(kept, w) = Front(kept) /\ o # <<>> /\ kept # <<>>
        BY <1>6, <2>2, <2>8, <3>2 DEF After
      <4>2. PICK p, q, n : p = Front(o) /\ q = Front(kept) /\ n = Len(kept)
        OBVIOUS
      <4>3. /\ Len(p) = n - 1 /\ Len(q) = n - 1 /\ n \in Nat \ {0}
            /\ \A j \in 1..(n - 1) : p[j] = o[j] /\ q[j] = kept[j]
        BY <1>3, <1>4, <2>7, <4>1, <4>2 DEF Front
      <4>4. \A j \in 1..(n - 1) : q[j].name = p[j].name /\ q[j].ns = p[j].ns
        BY <1>5, <4>2, <4>3
      <4> QED BY <4>1, <4>2, <4>3, <4>4
    <3>3. CASE e.kind \notin {"start", "end"}
      <4>1. After(o, e) = o /\ After(kept, w) = kept
        BY <2>2, <3>3 DEF After
      <4> QED BY <1>5, <2>7, <4>1
    <3> QED BY <3>1, <3>2, <3>3
  <2>12. Open(source', pos' - 1) = After(o, e) /\ OpenAfter(rewritten') = After(kept, w)
    BY <1>2, <1>3, <2>2, <2>3, <2>5
  <2>13. Len(After(kept, w)) \in Nat
    <3>1. After(kept, w) \in Seq(T)
      BY <2>4, AfterTyped
    <3> QED BY <3>1
  <2> QED BY <1>2, <2>2, <2>10, <2>11, <2>12, <2>13 DEF Strips
<1>8. ASSUME rewritten' = rewritten, skipDepth' \in Nat,
             Len(After(o, e)) = Len(kept) + skipDepth',
             \A j \in 1..Len(kept) : After(o, e)[j] = o[j]
      PROVE  Strips'
  <2>1. Open(source', pos' - 1) = After(o, e) /\ OpenAfter(rewritten') = kept
    BY <1>1, <1>2, <1>3, <1>8
  <2>2. pos' \in 1..(Len(source') + 1) /\ Proper(rewritten)'
    BY <1>2, <1>8 DEF Strips, Proper
  <2>3. \A j \in 1..Len(kept) : kept[j].name = After(o, e)[j].name /\ kept[j].ns = After(o, e)[j].ns
    BY <1>5, <1>8
  <2> QED BY <1>8, <2>1, <2>2, <2>3 DEF Strips
<1>9. PICK more, less : more = Append(o, e) /\ less = Front(o)
  OBVIOUS
<1>10. Len(more) = Len(o) + 1 /\ \A j \in 1..Len(o) : more[j] = o[j]
  BY <1>2, <1>3, <1>9
<1>11. o # <<>> => Len(less) = Len(o) - 1 /\ \A j \in 1..(Len(o) - 1) : less[j] = o[j]
  <2> SUFFICES ASSUME o # <<>>
               PROVE  Len(less) = Len(o) - 1 /\ \A j \in 1..(Len(o) - 1) : less[j] = o[j]
    OBVIOUS
  <2>1. Len(o) \in Nat \ {0} /\ less = SubSeq(o, 1, Len(o) - 1)
    BY <1>3, <1>9 DEF Front
  <2>2. PICK m : m = Len(o) - 1
    OBVIOUS
  <2>3. m \in 0..Len(o)
    BY <2>1, <2>2
  <2>4. Len(SubSeq(o, 1, m)) = m /\ \A j \in 1..m : SubSeq(o, 1, m)[j] = o[j]
    BY <1>3, <2>3
  <2> QED BY <2>1, <2>2, <2>4
<1>12. CASE BeginSkip
  <2>1. e.kind = "start" /\ skipDepth = 0 /\ skipDepth' = 1 /\ rewritten' = rewritten
    BY <1>2, <1>12 DEF BeginSkip, IsEncryptionData
  <2>2. After(o, e) = more
    BY <1>9, <2>1 DEF After
  <2> QED BY <1>3, <1>4, <1>5, <1>8, <1>10, <2>1, <2>2
<1>13. CASE SkipEvent
  <2>1. /\ skipDepth > 0 /\ rewritten' = rewritten
        /\ skipDepth' = CASE e.kind = "start" -> skipDepth + 1
                          [] e.kind = "end"   -> skipDepth - 1
                          [] OTHER            -> skipDepth
    BY <1>2, <1>13 DEF SkipEvent
  <2>2. CASE e.kind = "start"
    <3>1. After(o, e) = more /\ skipDepth' = skipDepth + 1
      BY <1>9, <2>1, <2>2 DEF After
    <3> QED BY <1>3, <1>4, <1>5, <1>8, <1>10, <2>1, <3>1
  <2>3. CASE e.kind = "end"
    <3>1. After(o, e) = less /\ skipDepth' = skipDepth - 1 /\ o # <<>>
      BY <1>6, <1>9, <2>1, <2>3 DEF After
    <3>2. Len(less) = Len(o) - 1 /\ \A j \in 1..Len(kept) : less[j] = o[j]
      BY <1>3, <1>4, <1>5, <1>11, <2>1, <3>1
    <3> QED BY <1>3, <1>4, <1>5, <1>8, <2>1, <3>1, <3>2
  <2>4. CASE e.kind \notin {"start", "end"}
    <3>1. After(o, e) = o /\ skipDepth' = skipDepth
      BY <2>1, <2>4 DEF After
    <3> QED BY <1>5, <1>8, <2>1, <3>1
  <2> QED BY <2>2, <2>3, <2>4
<1> QED BY <1>7, <1>12, <1>13

-----------------------------------------------------------------------------
\* What the import and the rewriting are about while each is at work, and which
\* fate a manifest has met by then.
Inv ==
  /\ source \in Documents /\ phase \in {"source", "rewriting", "rebuilt", "done"}
  /\ phase \in {"source", "rebuilt"} => Parses
  /\ phase = "rewriting" => Strips
  /\ phase = "source" => fate = "none" /\ before = <<>> /\ rewritten = <<>> /\ skipDepth = 0
  /\ phase \in {"rewriting", "rebuilt"} => fate = "whole"
  /\ AllOrNothing

LEMMA NothingShadows == Shadows(<<>>, 0, <<>>)
<1>1. <<>> \in Seq(Range(<<>>)) /\ Len(<<>>) = 0 /\ Cut(<<>>) = 0
  BY DepthAssumption DEF Cut
<1> QED BY <1>1 DEF Shadows

\* A parse begins.
LEMMA ParseBegins ==
  ASSUME NEW d, Proper(d)
  PROVE  1 \in 1..(Len(d) + 1) /\ Open(d, 1 - 1) = <<>> /\ Len(d) \in Nat
<1>1. d \in Seq(Range(d))
  BY DEF Proper
<1> QED BY <1>1, OpenSteps

LEMMA InvAtFirst == Init => Inv
<1> SUFFICES ASSUME Init PROVE Inv
  OBVIOUS
<1>1. /\ source \in Documents /\ phase = "source" /\ pos = 1 /\ fate = "none" /\ stack = <<>>
      /\ beyond = 0 /\ before = <<>> /\ rewritten = <<>> /\ skipDepth = 0
  BY DEF Init
<1>2. Proper(source) /\ Input = source
  BY <1>1, SourceProper DEF Input
<1>3. Parses
  BY <1>1, <1>2, ParseBegins, NothingShadows DEF Parses
<1>4. AllOrNothing
  BY <1>1 DEF AllOrNothing
<1> QED BY <1>1, <1>3, <1>4 DEF Inv

\* The reader's events.
LEMMA ReadStep ==
  ASSUME Inv, StartElement \/ EndElement \/ Characters
  PROVE  Inv'
<1>1. \E kind : Reads(kind)
  BY DEF StartElement, OpenTooDeep, OpenRoot, OpenRow, OpenKey, OpenMethod, OpenData,
         OpenAlgorithm, OpenStartKey, OpenDerivation, OpenText, OpenOther, Opens, EndElement,
         CloseNothing, CloseRow, CloseKey, CloseText, CloseOther, Closes, Characters
<1>2. phase \in {"source", "rebuilt"} /\ UNCHANGED <<source, phase, fate, before, rewritten, skipDepth>>
  BY <1>1 DEF Reads, document
<1>3. Parses'
  BY <1>2, StartParses, EndParses, TextParses DEF Inv
<1>4. fate' \in {"none", "whole"}
  BY <1>2 DEF Inv
<1>5. AllOrNothing'
  BY <1>4 DEF AllOrNothing
<1> QED BY <1>2, <1>3, <1>5 DEF Inv

\* Where the source ends.
LEMMA SourceEnds ==
  ASSUME Inv, Malformed \/ CutShort \/ EndOfSource
  PROVE  Inv'
<1>1. /\ phase = "source" /\ source' = source /\ before = <<>> /\ rewritten = <<>>
      /\ UNCHANGED <<rewritten, skipDepth>> /\ skipDepth = 0
      /\ source \in Documents /\ Parses /\ Input = source
  BY DEF Malformed, CutShort, EndOfSource, Inv, document, Input
<1>2. CASE Malformed
  <2>1. phase' = "done" /\ fate' = "malformed" /\ bags' = <<>> /\ before' = <<>>
    BY <1>1, <1>2 DEF Malformed
  <2> QED BY <1>1, <2>1 DEF Inv, AllOrNothing
<1>3. CASE CutShort
  <2>1. /\ phase' = "done" /\ fate' = "cut" /\ bags' = Returned /\ before' = Returned
        /\ pos' = pos
    BY <1>3 DEF CutShort
  <2>2. OpenAfter(SubSeq(source, 1, pos - 1)) # <<>> => Returned = <<>>
    <3>1. PICK open : open = Open(source, pos - 1)
      OBVIOUS
    <3>2. Proper(source) /\ pos - 1 \in 0..Len(source) /\ Shadows(stack, beyond, open)
      BY <1>1, <3>1 DEF Parses, Proper
    <3>3. open \in Seq(Range(source))
      BY <3>1, <3>2, OpenTyped DEF Proper
    <3>4. open # <<>> => stack # <<>>
      <4>1. open # <<>> => Len(open) > 0
        BY <3>3
      <4>2. Len(open) > 0 => Cut(open) > 0
        BY <3>3, DepthAssumption DEF Cut
      <4>3. Len(stack) = Cut(open)
        BY <3>2 DEF Shadows
      <4> QED BY <4>1, <4>2, <4>3
    <3> QED BY <3>1, <3>4 DEF Open, Returned
  <2> QED BY <1>1, <2>1, <2>2 DEF Inv, AllOrNothing
<1>4. CASE EndOfSource
  <2>1. phase' \in {"rewriting", "done"} /\ fate' = "whole" /\ pos' = 1
    BY <1>4 DEF EndOfSource
  <2>2. Proper(source)
    BY <1>1, SourceProper
  <2>3. Strips'
    <3>1. Proper(<<>>) /\ OpenAfter(<<>>) = <<>> /\ Len(<<>>) = 0
      <4>1. <<>> \in Seq(Range(<<>>)) /\ DOMAIN <<>> = {} /\ Len(<<>>) = 0
        OBVIOUS
      <4>2. Open(<<>>, 0) = <<>> /\ Open(<<>>, Len(<<>>)) = OpenAfter(<<>>)
        BY <4>1, OpenSteps
      <4> QED BY <4>1, <4>2 DEF Proper, WellFormed
    <3>2. Open(source, 1 - 1) = <<>> /\ 1 \in 1..(Len(source) + 1)
      BY <2>2, ParseBegins
    <3> QED BY <1>1, <2>1, <3>1, <3>2 DEF Strips
  <2>4. AllOrNothing'
    BY <2>1 DEF AllOrNothing
  <2> QED BY <1>1, <2>1, <2>3, <2>4 DEF Inv
<1> QED BY <1>2, <1>3, <1>4

LEMMA StripStep ==
  ASSUME Inv, Strip
  PROVE  Inv'
<1>1. /\ phase = "rewriting" /\ source' = source /\ UNCHANGED fate
      /\ source \in Documents /\ Strips /\ fate = "whole"
  BY DEF Strip, KeepEvent, BeginSkip, SkipEvent, Rewrites, Reopen, document, Inv
<1>2. AllOrNothing'
  BY <1>1 DEF AllOrNothing
<1>3. CASE KeepEvent \/ BeginSkip \/ SkipEvent
  <2>1. phase' = phase
    BY <1>3 DEF KeepEvent, BeginSkip, SkipEvent, Rewrites
  <2>2. Strips'
    BY <1>1, <1>3, StripParses, SourceProper
  <2> QED BY <1>1, <1>2, <2>1, <2>2 DEF Inv
<1>4. CASE Reopen
  <2>1. phase' = "rebuilt" /\ pos' = 1 /\ stack' = <<>> /\ beyond' = 0 /\ rewritten' = rewritten
    BY <1>4 DEF Reopen
  <2>2. Input' = rewritten /\ Proper(rewritten)
    BY <1>1, <2>1 DEF Input, Strips
  <2>3. Proper(Input)'
    BY <2>2 DEF Proper
  <2>4. Parses'
    BY <2>1, <2>2, <2>3, ParseBegins, NothingShadows DEF Parses
  <2> QED BY <1>1, <1>2, <2>1, <2>4 DEF Inv
<1> QED BY <1>3, <1>4 DEF Strip

LEMMA InvStep == Inv /\ [Next]_vars => Inv'
<1> SUFFICES ASSUME Inv, [Next]_vars PROVE Inv'
  OBVIOUS
<1>1. CASE EndOfRebuilt
  <2>1. phase' = "done" /\ phase = "rebuilt" /\ UNCHANGED <<source, fate>>
    BY <1>1 DEF EndOfRebuilt, document
  <2>2. AllOrNothing'
    BY <2>1 DEF Inv, AllOrNothing
  <2> QED BY <2>1, <2>2 DEF Inv
<1>2. CASE Done \/ UNCHANGED vars
  <2>1. UNCHANGED vars
    BY <1>2 DEF Done
  <2>2. Parses' = Parses
    BY <2>1 DEF vars, Parses, Input, Proper, WellFormed, Shadows
  <2>3. Strips' = Strips
    BY <2>1 DEF vars, Strips, Proper
  <2> QED BY <2>1, <2>2, <2>3 DEF vars, Inv, AllOrNothing
<1> QED BY <1>1, <1>2, ReadStep, SourceEnds, StripStep DEF Next

LEMMA Always == Spec => []Inv
BY InvAtFirst, InvStep, PTL DEF Spec

-----------------------------------------------------------------------------
\* end_element keeps the stack the path of open elements, cut at MAX_DEPTH, under
\* the names those have in the document, whatever it declares on the way, when the
\* source is parsed and when the manifest strip_manifest has left is.
THEOREM TheStackIsThePath == Spec => []StackIsPath
<1>1. Inv => StackIsPath
  <2> SUFFICES ASSUME Inv, phase \in {"source", "rebuilt"} PROVE StackIsPath
    BY DEF StackIsPath
  <2>1. PICK open, names : open = Open(Input, pos - 1) /\ names = Names(open)
    OBVIOUS
  <2>2. Shadows(stack, beyond, open)
    BY <2>1 DEF Inv, Parses
  <2>3. /\ Len(stack) = Cut(open) /\ beyond = Len(open) - Cut(open)
        /\ \A j \in 1..Len(stack) :
             /\ stack[j].name = names[j]
             /\ j > 1 => (stack[j].valid <=> \A k \in 2..j : names[k] \in KnownAt(k))
    BY <2>1, <2>2, Zenon DEF Shadows
  <2> QED BY <2>1, <2>3, Zenon DEF StackIsPath, Open, Cut
<1> QED BY <1>1, Always, PTL

\* A manifest that is malformed anywhere, or cut off inside an element, has no rows.
THEOREM AllOrNothingAlways == Spec => []AllOrNothing
<1>1. Inv => AllOrNothing
  BY DEF Inv
<1> QED BY <1>1, Always, PTL

-----------------------------------------------------------------------------
(***************************************************************************)
(* The rows of the source, as its outline tells them.                      *)
(***************************************************************************)
Outlined ==
  /\ source \in Documents
  /\ outline = [i \in DOMAIN source |-> Names(OpenAfter(SubSeq(source, 1, i)))]

Depth(n) == Len(Open(source, n))
Trail(n) == Names(Open(source, n))

LEMMA Documented ==
  ASSUME source \in Documents
  PROVE  /\ source \in Seq(Range(source)) /\ Len(source) \in Nat /\ DOMAIN source = 1..Len(source)
         /\ WellFormed(source) /\ Depth(0) = 0 /\ Depth(Len(source)) = 0
         /\ \A n \in 0..Len(source) : Open(source, n) \in Seq(Range(source)) /\ Depth(n) \in Nat
<1>1. source \in Seq(Range(source)) /\ WellFormed(source) /\ OpenAfter(source) = <<>>
  BY DocumentAssumption
<1>2. Open(source, 0) = <<>> /\ Open(source, Len(source)) = <<>>
  BY <1>1, OpenSteps
<1>3. ASSUME NEW n \in 0..Len(source)
      PROVE  Open(source, n) \in Seq(Range(source)) /\ Depth(n) \in Nat
  <2>1. Open(source, n) \in Seq(Range(source))
    BY <1>1, OpenTyped
  <2> QED BY <2>1 DEF Depth
<1>4. Len(source) \in Nat /\ DOMAIN source = 1..Len(source)
  BY <1>1
<1>5. Depth(0) = 0 /\ Depth(Len(source)) = 0
  BY <1>2 DEF Depth
<1> QED BY <1>1, <1>3, <1>4, <1>5

\* What one event does to the depth, and what it leaves of the path.
LEMMA Moves ==
  ASSUME source \in Documents, NEW n \in 1..Len(source)
  PROVE  /\ Open(source, n) = After(Open(source, n - 1), source[n])
         /\ source[n].kind = "start" => Depth(n) = Depth(n - 1) + 1 /\ Open(source, n)[Depth(n)] = source[n]
         /\ source[n].kind = "end" => Depth(n - 1) > 0 /\ Depth(n) = Depth(n - 1) - 1
         /\ source[n].kind \notin {"start", "end"} =>
              Open(source, n) = Open(source, n - 1) /\ Depth(n) = Depth(n - 1) /\ Trail(n) = Trail(n - 1)
         /\ \A j \in 1..Depth(n) : j <= Depth(n - 1) =>
              /\ Open(source, n)[j] = Open(source, n - 1)[j]
              /\ Trail(n)[j] = Trail(n - 1)[j]
<1>1. PICK S, o, p, e : /\ S = Range(source) /\ o = Open(source, n - 1) /\ p = Open(source, n)
                        /\ e = source[n]
  OBVIOUS
<1>2. n - 1 \in 0..Len(source) /\ n \in 0..Len(source) /\ n \in DOMAIN source /\ Len(source) \in Nat
  BY Documented
<1>3. /\ source \in Seq(S) /\ o \in Seq(S) /\ p \in Seq(S) /\ Len(o) \in Nat /\ Len(p) \in Nat
      /\ Depth(n - 1) = Len(o) /\ Depth(n) = Len(p) /\ WellFormed(source)
  BY <1>1, <1>2, Documented DEF Depth
<1>4. p = After(o, e) /\ e \in S
  BY <1>1, <1>2, <1>3, OpenSteps
<1>5. e.kind = "end" => o # <<>>
  BY <1>1, <1>2, <1>3 DEF WellFormed, Open
<1>6. e.kind = "start" => Len(p) = Len(o) + 1 /\ p[Len(p)] = e
  BY <1>3, <1>4 DEF After
<1>7. e.kind = "end" => Len(o) > 0 /\ Len(p) = Len(o) - 1
  <2> SUFFICES ASSUME e.kind = "end" PROVE Len(o) > 0 /\ Len(p) = Len(o) - 1
    OBVIOUS
  <2>1. p = SubSeq(o, 1, Len(o) - 1) /\ Len(o) > 0
    BY <1>3, <1>4, <1>5 DEF After, Front
  <2> QED BY <1>3, <2>1
<1>8. e.kind \notin {"start", "end"} => p = o
  BY <1>4 DEF After
<1>9. \A j \in 1..Len(p) : j <= Len(o) => p[j] = o[j]
  <2>1. CASE e.kind = "start"
    BY <1>3, <1>4, <2>1 DEF After
  <2>2. CASE e.kind = "end"
    <3>1. p = SubSeq(o, 1, Len(o) - 1) /\ Len(o) > 0
      BY <1>3, <1>4, <1>5, <2>2 DEF After, Front
    <3> QED BY <1>3, <3>1
  <2>3. CASE e.kind \notin {"start", "end"}
    BY <1>8, <2>3
  <2> QED BY <2>1, <2>2, <2>3
<1>10. \A j \in 1..Len(p) : j <= Len(o) => Names(p)[j] = Names(o)[j]
  <2> SUFFICES ASSUME NEW j \in 1..Len(p), j <= Len(o) PROVE Names(p)[j] = Names(o)[j]
    OBVIOUS
  <2>1. j \in Nat /\ j \in 1..j /\ \A i \in 1..j : p[i] = o[i]
    BY <1>3, <1>9
  <2> QED BY <1>3, <2>1, SameNames
<1> QED BY <1>1, <1>3, <1>4, <1>6, <1>7, <1>8, <1>9, <1>10 DEF Trail

LEMMA RowStart ==
  ASSUME Outlined, NEW i
  PROVE  i \in RowStarts <=> /\ i \in 1..Len(source) /\ source[i].kind = "start"
                             /\ Depth(i) = 2 /\ Trail(i)[2] = FileEntry
<1>1. i \in 1..Len(source) => PathAt(i) = Trail(i) /\ Len(Trail(i)) = Depth(i)
  <2> SUFFICES ASSUME i \in 1..Len(source) PROVE PathAt(i) = Trail(i) /\ Len(Trail(i)) = Depth(i)
    OBVIOUS
  <2>1. i \in DOMAIN source /\ i \in 0..Len(source)
    BY Documented DEF Outlined
  <2>2. PathAt(i) = Trail(i)
    BY <2>1 DEF PathAt, Outlined, Trail, Open
  <2>3. PICK o : o = Open(source, i)
    OBVIOUS
  <2>4. o \in Seq(Range(source))
    BY <2>1, <2>3, Documented DEF Outlined
  <2>5. Len(Names(o)) = Len(o)
    BY <2>4 DEF Names
  <2> QED BY <2>2, <2>3, <2>5 DEF Trail, Depth
<1> QED BY <1>1 DEF RowStarts, Starts

LEMMA PathIsTrail ==
  ASSUME Outlined, NEW i \in 1..Len(source)
  PROVE  PathAt(i) = Trail(i) /\ Len(Trail(i)) = Depth(i) /\ DOMAIN Trail(i) = 1..Depth(i)
<1>1. i \in DOMAIN source /\ i \in 0..Len(source)
  BY Documented DEF Outlined
<1>2. PathAt(i) = Trail(i)
  BY <1>1 DEF PathAt, Outlined, Trail, Open
<1>3. PICK o : o = Open(source, i)
  OBVIOUS
<1>4. o \in Seq(Range(source))
  BY <1>1, <1>3, Documented DEF Outlined
<1>5. Len(Names(o)) = Len(o) /\ DOMAIN Names(o) = 1..Len(o)
  BY <1>4 DEF Names
<1> QED BY <1>2, <1>3, <1>5 DEF Trail, Depth

\* A row ends, and lies deeper than the root until then.
LEMMA RowEnds ==
  ASSUME Outlined, NEW i \in RowStarts
  PROVE  /\ i \in 1..Len(source) /\ RowEnd(i) \in (i + 1)..Len(source) /\ Depth(RowEnd(i)) < 2
         /\ \A j \in i..(RowEnd(i) - 1) : Depth(j) >= 2
<1>1. i \in 1..Len(source) /\ Depth(i) = 2
  BY RowStart
<1>2. Len(source) \in Nat /\ Depth(Len(source)) = 0
  BY Documented DEF Outlined
<1>3. \A k \in i..Len(source) : Len(PathAt(k)) = Depth(k) /\ Depth(k) \in Nat
  <2>1. \A k \in i..Len(source) : k \in 1..Len(source) /\ k \in 0..Len(source)
    BY <1>1, <1>2
  <2> QED BY <2>1, PathIsTrail, Documented DEF Outlined
<1> DEFINE T == {k \in i..Len(source) : Depth(k) < 2}
           Q(k) == /\ Len(PathAt(k)) < 2
                   /\ \A j \in i..(k - 1) : Len(PathAt(j)) >= 2
<1>4. PICK k \in T : \A m \in T : k <= m
  <2>1. T \subseteq Nat /\ Len(source) \in T
    BY <1>1, <1>2
  <2> QED BY <2>1, Least, Zenon
<1>5. k \in i..Len(source) /\ Q(k)
  <2>1. k \in i..Len(source) /\ Depth(k) < 2
    BY <1>4
  <2>2. ASSUME NEW j \in i..(k - 1) PROVE Len(PathAt(j)) >= 2
    <3>1. j \in i..Len(source) /\ ~(k <= j)
      BY <1>1, <1>2, <2>1
    <3>2. j \notin T
      BY <1>4, <3>1
    <3> QED BY <1>3, <3>1, <3>2
  <2> QED BY <1>3, <2>1, <2>2
<1>6. RowEnd(i) \in i..Len(source) /\ Q(RowEnd(i))
  <2>1. RowEnd(i) = CHOOSE m \in i..Len(source) : Q(m)
    BY DEF RowEnd
  <2> HIDE DEF Q
  <2> QED BY <1>5, <2>1, Zenon
<1>7. PICK r : r = RowEnd(i)
  OBVIOUS
<1>8. r \in i..Len(source) /\ Depth(r) < 2
  BY <1>3, <1>6, <1>7
<1>9. r # i
  BY <1>1, <1>8
<1>10. \A j \in i..(r - 1) : Depth(j) >= 2
  <2>1. \A j \in i..(r - 1) : j \in i..Len(source)
    BY <1>1, <1>2, <1>8
  <2> QED BY <1>3, <1>6, <1>7, <2>1
<1> QED BY <1>1, <1>2, <1>7, <1>8, <1>9, <1>10

\* Inside a row its element stays open, and no other row begins.
LEMMA RowInside ==
  ASSUME Outlined, NEW i \in RowStarts, NEW n \in i..(RowEnd(i) - 1)
  PROVE  /\ n \in 1..Len(source) /\ Depth(n) >= 2 /\ Open(source, n)[2] = source[i]
         /\ Trail(n)[2] = FileEntry /\ (n # i => n \notin RowStarts)
<1>0. /\ i \in 1..Len(source) /\ RowEnd(i) \in (i + 1)..Len(source) /\ Len(source) \in Nat
      /\ \A j \in i..(RowEnd(i) - 1) : Depth(j) >= 2
      /\ Depth(i) = 2 /\ source[i].kind = "start" /\ Trail(i)[2] = FileEntry
  BY RowEnds, RowStart, Documented DEF Outlined
<1> DEFINE Fine(m) == Open(source, m)[2] = source[i] /\ Trail(m)[2] = FileEntry
           T == {m \in i..(RowEnd(i) - 1) : ~Fine(m)}
<1>1. \A m \in i..(RowEnd(i) - 1) : m \in 1..Len(source) /\ Depth(m) \in Nat
  BY <1>0, Documented DEF Outlined
<1>2. T = {}
  <2> SUFFICES ASSUME T # {} PROVE FALSE
    OBVIOUS
  <2>1. PICK m \in T : \A k \in T : m <= k
    <3>1. T \subseteq Nat
      BY <1>1
    <3> QED BY <3>1, Least, Zenon
  <2>2. m \in i..(RowEnd(i) - 1) /\ ~Fine(m)
    BY <2>1
  <2>3. Fine(i)
    BY <1>0, Moves DEF Outlined
  <2>4. m - 1 \in i..(RowEnd(i) - 1) /\ ~(m <= m - 1)
    <3>1. m # i
      BY <2>2, <2>3
    <3> QED BY <1>0, <2>2, <3>1
  <2>5. Fine(m - 1)
    BY <2>1, <2>4
  <2>6. 2 \in 1..Depth(m) /\ 2 <= Depth(m - 1) /\ m \in 1..Len(source)
    BY <1>0, <1>1, <2>2, <2>4
  <2>7. Open(source, m)[2] = Open(source, m - 1)[2] /\ Trail(m)[2] = Trail(m - 1)[2]
    BY <2>6, Moves DEF Outlined
  <2> QED BY <2>2, <2>5, <2>7
<1>3. n # i => n \notin RowStarts
  <2> SUFFICES ASSUME n # i, n \in RowStarts PROVE FALSE
    OBVIOUS
  <2>1. source[n].kind = "start" /\ Depth(n) = 2 /\ n \in 1..Len(source)
    BY RowStart
  <2>2. Depth(n) = Depth(n - 1) + 1
    BY <2>1, Moves DEF Outlined
  <2>3. n - 1 \in i..(RowEnd(i) - 1)
    BY <1>0
  <2> QED BY <1>0, <1>1, <2>1, <2>2, <2>3
<1>4. Fine(n)
  BY <1>2
<1> QED BY <1>0, <1>1, <1>3, <1>4

\* Where a row's element is open, that row is.
LEMMA RowAround ==
  ASSUME Outlined, NEW n \in 0..Len(source), Depth(n) >= 2, Trail(n)[2] = FileEntry
  PROVE  \E i \in RowStarts : i <= n /\ n < RowEnd(i)
<1>0. Len(source) \in Nat /\ Depth(0) = 0 /\ \A m \in 0..Len(source) : Depth(m) \in Nat
  BY Documented DEF Outlined
<1> DEFINE In(m) == \E i \in RowStarts : i <= m /\ m < RowEnd(i)
           T == {m \in 0..Len(source) : Depth(m) >= 2 /\ Trail(m)[2] = FileEntry /\ ~In(m)}
<1> SUFFICES ASSUME T # {} PROVE FALSE
  OBVIOUS
<1>1. PICK m \in T : \A k \in T : m <= k
  <2>1. T \subseteq Nat
    OBVIOUS
  <2> QED BY <2>1, Least, Zenon
<1>2. m \in 0..Len(source) /\ Depth(m) >= 2 /\ Trail(m)[2] = FileEntry /\ ~In(m)
  BY <1>1
<1>3. m \in 1..Len(source) /\ m - 1 \in 0..Len(source) /\ ~(m <= m - 1)
  BY <1>0, <1>2
<1>4. CASE Depth(m - 1) >= 2
  <2>1. Trail(m - 1)[2] = FileEntry
    <3>1. 2 \in 1..Depth(m) /\ 2 <= Depth(m - 1)
      BY <1>0, <1>2, <1>4
    <3> QED BY <1>2, <1>3, <3>1, Moves DEF Outlined
  <2>2. PICK i \in RowStarts : i <= m - 1 /\ m - 1 < RowEnd(i)
    BY <1>1, <1>3, <1>4, <2>1
  <2>3. i \in Nat /\ RowEnd(i) \in Nat /\ Depth(RowEnd(i)) < 2
    BY <1>0, <2>2, RowEnds
  <2>4. m # RowEnd(i)
    BY <1>0, <1>2, <2>3
  <2>5. i <= m /\ m < RowEnd(i)
    BY <1>3, <2>2, <2>3, <2>4
  <2> QED BY <1>2, <2>5
<1>5. CASE ~(Depth(m - 1) >= 2)
  <2>1. source[m].kind = "start" /\ Depth(m) = 2
    <3>1. PICK a, b : a = Depth(m) /\ b = Depth(m - 1)
      OBVIOUS
    <3>2. a \in Nat /\ b \in Nat /\ a >= 2 /\ ~(b >= 2)
      BY <1>0, <1>2, <1>3, <1>5, <3>1
    <3>3. /\ source[m].kind = "start" => a = b + 1
          /\ source[m].kind = "end" => a = b - 1
          /\ source[m].kind \notin {"start", "end"} => a = b
      BY <1>3, <3>1, Moves DEF Outlined
    <3> QED BY <3>1, <3>2, <3>3
  <2>2. m \in RowStarts
    BY <1>2, <1>3, <2>1, RowStart
  <2>3. m <= m /\ m < RowEnd(m)
    BY <1>0, <2>2, RowEnds
  <2> QED BY <1>2, <2>2, <2>3
<1> QED BY <1>4, <1>5

\* A row ends where its own element does.
LEMMA RowEndIs ==
  ASSUME Outlined, NEW i \in RowStarts, NEW k, k = RowEnd(i)
  PROVE  k \in 1..Len(source) /\ source[k].kind = "end" /\ Depth(k - 1) = 2 /\ Depth(k) = 1
<1>0. /\ i \in 1..Len(source) /\ k \in (i + 1)..Len(source) /\ Depth(k) < 2
      /\ k - 1 \in i..(k - 1) /\ Len(source) \in Nat
  BY RowEnds, Documented DEF Outlined
<1>1. Depth(k - 1) >= 2 /\ k \in 1..Len(source) /\ k - 1 \in 0..Len(source) /\ k \in 0..Len(source)
  BY <1>0, RowEnds
<1>2. Depth(k) \in Nat /\ Depth(k - 1) \in Nat
  BY <1>1, Documented DEF Outlined
<1>3. PICK a, b : a = Depth(k) /\ b = Depth(k - 1)
  OBVIOUS
<1>4. /\ source[k].kind = "start" => a = b + 1
      /\ source[k].kind = "end" => a = b - 1
      /\ source[k].kind \notin {"start", "end"} => a = b
  BY <1>1, <1>3, Moves DEF Outlined
<1> QED BY <1>0, <1>1, <1>2, <1>3, <1>4

LEMMA RowsInOrder ==
  ASSUME Outlined, NEW i \in RowStarts, NEW j \in RowStarts, i < j
  PROVE  RowEnd(i) < j
<1>1. /\ i \in Nat /\ j \in Nat /\ RowEnd(i) \in Nat /\ i < RowEnd(i) /\ Depth(RowEnd(i)) = 1
      /\ Depth(j) = 2
  <2>1. RowEnd(i) \in (i + 1)..Len(source) /\ i \in 1..Len(source) /\ j \in 1..Len(source)
    BY RowEnds
  <2>2. Depth(RowEnd(i)) = 1
    BY RowEndIs
  <2>3. Depth(j) = 2
    BY RowStart
  <2>4. Len(source) \in Nat
    BY Documented DEF Outlined
  <2> QED BY <2>1, <2>2, <2>3, <2>4
<1>2. ~(j < RowEnd(i))
  <2> SUFFICES ASSUME j < RowEnd(i) PROVE FALSE
    OBVIOUS
  <2>1. j \in i..(RowEnd(i) - 1) /\ j # i
    BY <1>1
  <2> QED BY <2>1, RowInside
<1>3. j # RowEnd(i)
  BY <1>1
<1> QED BY <1>1, <1>2, <1>3

-----------------------------------------------------------------------------
\* The rows that have ended after n events.
Ended(n) == {j \in RowStarts : RowEnd(j) <= n}

LEMMA EndedFinite == ASSUME Outlined, NEW n PROVE IsFiniteSet(RowStarts) /\ IsFiniteSet(Ended(n))
<1>1. RowStarts \subseteq 1..Len(source)
  BY RowStart
<1>2. IsFiniteSet(1..Len(source))
  BY Documented, FS_Interval DEF Outlined
<1>3. IsFiniteSet(RowStarts)
  BY <1>1, <1>2, FS_Subset
<1>4. Ended(n) \subseteq RowStarts
  BY DEF Ended
<1> QED BY <1>3, <1>4, FS_Subset

\* Rows end one by one, and each is counted when it ends.
LEMMA OrdinalIs ==
  ASSUME Outlined, NEW i \in RowStarts, NEW k, k = RowEnd(i)
  PROVE  /\ Ordinal(i) = Cardinality(Ended(k - 1)) + 1 /\ Cardinality(Ended(k)) = Ordinal(i)
         /\ Cardinality(Ended(k - 1)) \in Nat
<1>0. \A j \in RowStarts : /\ j \in Nat /\ RowEnd(j) \in Nat /\ j < RowEnd(j)
                           /\ \A m \in RowStarts : j < m => RowEnd(j) < m
  <2> SUFFICES ASSUME NEW j \in RowStarts
               PROVE  /\ j \in Nat /\ RowEnd(j) \in Nat /\ j < RowEnd(j)
                      /\ \A m \in RowStarts : j < m => RowEnd(j) < m
    OBVIOUS
  <2>1. j \in 1..Len(source) /\ RowEnd(j) \in (j + 1)..Len(source) /\ Len(source) \in Nat
    BY RowEnds, Documented DEF Outlined
  <2> QED BY <2>1, RowsInOrder
<1>1. Ended(k) = {j \in RowStarts : j <= i}
  BY <1>0 DEF Ended
<1>2. Ended(k) = Ended(k - 1) \cup {i} /\ i \notin Ended(k - 1)
  BY <1>0 DEF Ended
<1>3. Cardinality(Ended(k)) = Cardinality(Ended(k - 1)) + 1
  BY <1>2, EndedFinite, FS_AddElement
<1>4. Cardinality(Ended(k - 1)) \in Nat
  BY EndedFinite, FS_CardinalityType
<1>5. Ordinal(i) = Cardinality(Ended(k))
  BY <1>1 DEF Ordinal
<1> QED BY <1>3, <1>4, <1>5

\* A row that has ended is among the first.
LEMMA OrdinalWithin ==
  ASSUME Outlined, NEW n \in Nat, NEW i \in Ended(n)
  PROVE  Ordinal(i) \in 1..Cardinality(Ended(n)) /\ Cardinality(Ended(n)) \in Nat
<1>1. PICK k : k = RowEnd(i)
  OBVIOUS
<1>2. i \in RowStarts /\ k <= n
  BY <1>1 DEF Ended
<1>3. k \in Nat
  <2>1. i \in 1..Len(source) /\ RowEnd(i) \in (i + 1)..Len(source) /\ Len(source) \in Nat
    BY <1>2, RowEnds, Documented DEF Outlined
  <2> QED BY <1>1, <2>1
<1>4. Ended(k) \subseteq Ended(n)
  <2> SUFFICES ASSUME NEW j \in RowStarts, RowEnd(j) <= k PROVE RowEnd(j) <= n
    BY DEF Ended
  <2>1. RowEnd(j) \in Nat
    <3>1. j \in 1..Len(source) /\ RowEnd(j) \in (j + 1)..Len(source) /\ Len(source) \in Nat
      BY RowEnds, Documented DEF Outlined
    <3> QED BY <3>1
  <2> QED BY <1>2, <1>3, <2>1
<1>5. Cardinality(Ended(k)) <= Cardinality(Ended(n)) /\ Cardinality(Ended(n)) \in Nat
  BY <1>4, EndedFinite, FS_Subset, FS_CardinalityType
<1>6. Ordinal(i) = Cardinality(Ended(k)) /\ Ordinal(i) = Cardinality(Ended(k - 1)) + 1
      /\ Cardinality(Ended(k - 1)) \in Nat
  BY <1>1, <1>2, OrdinalIs
<1> QED BY <1>5, <1>6

\* Where no row ends, none is counted.
LEMMA NoneEnds ==
  ASSUME Outlined, NEW n \in Nat, \A i \in RowStarts : RowEnd(i) # n
  PROVE  Ended(n) = Ended(n - 1)
<1>1. \A j \in RowStarts : RowEnd(j) \in Nat
  <2> SUFFICES ASSUME NEW j \in RowStarts PROVE RowEnd(j) \in Nat
    OBVIOUS
  <2>1. j \in 1..Len(source) /\ RowEnd(j) \in (j + 1)..Len(source) /\ Len(source) \in Nat
    BY RowEnds, Documented DEF Outlined
  <2> QED BY <2>1
<1> QED BY <1>1 DEF Ended

\* What a row holds is of its part, and the root of none.
LEMMA PartOf ==
  ASSUME Outlined
  PROVE  /\ \A i \in RowStarts : \A n \in i..(RowEnd(i) - 1) :
              source[n].kind = "start" => source[n].of = source[i].of
         /\ \A n \in 1..Len(source) : source[n].kind = "start" /\ Depth(n) = 1 => source[n].of = 0
<1>1. \A n \in 1..Len(source) : source[n].kind = "start" =>
        source[n].of = IF Depth(n) = 1 THEN 0 ELSE Open(source, n)[2].of
  BY DocumentAssumption, Documented DEF Outlined, Depth, Open
<1>2. ASSUME NEW i \in RowStarts, NEW n \in i..(RowEnd(i) - 1), source[n].kind = "start"
      PROVE  source[n].of = source[i].of
  <2>1. n \in 1..Len(source) /\ Depth(n) >= 2 /\ Open(source, n)[2] = source[i]
    BY RowInside
  <2> QED BY <1>1, <1>2, <2>1
<1> QED BY <1>1, <1>2

\* Paths, but for the root.
LEMMA TailIsTwo ==
  ASSUME NEW S, NEW p \in Seq(S), Len(p) > 0, NEW a, NEW b, NEW two, two = <<a, b>>
  PROVE  (Tail(p) = two) <=> (Len(p) = 3 /\ p[2] = a /\ p[3] = b)
<1>1. PICK t, n : t = Tail(p) /\ n = Len(p)
  OBVIOUS
<1>2. /\ n \in Nat /\ n > 0 /\ t \in Seq(S) /\ Len(t) = n - 1 /\ \A j \in 1..(n - 1) : t[j] = p[j + 1]
  BY <1>1
<1>3. t = two => Len(t) = 2 /\ t[1] = a /\ t[2] = b
  OBVIOUS
<1>4. ASSUME Len(t) = 2, t[1] = a, t[2] = b PROVE t = two
  <2>1. t = [j \in 1..2 |-> t[j]]
    <3>1. t = [j \in 1..Len(t) |-> t[j]]
      BY <1>2
    <3> QED BY <1>4, <3>1
  <2>2. 1..2 = {1, 2}
    OBVIOUS
  <2> QED BY <1>4, <2>1, <2>2
<1>5. n = 3 => t[1] = p[2] /\ t[2] = p[3]
  BY <1>2
<1>6. Len(t) = 2 <=> n = 3
  BY <1>2
<1> QED BY <1>1, <1>3, <1>4, <1>5, <1>6

Three(a, b, c) == <<a, b, c>>

LEMMA TailIsThree ==
  ASSUME NEW S, NEW p \in Seq(S), Len(p) > 0, NEW a, NEW b, NEW c
  PROVE  (Tail(p) = Three(a, b, c)) <=> (Len(p) = 4 /\ p[2] = a /\ p[3] = b /\ p[4] = c)
<1>1. PICK t, n, three : t = Tail(p) /\ n = Len(p) /\ three = Three(a, b, c)
  OBVIOUS
<1>2. /\ n \in Nat /\ n > 0 /\ t \in Seq(S) /\ Len(t) = n - 1 /\ \A j \in 1..(n - 1) : t[j] = p[j + 1]
  BY <1>1
<1>3. t = three => Len(t) = 3 /\ t[1] = a /\ t[2] = b /\ t[3] = c
  BY <1>1 DEF Three
<1>4. ASSUME Len(t) = 3, t[1] = a, t[2] = b, t[3] = c PROVE t = three
  <2>1. t = [j \in 1..3 |-> t[j]]
    <3>1. t = [j \in 1..Len(t) |-> t[j]]
      BY <1>2
    <3> QED BY <1>4, <3>1
  <2>2. 1..3 = {1, 2, 3}
    OBVIOUS
  <2>3. three = <<a, b, c>>
    BY <1>1 DEF Three
  <2> QED BY <1>4, <2>1, <2>2, <2>3
<1>5. n = 4 => t[1] = p[2] /\ t[2] = p[3] /\ t[3] = p[4]
  BY <1>2
<1>6. Len(t) = 3 <=> n = 4
  BY <1>2
<1> QED BY <1>1, <1>3, <1>4, <1>5, <1>6

\* What a row's elements are, told by their paths.
LEMMA InnerIs ==
  ASSUME Outlined, NEW i \in RowStarts, NEW e, NEW x
  PROVE  /\ (e \in DataOf(i)) <=> (/\ e \in Starts(i, RowEnd(i)) /\ Depth(e) = 3
                                   /\ Trail(e)[2] = FileEntry /\ Trail(e)[3] = M("encryption-data"))
         /\ (e \in Within(i, x)) <=> (/\ e \in Starts(i, RowEnd(i)) /\ Depth(e) = 4
                                      /\ Trail(e)[2] = FileEntry /\ Trail(e)[3] = M("encryption-data")
                                      /\ Trail(e)[4] = M(x))
<1>1. i \in 1..Len(source) /\ RowEnd(i) \in (i + 1)..Len(source) /\ Len(source) \in Nat
  BY RowEnds, Documented DEF Outlined
<1>2. PICK a, b, c, two, three : /\ a = FileEntry /\ b = M("encryption-data") /\ c = M(x)
                                 /\ two = <<a, b>> /\ three = Three(a, b, c)
  OBVIOUS
<1> SUFFICES ASSUME e \in Starts(i, RowEnd(i))
             PROVE  /\ (Tail(PathAt(e)) = two) <=> (Depth(e) = 3 /\ Trail(e)[2] = a /\ Trail(e)[3] = b)
                    /\ (Tail(PathAt(e)) = three) <=>
                         (Depth(e) = 4 /\ Trail(e)[2] = a /\ Trail(e)[3] = b /\ Trail(e)[4] = c)
  BY <1>2 DEF DataOf, Within, At, Three
<1>3. e \in 1..Len(source) /\ source[e].kind = "start"
  BY <1>1 DEF Starts
<1>4. PathAt(e) = Trail(e) /\ Len(Trail(e)) = Depth(e) /\ DOMAIN Trail(e) = 1..Depth(e)
  BY <1>3, PathIsTrail
<1>5. Depth(e) \in Nat /\ Depth(e) > 0
  <2>1. e \in 0..Len(source) /\ e - 1 \in 0..Len(source)
    BY <1>1, <1>3
  <2>2. Depth(e) \in Nat /\ Depth(e - 1) \in Nat
    BY <2>1, Documented DEF Outlined
  <2>3. Depth(e) = Depth(e - 1) + 1
    BY <1>3, Moves DEF Outlined
  <2> QED BY <2>2, <2>3
<1>6. PICK q : q = Trail(e)
  OBVIOUS
<1>7. q \in Seq(Range(q))
  <2>1. PICK o, n : o = Open(source, e) /\ n = Len(o)
    OBVIOUS
  <2>2. q = [j \in DOMAIN o |-> Convert(o[j].name, {o[k].ns : k \in 1..j})]
    BY <1>6, <2>1 DEF Trail, Names
  <2>3. e \in 0..Len(source)
    BY <1>1, <1>3
  <2>4. n \in Nat /\ DOMAIN o = 1..n
    <3>1. o \in Seq(Range(source))
      BY <2>1, <2>3, Documented DEF Outlined
    <3> QED BY <2>1, <3>1
  <2>5. \A j \in 1..n : q[j] \in Range(q)
    BY <2>2, <2>4 DEF Range
  <2>6. q = [j \in 1..n |-> q[j]]
    BY <2>2, <2>4
  <2> QED BY <2>4, <2>5, <2>6
<1>8. Len(q) > 0 /\ Len(q) = Depth(e) /\ Tail(q) = Tail(PathAt(e))
  BY <1>4, <1>5, <1>6
<1>9. /\ (Tail(q) = two) <=> (Len(q) = 3 /\ q[2] = a /\ q[3] = b)
      /\ (Tail(q) = three) <=> (Len(q) = 4 /\ q[2] = a /\ q[3] = b /\ q[4] = c)
  <2>1. PICK S : S = Range(q)
    OBVIOUS
  <2>2. q \in Seq(S) /\ Len(q) > 0
    BY <1>7, <1>8, <2>1
  <2>3. (Tail(q) = two) <=> (Len(q) = 3 /\ q[2] = a /\ q[3] = b)
    BY <1>2, <2>2, TailIsTwo, Zenon
  <2>4. (Tail(q) = Three(a, b, c)) <=> (Len(q) = 4 /\ q[2] = a /\ q[3] = b /\ q[4] = c)
    BY <2>2, TailIsThree
  <2> QED BY <1>2, <2>3, <2>4
<1> QED BY <1>6, <1>8, <1>9

-----------------------------------------------------------------------------
\* The root is valid under one name only.
Rooted == stack # <<>> => (stack[1].valid => stack[1].name \in KnownAt(1))

LEMMA RootedOn ==
  ASSUME Parses, Rooted, StartElement \/ EndElement \/ Characters
  PROVE  Rooted'
<1>0. stack \in Seq(Range(stack)) /\ Len(stack) \in Nat
  BY DEF Parses, Shadows
<1>1. CASE Opens
  <2>1. PICK frame : /\ frame = [name |-> ElementName, ns |-> Event.ns,
                                 valid |-> ParentValid /\ ElementName \in KnownAt(Level)]
                     /\ stack' = Append(stack, frame)
    BY <1>1 DEF Opens
  <2>2. CASE stack = <<>>
    <3>1. stack'[1] = frame /\ Level = 1
      BY <2>1, <2>2 DEF Level
    <3>2. frame.valid => frame.name \in KnownAt(1)
      <4>1. frame.valid = (ParentValid /\ ElementName \in KnownAt(Level)) /\ frame.name = ElementName
        BY <2>1
      <4> QED BY <3>1, <4>1, Zenon
    <3> QED BY <3>1, <3>2, Zenon DEF Rooted
  <2>3. CASE stack # <<>>
    <3>1. stack'[1] = stack[1]
      <4>1. stack \in Seq(Range(stack) \cup {frame}) /\ Len(stack) > 0
        BY <1>0, <2>3
      <4> QED BY <2>1, <4>1
    <3> QED BY <2>3, <3>1, Zenon DEF Rooted
  <2> QED BY <2>2, <2>3
<1>2. CASE Closes
  <2>1. stack' = Front(stack) /\ stack # <<>>
    BY <1>2 DEF Closes, Matches
  <2>2. stack' # <<>> => stack'[1] = stack[1]
    <3>1. PICK t : t = SubSeq(stack, 1, Len(stack) - 1)
      OBVIOUS
    <3>2. stack' = t
      BY <2>1, <3>1 DEF Front
    <3>3. t # <<>> => t[1] = stack[1]
      BY <1>0, <2>1, <3>1
    <3> QED BY <3>2, <3>3
  <2> QED BY <2>1, <2>2, Zenon DEF Rooted
<1>3. CASE stack' = stack
  BY <1>3, Zenon DEF Rooted
<1> QED BY <1>1, <1>2, <1>3 DEF StartElement, OpenTooDeep, OpenRoot, OpenRow, OpenKey, OpenMethod,
        OpenData, OpenAlgorithm, OpenStartKey, OpenDerivation, OpenText, OpenOther, EndElement,
        CloseNothing, CloseRow, CloseKey, CloseText, CloseOther, Characters, elements

\* What the parser makes of an event of the source.
Sourcing == phase = "source" /\ Outlined /\ Parses /\ Rooted

LEMMA EventIs ==
  ASSUME Sourcing, NEW kind, Reads(kind)
  PROVE  /\ pos \in 1..Len(source) /\ pos - 1 \in 0..Len(source) /\ pos' = pos + 1
         /\ Event = source[pos] /\ source[pos].kind = kind
         /\ Depth(pos) \in Nat /\ Depth(pos - 1) \in Nat
         /\ UNCHANGED <<source, outline, phase, fate, before>>
         /\ Len(stack) = Cut(Open(source, pos - 1)) /\ Open(source, pos - 1) \in Seq(Range(source))
         /\ beyond = Depth(pos - 1) - Len(stack) /\ Shadows(stack, beyond, Open(source, pos - 1))
<1>1. Input = source /\ source \in Documents
  BY DEF Sourcing, Input, Outlined
<1>2. pos \in 1..Len(source) /\ pos' = pos + 1 /\ Event.kind = kind /\ Event = source[pos]
  BY <1>1, EventTaken DEF Sourcing, Event
<1>3. pos \in 0..Len(source) /\ pos - 1 \in 0..Len(source)
  BY <1>1, <1>2, Documented
<1>4. UNCHANGED <<source, outline, phase, fate, before>>
  BY DEF Reads, document
<1>5. Shadows(stack, beyond, Open(source, pos - 1))
  BY <1>1 DEF Sourcing, Parses
<1> QED BY <1>1, <1>2, <1>3, <1>4, <1>5, Documented DEF Shadows, Depth

LEMMA StartIs ==
  ASSUME Sourcing, StartElement
  PROVE  /\ Reads("start")
         /\ OpenTooDeep => Depth(pos) > 6
         /\ Opens => /\ Level = Depth(pos) /\ Level \in Nat /\ Trail(pos)[Depth(pos)] = ElementName
                     /\ Level > 1 => (Valid <=> \A k \in 2..Depth(pos) : Trail(pos)[k] \in KnownAt(k))
<1>1. Reads("start")
  BY DEF StartElement, OpenTooDeep, OpenRoot, OpenRow, OpenKey, OpenMethod, OpenData,
         OpenAlgorithm, OpenStartKey, OpenDerivation, OpenText, OpenOther, Opens
<1>2. ASSUME OpenTooDeep PROVE Depth(pos) > 6
  <2>1. beyond > 0 \/ Len(stack) >= MaxDepth
    BY <1>2 DEF OpenTooDeep, TooDeep
  <2>2. Len(Open(source, pos - 1)) >= MaxDepth
    <3>1. PICK o : o = Open(source, pos - 1)
      OBVIOUS
    <3>2. o \in Seq(Range(source)) /\ Len(stack) = Cut(o) /\ beyond = Len(o) - Len(stack)
      BY <1>1, <3>1, EventIs DEF Depth
    <3>3. /\ Cut(o) <= Len(o) /\ Len(o) \in Nat /\ Cut(o) \in Nat /\ MaxDepth \in Nat
          /\ Len(o) <= MaxDepth => Cut(o) = Len(o)
      BY <3>2, CutIs, DepthAssumption
    <3> QED BY <2>1, <3>1, <3>2, <3>3
  <2>3. Depth(pos) = Depth(pos - 1) + 1
    BY <1>1, EventIs, Moves DEF Sourcing, Outlined
  <2> QED BY <1>1, <2>2, <2>3, EventIs, DepthAssumption DEF Depth
<1>3. ASSUME Opens
      PROVE  /\ Level = Depth(pos) /\ Level \in Nat /\ Trail(pos)[Depth(pos)] = ElementName
             /\ Level > 1 => (Valid <=> \A k \in 2..Depth(pos) : Trail(pos)[k] \in KnownAt(k))
  <2>1. PICK s, frame, n, names :
             /\ s = stack' /\ n = Level /\ names = Trail(pos)
             /\ frame = [name |-> ElementName, ns |-> Event.ns, valid |-> Valid]
    OBVIOUS
  <2>2. s = Append(stack, frame) /\ beyond' = beyond
    <3>1. frame = [name |-> ElementName, ns |-> Event.ns,
                   valid |-> ParentValid /\ ElementName \in KnownAt(Level)]
      BY <2>1, Zenon DEF Valid
    <3> QED BY <1>3, <2>1, <3>1, Zenon DEF Opens
  <2>3. stack \in Seq(Range(stack)) /\ Len(stack) \in Nat
    BY DEF Sourcing, Parses, Shadows
  <2>4. s[n] = frame /\ Len(s) = n /\ n \in Nat /\ n > 0
    <3>1. stack \in Seq(Range(stack) \cup {frame})
      BY <2>3
    <3> QED BY <2>1, <2>2, <2>3, <3>1 DEF Level
  <2>5. Parses'
    BY StartParses DEF Sourcing
  <2>6. Shadows(s, beyond', Open(source, pos))
    <3>1. phase' = "source" /\ source' = source /\ pos' = pos + 1
      BY <1>1, EventIs DEF Sourcing
    <3>2. Shadows(stack', beyond', Open(Input', pos' - 1))
      BY <2>5 DEF Parses
    <3>3. Input' = source /\ pos' - 1 = pos
      BY <1>1, <3>1, EventIs DEF Input
    <3> QED BY <2>1, <3>2, <3>3
  <2>7. beyond = 0
    <3>1. ~(beyond > 0) /\ ~(Len(stack) >= MaxDepth)
      BY <1>3 DEF Opens, TooDeep
    <3>2. PICK o : o = Open(source, pos - 1)
      OBVIOUS
    <3>3. o \in Seq(Range(source)) /\ Len(stack) = Cut(o) /\ beyond = Len(o) - Len(stack)
      BY <1>1, <3>2, EventIs DEF Depth
    <3> QED BY <3>1, <3>3, CutIs, DepthAssumption
  <2>8. n = Depth(pos)
    <3>1. Len(s) = Cut(Open(source, pos)) /\ beyond' = Depth(pos) - Cut(Open(source, pos))
      BY <2>6 DEF Shadows, Depth
    <3> QED BY <1>1, <2>2, <2>4, <2>7, <3>1, EventIs
  <2>9. /\ s[n].name = names[n]
        /\ n > 1 => (s[n].valid <=> \A k \in 2..n : names[k] \in KnownAt(k))
    BY <2>1, <2>4, <2>6 DEF Shadows, Trail
  <2>10. s[n].name = ElementName /\ s[n].valid = Valid
    <3>1. frame.name = ElementName /\ frame.valid = Valid
      BY <2>1
    <3> QED BY <2>4, <3>1, Zenon
  <2> QED BY <2>1, <2>4, <2>8, <2>9, <2>10, Zenon
<1> QED BY <1>1, <1>2, <1>3

\* Which handler a start of the source meets depends on the path there.
Here == <<Depth(pos), Trail(pos)[Depth(pos)]>>

LEMMA StartTaken ==
  ASSUME Sourcing, StartElement
  PROVE  /\ OpenTooDeep => Depth(pos) > 6
         /\ OpenRoot => Depth(pos) = 1
         /\ OpenRow => Here = <<2, FileEntry>>
         /\ OpenKey => Here \in {<<2, M("encrypted-key")>>, <<3, Lo("encrypted-key")>>}
         /\ OpenMethod => Here \in {<<3, M("encryption-method")>>, <<4, Lo("encryption-method")>>}
         /\ OpenData => Here = <<3, M("encryption-data")>>
         /\ OpenAlgorithm => Here = <<4, M("algorithm")>>
         /\ OpenStartKey => Here = <<4, M("start-key-generation")>>
         /\ OpenDerivation => Here = <<4, M("key-derivation")>>
         /\ OpenText => Here \in TextSlots
         /\ OpenOther => /\ Depth(pos) > 1 /\ Here # <<2, FileEntry>>
                         /\ (\A k \in 2..Depth(pos) : Trail(pos)[k] \in KnownAt(k)) => Here \notin Handled
<1>1. Opens => /\ Slot = Here /\ Level = Depth(pos)
               /\ Level > 1 => (Valid <=> \A k \in 2..Depth(pos) : Trail(pos)[k] \in KnownAt(k))
  BY StartIs DEF Slot, Here
<1>2. OpenTooDeep => Depth(pos) > 6
  BY StartIs
<1>3. OpenRoot => Depth(pos) = 1
  BY <1>1, Zenon DEF OpenRoot
<1>4. OpenRow => Here = <<2, FileEntry>>
  BY <1>1, Zenon DEF OpenRow
<1>5. /\ OpenKey => Here \in {<<2, M("encrypted-key")>>, <<3, Lo("encrypted-key")>>}
      /\ OpenMethod => Here \in {<<3, M("encryption-method")>>, <<4, Lo("encryption-method")>>}
  BY <1>1, Zenon DEF OpenKey, OpenMethod
<1>6. /\ OpenData => Here = <<3, M("encryption-data")>>
      /\ OpenAlgorithm => Here = <<4, M("algorithm")>>
      /\ OpenStartKey => Here = <<4, M("start-key-generation")>>
      /\ OpenDerivation => Here = <<4, M("key-derivation")>>
  BY <1>1, Zenon DEF OpenData, OpenAlgorithm, OpenStartKey, OpenDerivation
<1>7. OpenText => Here \in TextSlots
  BY <1>1, Zenon DEF OpenText
<1>8. OpenOther => /\ Depth(pos) > 1 /\ Here # <<2, FileEntry>>
                   /\ (\A k \in 2..Depth(pos) : Trail(pos)[k] \in KnownAt(k)) => Here \notin Handled
  BY <1>1, Zenon DEF OpenOther
<1> QED BY <1>2, <1>3, <1>4, <1>5, <1>6, <1>7, <1>8

\* The rows are what do_file_entry takes.
LEMMA RowTaken ==
  ASSUME Sourcing, StartElement
  PROVE  pos \in RowStarts <=> OpenRow
<1>1. pos \in RowStarts <=> Here = <<2, FileEntry>>
  <2>1. Reads("start")
    BY StartIs
  <2>2. pos \in 1..Len(source) /\ source[pos].kind = "start" /\ Outlined
    BY <2>1, EventIs DEF Sourcing
  <2> QED BY <2>2, RowStart DEF Here
<1>2. OpenRow => Here = <<2, FileEntry>>
  BY StartTaken
<1>3. ASSUME Here = <<2, FileEntry>> PROVE OpenRow
  <2>1. Depth(pos) = 2
    BY <1>3 DEF Here
  <2>2. ~OpenTooDeep /\ ~OpenRoot /\ ~OpenOther
    BY <1>3, <2>1, StartTaken
  <2>3. ~OpenKey /\ ~OpenMethod /\ ~OpenData /\ ~OpenAlgorithm /\ ~OpenStartKey /\ ~OpenDerivation
    BY <1>3, StartTaken DEF FileEntry, M, Lo
  <2>4. ~OpenText
    BY <1>3, StartTaken DEF FileEntry, M, Lo, TextSlots
  <2> QED BY <2>2, <2>3, <2>4 DEF StartElement
<1> QED BY <1>1, <1>2, <1>3

-----------------------------------------------------------------------------
\* What the parser makes of the end of an element of the source.
LEMMA EndIs ==
  ASSUME Sourcing, EndElement
  PROVE  /\ Reads("end")
         /\ beyond = 0 => /\ Matches /\ Len(stack) = Depth(pos - 1) /\ Depth(pos - 1) > 0
                          /\ Top.name = Trail(pos - 1)[Depth(pos - 1)] /\ Top.valid \in BOOLEAN
                          /\ Depth(pos - 1) > 1 =>
                               (Top.valid <=> \A k \in 2..Depth(pos - 1) : Trail(pos - 1)[k] \in KnownAt(k))
                          /\ Depth(pos - 1) = 1 => (Top.valid => Top.name \in KnownAt(1))
         /\ beyond > 0 => Depth(pos - 1) > 6
         /\ beyond \in Nat
<1>1. Reads("end")
  BY DEF EndElement, CloseNothing, CloseRow, CloseKey, CloseText, CloseOther, Closes
<1>2. PICK o, n : o = Open(source, pos - 1) /\ n = Depth(pos - 1)
  OBVIOUS
<1>3. /\ o \in Seq(Range(source)) /\ Len(stack) = Cut(o) /\ beyond = Len(o) - Len(stack)
      /\ n = Len(o) /\ n \in Nat /\ Shadows(stack, beyond, o)
  BY <1>1, <1>2, EventIs DEF Depth
<1>4. /\ Cut(o) <= Len(o) /\ Cut(o) \in Nat /\ MaxDepth \in Nat /\ MaxDepth > 6
      /\ Len(o) <= MaxDepth => Cut(o) = Len(o)
  BY <1>3, CutIs, DepthAssumption
<1>5. beyond \in Nat /\ (beyond > 0 => n > 6)
  BY <1>3, <1>4
<1>6. ASSUME beyond = 0
      PROVE  /\ Matches /\ Len(stack) = n /\ n > 0
             /\ Top.name = Trail(pos - 1)[n] /\ Top.valid \in BOOLEAN
             /\ n > 1 => (Top.valid <=> \A k \in 2..n : Trail(pos - 1)[k] \in KnownAt(k))
             /\ n = 1 => (Top.valid => Top.name \in KnownAt(1))
  <2>1. Len(stack) = n
    BY <1>3, <1>4, <1>6
  <2>2. o # <<>> /\ Last(o).name = Event.name
    <3>1. Input = source
      BY DEF Sourcing, Input
    <3> QED BY <1>1, <1>2, <3>1, EventTaken DEF Sourcing
  <2>3. stack # <<>> /\ Last(stack).name = Convert(Event.name, Scopes(stack))
    BY <1>3, <1>6, <2>2, ShadowsLess
  <2>4. Matches
    BY <2>3 DEF Matches, Top, EndName
  <2>5. n > 0 /\ Top = stack[n]
    BY <1>3, <2>1, <2>2 DEF Top, Last
  <2>6. /\ stack[n].name = Names(o)[n] /\ stack[n].valid \in BOOLEAN
        /\ n > 1 => (stack[n].valid <=> \A k \in 2..n : Names(o)[k] \in KnownAt(k))
    BY <1>3, <2>1, <2>5 DEF Shadows
  <2>7. Names(o) = Trail(pos - 1)
    BY <1>2 DEF Trail
  <2>8. n = 1 => (Top.valid => Top.name \in KnownAt(1))
    BY <2>3, <2>5, Zenon DEF Sourcing, Rooted
  <2> QED BY <2>1, <2>4, <2>5, <2>6, <2>7, <2>8, Zenon
<1> QED BY <1>1, <1>2, <1>5, <1>6

\* A row ends where CloseRow takes it.
LEMMA RowClosed ==
  ASSUME Sourcing, EndElement
  PROVE  /\ CloseRow => \E i \in RowStarts : RowEnd(i) = pos
         /\ \A i \in RowStarts : RowEnd(i) = pos => CloseRow
<1>1. Reads("end") /\ Outlined
  BY EndIs DEF Sourcing
<1>2. /\ pos \in 1..Len(source) /\ pos - 1 \in 0..Len(source) /\ source[pos].kind = "end"
      /\ Depth(pos) \in Nat /\ Depth(pos - 1) \in Nat /\ Len(source) \in Nat
  BY <1>1, EventIs, Documented DEF Outlined
<1>3. ASSUME CloseRow PROVE \E i \in RowStarts : RowEnd(i) = pos
  <2>1. beyond = 0 /\ Top.name = FileEntry /\ Top.valid
    BY <1>3, Zenon DEF CloseRow, Closes
  <2>2. PICK n : n = Depth(pos - 1)
    OBVIOUS
  <2>3. /\ n \in Nat \ {0} /\ Top.name = Trail(pos - 1)[n]
        /\ n > 1 => \A k \in 2..n : Trail(pos - 1)[k] \in KnownAt(k)
        /\ n = 1 => Top.name \in KnownAt(1)
    <3>1. n > 0 /\ Top.name = Trail(pos - 1)[n]
      BY <2>1, <2>2, EndIs
    <3>2. n > 1 => \A k \in 2..n : Trail(pos - 1)[k] \in KnownAt(k)
      BY <2>1, <2>2, EndIs, Zenon
    <3>3. n = 1 => Top.name \in KnownAt(1)
      BY <2>1, <2>2, EndIs, Zenon
    <3> QED BY <1>2, <2>2, <3>1, <3>2, <3>3
  <2>4. n # 1
    BY <2>1, <2>3 DEF KnownAt, Known, FileEntry, M, Lo
  <2>5. ~(n > 2)
    <3> SUFFICES ASSUME n > 2 PROVE FALSE
      OBVIOUS
    <3>1. FileEntry \in KnownAt(n) /\ n \in Nat
      BY <2>1, <2>3
    <3> QED BY <3>1 DEF KnownAt, Known, FileEntry, M, Lo
  <2>6. Depth(pos - 1) = 2 /\ Trail(pos - 1)[2] = FileEntry
    BY <2>1, <2>2, <2>3, <2>4, <2>5
  <2>7. PICK i \in RowStarts : i <= pos - 1 /\ pos - 1 < RowEnd(i)
    BY <1>1, <1>2, <2>6, RowAround
  <2>8. Depth(pos) = 1
    BY <1>1, <1>2, <2>6, Moves DEF Outlined
  <2>9. RowEnd(i) \in Nat /\ i \in Nat
    <3>1. i \in 1..Len(source) /\ RowEnd(i) \in (i + 1)..Len(source)
      BY <1>1, RowEnds
    <3> QED BY <1>2, <3>1
  <2>10. ~(pos < RowEnd(i))
    <3> SUFFICES ASSUME pos < RowEnd(i) PROVE FALSE
      OBVIOUS
    <3>1. pos \in i..(RowEnd(i) - 1)
      BY <1>2, <2>7, <2>9
    <3> QED BY <1>1, <2>8, <3>1, RowInside
  <2> QED BY <1>2, <2>7, <2>9, <2>10
<1>4. ASSUME NEW i \in RowStarts, RowEnd(i) = pos PROVE CloseRow
  <2>1. Depth(pos - 1) = 2 /\ pos - 1 \in i..(RowEnd(i) - 1)
    <3>1. Depth(pos - 1) = 2
      BY <1>1, <1>4, RowEndIs
    <3>2. i \in 1..Len(source) /\ RowEnd(i) \in (i + 1)..Len(source)
      BY <1>1, RowEnds
    <3> QED BY <1>2, <1>4, <3>1, <3>2
  <2>2. Trail(pos - 1)[2] = FileEntry
    BY <1>1, <2>1, RowInside
  <2>3. beyond = 0
    BY <2>1, EndIs
  <2>4. Matches /\ Top.name = FileEntry /\ Len(stack) = 2
    BY <2>1, <2>2, <2>3, EndIs
  <2>5. Top.valid
    <3>1. \A k \in 2..2 : Trail(pos - 1)[k] \in KnownAt(k)
      BY <2>2 DEF KnownAt, Known, FileEntry
    <3>2. Top.valid <=> \A k \in 2..2 : Trail(pos - 1)[k] \in KnownAt(k)
      <4>1. 2 > 1
        OBVIOUS
      <4> QED BY <2>1, <2>3, <4>1, EndIs, Zenon
    <3> QED BY <3>1, <3>2, Zenon
  <2>6. ~CloseNothing
    BY <2>3, <2>4 DEF CloseNothing
  <2>7. ~CloseKey
    BY <2>4 DEF CloseKey, FileEntry, M, Lo
  <2>8. ~CloseText
    BY <2>4 DEF CloseText, TextSlots
  <2>9. ~CloseOther
    BY <2>4, <2>5, Zenon DEF CloseOther
  <2> QED BY <2>6, <2>7, <2>8, <2>9 DEF EndElement
<1> QED BY <1>3, <1>4

-----------------------------------------------------------------------------
(***************************************************************************)
(* Whose values a row has.                                                 *)
(***************************************************************************)
OwnFields == {"path", "media", "size", "digestAlg", "digest", "encAlg", "startKey", "kdf", "args"}
BagFields == OwnFields \cup {"version", "keySize", "keys"}

OfOne(b, own) == \A f \in OwnFields : b[f] # None => b[f].of = own

\* No key derivation of the row at i precedes its encryption data.
Measured(i) == \A k \in Starts(i, RowEnd(i)) :
                 PathAt(k)[Len(PathAt(k))] = M("key-derivation") => \E e \in DataOf(i) : e < k

\* While the row at i is being built.
BuiltOf(i, n, b, dks) ==
  /\ DOMAIN b = BagFields /\ OfOne(b, source[i].of)
  /\ b.version # None => b.version.of = source[i].of
  /\ (\E e \in DataOf(i) : e <= n) => dks.val = "0" \/ dks.of = source[i].of
  /\ b.keySize # None /\ Measured(i) => b.keySize.of = source[i].of

Building(n, b, dks) == \A i \in RowStarts : i <= n /\ n < RowEnd(i) => BuiltOf(i, n, b, dks)

\* Once it has been.
OwnRow(i, row) ==
  /\ OfOne(row, source[i].of)
  /\ row.version # None => row.version.of \in {source[i].of, IF Ordinal(i) = 1 THEN 0 ELSE source[i].of}
  /\ row.keySize # None /\ Measured(i) => row.keySize.of = source[i].of

Counted(rows, n) == rows \in Seq(Range(rows)) /\ Len(rows) = Cardinality(Ended(n))
Settled(rows, n) == \A i \in Ended(n) : OwnRow(i, rows[Ordinal(i)])

LEMMA NewBagIs == DOMAIN NewBag = BagFields /\ \A f \in OwnFields \cup {"version", "keySize"} : NewBag[f] = None
BY DEF NewBag, BagFields, OwnFields

\* The next event of a row that is open already.
LEMMA RowGoesOn ==
  ASSUME Sourcing, NEW kind, Reads(kind), pos \notin RowStarts,
         NEW i \in RowStarts, i <= pos, pos < RowEnd(i)
  PROVE  /\ i <= pos - 1 /\ pos - 1 < RowEnd(i) /\ i \in 1..Len(source) /\ RowEnd(i) \in 1..Len(source)
         /\ kind = "start" => Event.of = source[i].of
         /\ Depth(pos) >= 2 /\ Depth(pos - 1) >= 2 /\ Trail(pos)[2] = FileEntry
         /\ Trail(pos - 1)[2] = FileEntry
<1>1. /\ pos \in 1..Len(source) /\ Event = source[pos] /\ source[pos].kind = kind /\ Outlined
      /\ Len(source) \in Nat
  BY EventIs, Documented DEF Sourcing, Outlined
<1>2. i \in 1..Len(source) /\ RowEnd(i) \in (i + 1)..Len(source)
  BY <1>1, RowEnds
<1>3. pos \in i..(RowEnd(i) - 1) /\ i # pos
  BY <1>1, <1>2
<1>4. kind = "start" => Event.of = source[i].of
  BY <1>1, <1>3, PartOf
<1>5. pos - 1 \in i..(RowEnd(i) - 1)
  BY <1>1, <1>2, <1>3
<1> QED BY <1>1, <1>2, <1>3, <1>4, <1>5, RowInside

\* do_encryption_data
LEMMA DataBuilds ==
  ASSUME Sourcing, OpenData, NEW i \in RowStarts, i <= pos, pos < RowEnd(i),
         BuiltOf(i, pos - 1, bag, derivedKeySize)
  PROVE  BuiltOf(i, pos, bag', derivedKeySize')
<1>1. Reads("start") /\ StartElement /\ ~OpenRow
  BY StartTaken DEF StartElement, OpenData, Opens, OpenRow, M, FileEntry
<1>2. Event.of = source[i].of
  BY <1>1, RowTaken, RowGoesOn
<1>3. PICK b, own, e : b = bag /\ own = source[i].of /\ e = Event
  OBVIOUS
<1>4. DOMAIN b = BagFields /\ OfOne(b, own) /\ (b.version # None => b.version.of = own)
      /\ (b.keySize # None /\ Measured(i) => b.keySize.of = own)
  BY <1>3 DEF BuiltOf
<1>5. PICK alg : alg = IF Attr("checksum-type") = "1k" THEN Value("1k", Event) ELSE bag.digestAlg
  OBVIOUS
<1>6. alg # None => alg.of = own
  BY <1>2, <1>3, <1>4, <1>5 DEF Value, OfOne, OwnFields
<1>7. PICK dig : dig = IF alg = None THEN b.digest ELSE Value("digest", e)
  OBVIOUS
<1>8. dig # None => dig.of = own
  BY <1>2, <1>3, <1>4, <1>7 DEF Value, OfOne, OwnFields
<1>9. bag' = b \/ bag' = [b EXCEPT !.digestAlg = alg, !.digest = dig]
  BY <1>3, <1>5, <1>7 DEF OpenData
<1>10. /\ DOMAIN bag' = BagFields /\ OfOne(bag', own) /\ (bag'.version # None => bag'.version.of = own)
       /\ (bag'.keySize # None /\ Measured(i) => bag'.keySize.of = own)
  <2>1. CASE bag' = b
    BY <1>4, <2>1
  <2>2. CASE bag' = [b EXCEPT !.digestAlg = alg, !.digest = dig]
    <3>1. DOMAIN bag' = BagFields /\ bag'.version = b.version /\ bag'.keySize = b.keySize
      BY <1>4, <2>2 DEF OwnFields, BagFields
    <3>2. /\ bag'.digestAlg = alg /\ bag'.digest = dig
          /\ \A f \in OwnFields \ {"digestAlg", "digest"} : bag'[f] = b[f]
      BY <1>4, <2>2 DEF OwnFields, BagFields
    <3>3. OfOne(bag', own)
      BY <1>4, <1>6, <1>8, <3>2 DEF OfOne, OwnFields
    <3> QED BY <1>4, <3>1, <3>3
  <2> QED BY <1>9, <2>1, <2>2
<1>11. derivedKeySize'.val = "0"
  BY DEF OpenData, Unset
<1> QED BY <1>3, <1>10, <1>11 DEF BuiltOf

\* do_file_entry
LEMMA RowBegins ==
  ASSUME Sourcing, OpenRow, NEW dks
  PROVE  pos \in RowStarts /\ BuiltOf(pos, pos, bag', dks)
<1>1. StartElement /\ Reads("start")
  BY DEF StartElement, OpenRow, Opens
<1>2. pos \in RowStarts /\ Event = source[pos] /\ Outlined /\ pos \in Nat
  BY <1>1, RowTaken, EventIs DEF Sourcing
<1>3. PICK own, e : own = source[pos].of /\ e = Event
  OBVIOUS
<1>4. e.of = own
  BY <1>2, <1>3
<1> DEFINE given(a) == IF Attr(a) = "" THEN None ELSE Value(Attr(a), e)
<1>5. PICK p, m, v, s : /\ p = Value(Attr("path"), e) /\ m = Value(Attr("media"), e)
                        /\ v = given("version") /\ s = given("size")
  OBVIOUS
<1>6. p.of = own /\ m.of = own /\ (v # None => v.of = own) /\ (s # None => s.of = own)
  BY <1>4, <1>5 DEF Value
<1>7. bag' = [NewBag EXCEPT !.path = p, !.media = m, !.version = v, !.size = s]
  BY <1>3, <1>5 DEF OpenRow
<1>8. /\ DOMAIN bag' = BagFields /\ OfOne(bag', own) /\ (bag'.version # None => bag'.version.of = own)
      /\ bag'.keySize = None
  BY <1>6, <1>7, NewBagIs DEF OfOne, OwnFields, BagFields
<1>9. ~\E e2 \in DataOf(pos) : e2 <= pos
  <2> SUFFICES ASSUME NEW e2 \in DataOf(pos), e2 <= pos PROVE FALSE
    OBVIOUS
  <2>1. e2 \in Starts(pos, RowEnd(pos)) /\ Depth(e2) = 3
    BY <1>2, InnerIs
  <2>2. RowEnd(pos) \in Nat /\ Depth(pos) = 2
    <3>1. pos \in 1..Len(source) /\ RowEnd(pos) \in (pos + 1)..Len(source) /\ Len(source) \in Nat
      BY <1>2, RowEnds, Documented DEF Outlined
    <3> QED BY <1>2, <3>1, RowStart
  <2>3. e2 = pos
    BY <1>2, <2>1, <2>2 DEF Starts
  <2> QED BY <2>1, <2>2, <2>3
<1> QED BY <1>2, <1>3, <1>8, <1>9 DEF BuiltOf

\* do_algorithm
LEMMA AlgorithmBuilds ==
  ASSUME Sourcing, OpenAlgorithm, NEW i \in RowStarts, i <= pos, pos < RowEnd(i),
         BuiltOf(i, pos - 1, bag, derivedKeySize), \A e \in DataOf(i) : e <= pos => e <= pos - 1
  PROVE  BuiltOf(i, pos, bag', derivedKeySize')
<1>1. Reads("start") /\ StartElement /\ ~OpenRow
  BY StartTaken DEF StartElement, OpenAlgorithm, Opens, OpenRow, M, FileEntry
<1>2. Event.of = source[i].of
  BY <1>1, RowTaken, RowGoesOn
<1>3. PICK b, own, e : b = bag /\ own = source[i].of /\ e = Event
  OBVIOUS
<1>4. DOMAIN b = BagFields /\ OfOne(b, own) /\ (b.version # None => b.version.of = own)
      /\ (b.keySize # None /\ Measured(i) => b.keySize.of = own)
  BY <1>3 DEF BuiltOf
<1>5. PICK alg : alg = Value(Attr("algorithm-name"), Event)
  OBVIOUS
<1>6. alg.of = own
  BY <1>2, <1>3, <1>5 DEF Value
<1>7. bag' = b \/ bag' = [b EXCEPT !.encAlg = alg]
  BY <1>3, <1>5 DEF OpenAlgorithm, rowState
<1>8. derivedKeySize' = derivedKeySize \/ derivedKeySize'.of = own
  BY <1>2, <1>3 DEF OpenAlgorithm, rowState, Value
<1>9. /\ DOMAIN bag' = BagFields /\ OfOne(bag', own) /\ (bag'.version # None => bag'.version.of = own)
      /\ (bag'.keySize # None /\ Measured(i) => bag'.keySize.of = own)
  BY <1>4, <1>6, <1>7 DEF OfOne, OwnFields, BagFields
<1>10. (\E e2 \in DataOf(i) : e2 <= pos) => derivedKeySize'.val = "0" \/ derivedKeySize'.of = own
  BY <1>3, <1>8 DEF BuiltOf
<1> QED BY <1>3, <1>9, <1>10 DEF BuiltOf

\* do_start_key_alg
LEMMA StartKeyBuilds ==
  ASSUME Sourcing, OpenStartKey, NEW i \in RowStarts, i <= pos, pos < RowEnd(i),
         BuiltOf(i, pos - 1, bag, derivedKeySize), \A e \in DataOf(i) : e <= pos => e <= pos - 1
  PROVE  BuiltOf(i, pos, bag', derivedKeySize')
<1>1. Reads("start") /\ StartElement /\ ~OpenRow
  BY StartTaken DEF StartElement, OpenStartKey, Opens, OpenRow, M, FileEntry
<1>2. Event.of = source[i].of
  BY <1>1, RowTaken, RowGoesOn
<1>3. PICK b, own, e : b = bag /\ own = source[i].of /\ e = Event
  OBVIOUS
<1>4. DOMAIN b = BagFields /\ OfOne(b, own) /\ (b.version # None => b.version.of = own)
      /\ (b.keySize # None /\ Measured(i) => b.keySize.of = own)
  BY <1>3 DEF BuiltOf
<1>5. PICK key : key = Value(Attr("start-key-generation-name"), Event)
  OBVIOUS
<1>6. key.of = own
  BY <1>2, <1>3, <1>5 DEF Value
<1>7. /\ bag' = b \/ bag' = [b EXCEPT !.startKey = key]
      /\ derivedKeySize' = derivedKeySize
  BY <1>3, <1>5 DEF OpenStartKey
<1>8. /\ DOMAIN bag' = BagFields /\ OfOne(bag', own) /\ (bag'.version # None => bag'.version.of = own)
      /\ (bag'.keySize # None /\ Measured(i) => bag'.keySize.of = own)
  BY <1>4, <1>6, <1>7 DEF OfOne, OwnFields, BagFields
<1> QED BY <1>3, <1>7, <1>8 DEF BuiltOf

\* do_key_derivation, which may take over a key size that do_encryption_data and
\* do_algorithm have left.
LEMMA DerivationBuilds ==
  ASSUME Sourcing, OpenDerivation, NEW i \in RowStarts, i <= pos, pos < RowEnd(i),
         BuiltOf(i, pos - 1, bag, derivedKeySize), \A e \in DataOf(i) : e <= pos => e <= pos - 1
  PROVE  BuiltOf(i, pos, bag', derivedKeySize')
<1>1. Reads("start") /\ StartElement /\ ~OpenRow
  BY StartTaken DEF StartElement, OpenDerivation, Opens, OpenRow, M, FileEntry
<1>2. /\ Event.of = source[i].of /\ i <= pos - 1 /\ i \in 1..Len(source) /\ RowEnd(i) \in 1..Len(source)
  BY <1>1, RowTaken, RowGoesOn
<1>3. PICK b, own, e, dks : b = bag /\ own = source[i].of /\ e = Event /\ dks = derivedKeySize
  OBVIOUS
<1>4. DOMAIN b = BagFields /\ OfOne(b, own) /\ (b.version # None => b.version.of = own)
      /\ (b.keySize # None /\ Measured(i) => b.keySize.of = own)
      /\ ((\E e2 \in DataOf(i) : e2 <= pos) => dks.val = "0" \/ dks.of = own)
  BY <1>3 DEF BuiltOf
<1>5. PICK size : size = IF Attr("key-size") # "" THEN Value(Attr("key-size"), Event)
                         ELSE IF dks.val = "0" THEN Value("16", Event) ELSE dks
  OBVIOUS
<1>6. (\E e2 \in DataOf(i) : e2 <= pos) => size.of = own
  BY <1>2, <1>3, <1>4, <1>5 DEF Value
<1>7. Measured(i) => size.of = own
  <2> SUFFICES ASSUME Measured(i) PROVE \E e2 \in DataOf(i) : e2 <= pos
    BY <1>6
  <2>1. pos \in 1..Len(source) /\ source[pos].kind = "start" /\ Outlined /\ Len(source) \in Nat
    BY <1>1, EventIs, Documented DEF Sourcing, Outlined
  <2>2. pos \in Starts(i, RowEnd(i))
    BY <1>2, <2>1 DEF Starts
  <2>3. PathAt(pos)[Len(PathAt(pos))] = M("key-derivation")
    BY <1>1, <2>1, StartTaken, PathIsTrail DEF Here
  <2>4. PICK e2 \in DataOf(i) : e2 < pos
    BY <2>2, <2>3 DEF Measured
  <2>5. e2 \in Nat
    BY <1>2, <2>1 DEF DataOf, At, Starts
  <2> QED BY <2>1, <2>4, <2>5
<1>8. PICK kdf, args, pgpKdf :
         /\ kdf = Value(Attr("key-derivation-name"), Event) /\ pgpKdf = Value("pgp", Event)
         /\ args = Value("positive", Event)
  OBVIOUS
<1>9. kdf.of = own /\ args.of = own /\ pgpKdf.of = own
  BY <1>2, <1>3, <1>8 DEF Value
<1>10. \/ bag' = b /\ derivedKeySize' = dks
       \/ bag' = [b EXCEPT !.kdf = pgpKdf] /\ derivedKeySize' = dks
       \/ bag' = [b EXCEPT !.kdf = kdf, !.keySize = size, !.args = args] /\ derivedKeySize' = size
       \/ bag' = [b EXCEPT !.kdf = kdf, !.keySize = size, !.args = b.args] /\ derivedKeySize' = size
  <2> DEFINE name == Attr("key-derivation-name")
             good == name = "argon2id" => Costs = "positive"
  <2>1. \/ UNCHANGED rowState
        \/ /\ derivedKeySize' = size
           /\ bag' = [bag EXCEPT !.kdf = kdf, !.keySize = size,
                                 !.args = IF name = "argon2id" /\ good THEN args ELSE @]
        \/ UNCHANGED derivedKeySize /\ bag' = [bag EXCEPT !.kdf = pgpKdf]
        \/ UNCHANGED derivedKeySize /\ UNCHANGED bag
    BY <1>3, <1>5, <1>8 DEF OpenDerivation
  <2> QED BY <1>3, <2>1 DEF rowState
<1>11. DOMAIN bag' = BagFields /\ OfOne(bag', own) /\ (bag'.version # None => bag'.version.of = own)
  <2>1. CASE bag' = b
    BY <1>4, <2>1
  <2>2. CASE bag' = [b EXCEPT !.kdf = pgpKdf]
    BY <1>4, <1>9, <2>2 DEF OfOne, OwnFields, BagFields
  <2>3. CASE \/ bag' = [b EXCEPT !.kdf = kdf, !.keySize = size, !.args = args]
             \/ bag' = [b EXCEPT !.kdf = kdf, !.keySize = size, !.args = b.args]
    <3>1. PICK arg : /\ bag' = [b EXCEPT !.kdf = kdf, !.keySize = size, !.args = arg]
                     /\ arg # None => arg.of = own
      BY <1>4, <1>9, <2>3 DEF OfOne, OwnFields
    <3>2. DOMAIN bag' = BagFields /\ bag'.version = b.version
      BY <1>4, <3>1 DEF BagFields
    <3>3. ASSUME NEW f \in OwnFields, bag'[f] # None PROVE bag'[f].of = own
      <4>1. f \in BagFields /\ f # "keySize"
        BY DEF BagFields, OwnFields
      <4>2. bag'[f] = IF f = "kdf" THEN kdf ELSE IF f = "args" THEN arg ELSE b[f]
        BY <1>4, <3>1, <4>1
      <4> QED BY <1>4, <1>9, <3>1, <3>3, <4>2 DEF OfOne
    <3> QED BY <1>4, <3>2, <3>3 DEF OfOne
  <2> QED BY <1>10, <2>1, <2>2, <2>3
<1>12. bag'.keySize # None /\ Measured(i) => bag'.keySize.of = own
  BY <1>4, <1>7, <1>10 DEF BagFields, OwnFields
<1>13. (\E e2 \in DataOf(i) : e2 <= pos) => derivedKeySize'.val = "0" \/ derivedKeySize'.of = own
  BY <1>4, <1>6, <1>10
<1> QED BY <1>3, <1>11, <1>12, <1>13 DEF BuiltOf

\* The next event of a row, whatever it is.
LEMMA BuildsOn ==
  ASSUME Sourcing, StartElement \/ EndElement \/ Characters,
         Building(pos - 1, bag, derivedKeySize)
  PROVE  Building(pos, bag', derivedKeySize')
<1> SUFFICES ASSUME NEW i \in RowStarts, i <= pos, pos < RowEnd(i)
             PROVE  BuiltOf(i, pos, bag', derivedKeySize')
  BY DEF Building
<1>0. PICK kind : Reads(kind) /\ (StartElement => kind = "start") /\ (kind = "start" => StartElement)
  <2>1. StartElement => Reads("start")
    BY StartIs
  <2>2. EndElement => Reads("end")
    BY EndIs
  <2>3. Characters => Reads("text")
    BY DEF Characters
  <2> QED BY <2>1, <2>2, <2>3
<1>1. CASE OpenRow
  <2>1. pos \in RowStarts /\ BuiltOf(pos, pos, bag', derivedKeySize')
    BY <1>1, RowBegins
  <2>2. i = pos
    <3> SUFFICES ASSUME i # pos PROVE FALSE
      OBVIOUS
    <3>1. i \in 1..Len(source) /\ pos \in 1..Len(source) /\ Len(source) \in Nat /\ Outlined
      BY <1>0, EventIs, RowEnds, Documented DEF Sourcing, Outlined
    <3>2. i < pos
      BY <3>1
    <3>3. RowEnd(i) < pos
      BY <2>1, <3>1, <3>2, RowsInOrder
    <3>4. RowEnd(i) \in Nat
      <4>1. RowEnd(i) \in (i + 1)..Len(source)
        BY <3>1, RowEnds
      <4> QED BY <3>1, <4>1
    <3> QED BY <3>1, <3>3, <3>4
  <2> QED BY <2>1, <2>2
<1>2. CASE ~OpenRow
  <2>1. pos \notin RowStarts
    <3>1. Outlined /\ source[pos].kind = kind
      BY <1>0, EventIs DEF Sourcing
    <3>2. pos \in RowStarts => kind = "start"
      BY <3>1, RowStart
    <3> QED BY <1>0, <1>2, <3>2, RowTaken
  <2>2. /\ i <= pos - 1 /\ pos - 1 < RowEnd(i) /\ Outlined /\ pos \in 1..Len(source)
        /\ i \in 1..Len(source) /\ RowEnd(i) \in 1..Len(source) /\ Len(source) \in Nat
    BY <1>0, <2>1, RowGoesOn, EventIs, Documented DEF Sourcing, Outlined
  <2>3. BuiltOf(i, pos - 1, bag, derivedKeySize)
    BY <2>2 DEF Building
  <2>4. ASSUME ~OpenData PROVE \A e \in DataOf(i) : e <= pos => e <= pos - 1
    <3> SUFFICES ASSUME NEW e \in DataOf(i), e <= pos, ~(e <= pos - 1) PROVE FALSE
      OBVIOUS
    <3>1. e \in Starts(i, RowEnd(i)) /\ Depth(e) = 3 /\ Trail(e)[2] = FileEntry
          /\ Trail(e)[3] = M("encryption-data")
      BY <2>2, InnerIs
    <3>2. e = pos /\ source[e].kind = "start"
      BY <2>2, <3>1 DEF Starts
    <3>3. StartElement
      BY <1>0, <3>2, EventIs
    <3>4. Here = <<3, M("encryption-data")>>
      BY <3>1, <3>2 DEF Here
    <3>5. ~OpenTooDeep /\ ~OpenRoot
      BY <3>1, <3>2, <3>3, StartTaken
    <3>6. ~OpenKey /\ ~OpenMethod /\ ~OpenAlgorithm /\ ~OpenStartKey /\ ~OpenDerivation
      BY <3>3, <3>4, StartTaken DEF M, Lo
    <3>7. ~OpenText
      BY <3>3, <3>4, StartTaken DEF M, Lo, TextSlots
    <3>8. ~OpenOther
      <4>1. \A k \in 2..Depth(pos) : Trail(pos)[k] \in KnownAt(k)
        <5>1. 2..3 = {2, 3}
          OBVIOUS
        <5>2. FileEntry \in KnownAt(2) /\ M("encryption-data") \in KnownAt(3)
          BY DEF KnownAt, Known
        <5> QED BY <3>1, <3>2, <5>1, <5>2
      <4>2. Here \in Handled
        BY <3>4 DEF Handled
      <4> QED BY <3>3, <4>1, <4>2, StartTaken, Zenon
    <3> QED BY <1>2, <2>4, <3>3, <3>5, <3>6, <3>7, <3>8 DEF StartElement
  <2>5. CASE OpenData
    BY <2>2, <2>3, <2>5, DataBuilds
  <2>6. CASE OpenAlgorithm
    <3>1. ~OpenData
      BY <2>6, StartTaken DEF StartElement, M
    <3> QED BY <2>2, <2>3, <2>4, <2>6, <3>1, AlgorithmBuilds
  <2>7. CASE OpenStartKey
    <3>1. ~OpenData
      BY <2>7, StartTaken DEF StartElement, M
    <3> QED BY <2>2, <2>3, <2>4, <2>7, <3>1, StartKeyBuilds
  <2>8. CASE OpenDerivation
    <3>1. ~OpenData
      BY <2>8, StartTaken DEF StartElement, M
    <3> QED BY <2>2, <2>3, <2>4, <2>8, <3>1, DerivationBuilds
  <2>9. CASE ~OpenData /\ bag' = bag /\ derivedKeySize' = derivedKeySize
    BY <2>3, <2>4, <2>9 DEF BuiltOf
  <2>10. ~CloseRow
    <3>1. Outlined
      BY DEF Sourcing
    <3> SUFFICES ASSUME CloseRow PROVE FALSE
      OBVIOUS
    <3>2. PICK j \in RowStarts : RowEnd(j) = pos
      BY RowClosed DEF EndElement
    <3>3. i \in Nat /\ j \in Nat /\ RowEnd(i) \in Nat /\ j < RowEnd(j) /\ pos \in Nat
      <4>1. j \in 1..Len(source) /\ RowEnd(j) \in (j + 1)..Len(source)
        BY <2>2, RowEnds
      <4> QED BY <2>2, <4>1
    <3>4. i # j
      BY <3>2, <3>3
    <3>5. i < j => RowEnd(i) < j
      BY <2>2, RowsInOrder
    <3>6. j < i => RowEnd(j) < i
      BY <2>2, RowsInOrder
    <3> QED BY <3>2, <3>3, <3>4, <3>5, <3>6
  <2>11. OpenTooDeep \/ OpenRoot \/ OpenKey \/ OpenMethod \/ OpenText \/ OpenOther
           => bag' = bag /\ derivedKeySize' = derivedKeySize
    BY DEF OpenTooDeep, OpenRoot, OpenKey, OpenMethod, OpenText, OpenOther, rowState
  <2>12. EndElement \/ Characters => bag' = bag /\ derivedKeySize' = derivedKeySize
    BY <2>10 DEF EndElement, CloseNothing, CloseKey, CloseText, CloseOther, Characters, rowState
  <2> QED BY <1>2, <2>5, <2>6, <2>7, <2>8, <2>9, <2>11, <2>12 DEF StartElement
<1> QED BY <1>1, <1>2

\* What the end of a row makes of its bag.
FinishedFrom(row, b, v, ordinal) ==
  /\ \A f \in BagFields \ {"version", "keys"} : row[f] = b[f]
  /\ row.version = b.version \/ (ordinal = 1 /\ row.version = v)

\* Every row that has ended is where it is counted; the last is what was built.
LEMMA RowsSettle ==
  ASSUME Sourcing, StartElement \/ EndElement \/ Characters, Counted(bags, pos - 1),
         \A i \in RowStarts : i <= pos - 1 /\ pos - 1 < RowEnd(i) => DOMAIN bag = BagFields
  PROVE  /\ Counted(bags', pos)
         /\ \A i \in Ended(pos) :
              \/ i \in Ended(pos - 1) /\ bags'[Ordinal(i)] = bags[Ordinal(i)]
              \/ /\ i \in RowStarts /\ RowEnd(i) = pos /\ i <= pos - 1 /\ pos - 1 < RowEnd(i) /\ CloseRow
                 /\ FinishedFrom(bags'[Ordinal(i)], bag, version, Ordinal(i))
<1>0. PICK kind : Reads(kind) /\ (kind = "end" => EndElement)
  <2>1. StartElement => Reads("start")
    BY StartIs
  <2>2. EndElement => Reads("end")
    BY EndIs
  <2>3. Characters => Reads("text")
    BY DEF Characters
  <2> QED BY <2>1, <2>2, <2>3
<1>1. /\ pos \in 1..Len(source) /\ source[pos].kind = kind /\ Outlined /\ Len(source) \in Nat
  BY <1>0, EventIs, Documented DEF Sourcing, Outlined
<1>2. PICK l, m, n : l = Cardinality(Ended(pos - 1)) /\ m = Cardinality(Ended(pos)) /\ n = Len(bags)
  OBVIOUS
<1>3. bags \in Seq(Range(bags)) /\ n = l /\ n \in Nat
  BY <1>2 DEF Counted
<1>4. CASE \E i \in RowStarts : RowEnd(i) = pos
  <2>1. PICK i \in RowStarts : RowEnd(i) = pos
    BY <1>4
  <2>2. Ordinal(i) = l + 1 /\ m = Ordinal(i)
    BY <1>1, <1>2, <2>1, OrdinalIs
  <2>3. CloseRow
    <3>1. source[pos].kind = "end"
      BY <1>1, <2>1, RowEndIs
    <3> QED BY <1>0, <1>1, <2>1, <3>1, RowClosed
  <2>4. i \in Nat /\ i <= pos - 1 /\ pos - 1 < RowEnd(i)
    <3>1. i \in 1..Len(source) /\ RowEnd(i) \in (i + 1)..Len(source)
      BY <1>1, RowEnds
    <3> QED BY <1>1, <2>1, <3>1
  <2>5. DOMAIN bag = BagFields
    BY <2>4
  <2>6. PICK row : /\ bags' = Append(bags, row) /\ FinishedFrom(row, bag, version, Ordinal(i))
    <3> DEFINE first == bags = <<>>
               named == IF first /\ bag.version = None THEN [bag EXCEPT !.version = version] ELSE bag
               keyed == IF first /\ ~ignore THEN [named EXCEPT !.keys = keys] ELSE named
    <3>1. bags' = Append(bags, keyed)
      BY <2>3 DEF CloseRow
    <3>2. first => Ordinal(i) = 1
      <4>1. bags = <<>> => n = 0
        BY <1>2
      <4> QED BY <1>3, <2>2, <4>1
    <3>3. DOMAIN named = BagFields /\ FinishedFrom(named, bag, version, Ordinal(i))
      BY <2>5, <3>2 DEF FinishedFrom, BagFields, OwnFields
    <3>4. keyed = named \/ keyed = [named EXCEPT !.keys = keys]
      OBVIOUS
    <3> HIDE DEF keyed, named
    <3>5. FinishedFrom(keyed, bag, version, Ordinal(i))
      BY <3>3, <3>4 DEF FinishedFrom, BagFields, OwnFields
    <3> QED BY <3>1, <3>5
  <2>7. PICK more : more = Append(bags, row)
    OBVIOUS
  <2>8. /\ bags \in Seq(Range(bags) \cup {row}) /\ more \in Seq(Range(bags) \cup {row})
        /\ Len(more) = n + 1 /\ more[n + 1] = row /\ \A j \in 1..n : more[j] = bags[j]
    <3>1. PICK S : S = Range(bags) \cup {row}
      OBVIOUS
    <3>2. bags \in Seq(S) /\ row \in S
      BY <1>3, <3>1
    <3> QED BY <1>2, <2>7, <3>1, <3>2
  <2>9. Counted(bags', pos)
    BY <1>2, <1>3, <2>2, <2>6, <2>7, <2>8, OwnRange DEF Counted
  <2>10. ASSUME NEW j \in Ended(pos), j # i PROVE j \in Ended(pos - 1) /\ bags'[Ordinal(j)] = bags[Ordinal(j)]
    <3>1. j \in RowStarts /\ RowEnd(j) <= pos
      BY DEF Ended
    <3>2. /\ j \in Nat /\ RowEnd(j) \in Nat /\ j < RowEnd(j)
      <4>1. j \in 1..Len(source) /\ RowEnd(j) \in (j + 1)..Len(source)
        BY <1>1, <3>1, RowEnds
      <4> QED BY <1>1, <4>1
    <3>3. RowEnd(j) # pos
      <4>1. i < j => RowEnd(i) < j
        BY <1>1, <3>1, RowsInOrder
      <4>2. j < i => RowEnd(j) < i
        BY <1>1, <3>1, RowsInOrder
      <4> QED BY <1>1, <2>1, <2>4, <2>10, <3>2, <4>1, <4>2
    <3>4. j \in Ended(pos - 1)
      BY <1>1, <3>1, <3>2, <3>3 DEF Ended
    <3>5. Ordinal(j) \in 1..n
      <4>1. pos - 1 \in Nat
        BY <1>1
      <4> QED BY <1>1, <1>2, <1>3, <3>4, <4>1, OrdinalWithin
    <3> QED BY <2>6, <2>7, <2>8, <3>4, <3>5
  <2>11. FinishedFrom(bags'[Ordinal(i)], bag, version, Ordinal(i))
    <3>1. bags'[Ordinal(i)] = row
      BY <1>3, <2>2, <2>6, <2>7, <2>8
    <3> QED BY <2>6, <3>1
  <2> QED BY <2>1, <2>3, <2>4, <2>9, <2>10, <2>11
<1>5. CASE ~\E i \in RowStarts : RowEnd(i) = pos
  <2>1. Ended(pos) = Ended(pos - 1)
    <3>1. pos \in Nat
      BY <1>1
    <3> QED BY <1>1, <1>5, <3>1, NoneEnds
  <2>2. bags' = bags
    <3>1. ~CloseRow
      <4> SUFFICES ASSUME CloseRow PROVE FALSE
        OBVIOUS
      <4>1. EndElement
        BY DEF EndElement
      <4> QED BY <1>5, <4>1, RowClosed
    <3> QED BY <3>1 DEF StartElement, OpenTooDeep, OpenRoot, OpenRow, OpenKey, OpenMethod,
            OpenData, OpenAlgorithm, OpenStartKey, OpenDerivation, OpenText, OpenOther, EndElement,
            CloseNothing, CloseKey, CloseText, CloseOther, Characters
  <2> QED BY <2>1, <2>2 DEF Counted
<1> QED BY <1>4, <1>5

\* The document is what it was.
LEMMA Frozen ==
  ASSUME UNCHANGED <<source, outline>>
  PROVE  /\ RowStarts' = RowStarts /\ (Outlined => Outlined')
         /\ \A i : /\ RowEnd(i)' = RowEnd(i) /\ DataOf(i)' = DataOf(i)
                   /\ Ordinal(i)' = Ordinal(i) /\ (Measured(i) => Measured(i)') /\ (Measured(i)' => Measured(i))
         /\ \A n : Ended(n)' = Ended(n) /\ PathAt(n)' = PathAt(n)
         /\ \A m, n : Starts(m, n)' = Starts(m, n)
         /\ \A i, x : Within(i, x)' = Within(i, x)
<1>1. RowStarts' = RowStarts /\ (Outlined => Outlined')
  BY DEF RowStarts, Starts, PathAt, Outlined
<1>2. \A i : RowEnd(i)' = RowEnd(i)
  BY DEF RowEnd, PathAt
<1>3. \A n : Ended(n)' = Ended(n) /\ PathAt(n)' = PathAt(n)
  BY <1>1, <1>2 DEF Ended, PathAt
<1>4. \A m, n : Starts(m, n)' = Starts(m, n)
  BY DEF Starts
<1>5. ASSUME NEW i, NEW x PROVE DataOf(i)' = DataOf(i) /\ Within(i, x)' = Within(i, x)
  BY <1>2, <1>3, <1>4 DEF DataOf, Within, At
<1>6. \A i : Ordinal(i)' = Ordinal(i)
  BY <1>1 DEF Ordinal
<1>7. ASSUME NEW i PROVE (Measured(i) => Measured(i)') /\ (Measured(i)' => Measured(i))
  BY <1>2, <1>3, <1>4, <1>5 DEF Measured
<1> QED BY <1>1, <1>2, <1>3, <1>4, <1>5, <1>6, <1>7

\* Nothing in the rows, or in the one being built, is of another part.
Unborrowed ==
  /\ Outlined
  /\ phase = "source" => /\ Rooted /\ Counted(bags, pos - 1) /\ Settled(bags, pos - 1)
                         /\ Building(pos - 1, bag, derivedKeySize)
                         /\ version # None => version.of = 0
  /\ fate = "whole" => Settled(before, Len(source)) /\ Counted(before, Len(source))

LEMMA UnborrowedAtFirst == Init => Unborrowed
<1> SUFFICES ASSUME Init PROVE Unborrowed
  OBVIOUS
<1>1. /\ source \in Documents /\ phase = "source" /\ pos = 1 /\ fate = "none" /\ stack = <<>>
      /\ bags = <<>> /\ version = None /\ Outlined
  BY DEF Init, Outlined
<1>2. \A i \in RowStarts : i > 0 /\ i \in Nat /\ RowEnd(i) > 0 /\ RowEnd(i) \in Nat
  <2> SUFFICES ASSUME NEW i \in RowStarts PROVE i > 0 /\ i \in Nat /\ RowEnd(i) > 0 /\ RowEnd(i) \in Nat
    OBVIOUS
  <2>1. i \in 1..Len(source) /\ RowEnd(i) \in (i + 1)..Len(source) /\ Len(source) \in Nat
    BY <1>1, RowEnds, Documented
  <2> QED BY <2>1
<1>3. Ended(0) = {} /\ pos - 1 = 0
  BY <1>1, <1>2 DEF Ended
<1>4. Counted(bags, pos - 1) /\ Settled(bags, pos - 1)
  <2>1. Cardinality({}) = 0 /\ bags \in Seq(Range(bags)) /\ Len(bags) = 0
    BY <1>1, FS_EmptySet
  <2> QED BY <1>3, <2>1 DEF Counted, Settled
<1>5. Building(pos - 1, bag, derivedKeySize)
  BY <1>2, <1>3 DEF Building
<1>6. Rooted
  BY <1>1 DEF Rooted
<1> QED BY <1>1, <1>4, <1>5, <1>6 DEF Unborrowed

LEMMA UnborrowedRead ==
  ASSUME Inv, Unborrowed, phase = "source", StartElement \/ EndElement \/ Characters
  PROVE  Unborrowed'
<1>1. Sourcing
  BY DEF Inv, Unborrowed, Sourcing
<1>2. \E kind : Reads(kind)
  BY StartIs, EndIs, <1>1 DEF Characters
<1>3. /\ UNCHANGED <<source, outline>> /\ phase' = "source" /\ pos' - 1 = pos /\ pos \in 1..Len(source)
      /\ fate' = "none" /\ Outlined /\ Len(source) \in Nat
  <2>1. fate = "none" /\ Outlined
    BY DEF Inv, Unborrowed
  <2> QED BY <1>1, <1>2, <2>1, EventIs, Documented DEF Sourcing, Outlined
<1>4. Rooted'
  BY <1>1, RootedOn DEF Sourcing
<1>5. Building(pos, bag', derivedKeySize')
  BY <1>1, BuildsOn DEF Unborrowed
<1>6. /\ Counted(bags', pos)
      /\ \A i \in Ended(pos) :
              \/ i \in Ended(pos - 1) /\ bags'[Ordinal(i)] = bags[Ordinal(i)]
              \/ /\ i \in RowStarts /\ RowEnd(i) = pos /\ i <= pos - 1 /\ pos - 1 < RowEnd(i)
                 /\ FinishedFrom(bags'[Ordinal(i)], bag, version, Ordinal(i))
  <2>1. \A i \in RowStarts : i <= pos - 1 /\ pos - 1 < RowEnd(i) => DOMAIN bag = BagFields
    BY DEF Unborrowed, Building, BuiltOf
  <2>2. Counted(bags, pos - 1)
    BY DEF Unborrowed
  <2> QED BY <1>1, <2>1, <2>2, RowsSettle
<1>7. Settled(bags', pos)
  <2> SUFFICES ASSUME NEW i \in Ended(pos) PROVE OwnRow(i, bags'[Ordinal(i)])
    BY DEF Settled
  <2>1. CASE i \in Ended(pos - 1) /\ bags'[Ordinal(i)] = bags[Ordinal(i)]
    BY <2>1 DEF Unborrowed, Settled
  <2>2. CASE /\ i \in RowStarts /\ i <= pos - 1 /\ pos - 1 < RowEnd(i)
             /\ FinishedFrom(bags'[Ordinal(i)], bag, version, Ordinal(i))
    <3>1. BuiltOf(i, pos - 1, bag, derivedKeySize) /\ (version # None => version.of = 0)
      BY <2>2 DEF Unborrowed, Building
    <3>2. PICK row : row = bags'[Ordinal(i)]
      OBVIOUS
    <3>3. /\ \A f \in OwnFields \cup {"keySize"} : row[f] = bag[f]
          /\ row.version = bag.version \/ (Ordinal(i) = 1 /\ row.version = version)
      BY <2>2, <3>2 DEF FinishedFrom, BagFields, OwnFields
    <3>4. OfOne(row, source[i].of)
      BY <3>1, <3>3 DEF BuiltOf, OfOne
    <3>5. row.version # None =>
            row.version.of \in {source[i].of, IF Ordinal(i) = 1 THEN 0 ELSE source[i].of}
      BY <3>1, <3>3 DEF BuiltOf
    <3>6. row.keySize # None /\ Measured(i) => row.keySize.of = source[i].of
      BY <3>1, <3>3 DEF BuiltOf
    <3> QED BY <3>2, <3>4, <3>5, <3>6 DEF OwnRow
  <2> QED BY <1>6, <2>1, <2>2
<1>8. version' # None => version'.of = 0
  <2>1. CASE OpenRoot
    <3>1. StartElement
      BY <2>1 DEF StartElement
    <3>2. Event = source[pos] /\ Depth(pos) = 1 /\ source[pos].kind = "start"
      BY <1>1, <2>1, <3>1, StartIs, StartTaken, EventIs
    <3>3. Event.of = 0
      BY <1>3, <3>2, PartOf
    <3> QED BY <2>1, <3>3 DEF OpenRoot, Value, Unborrowed
  <2>2. CASE version' = version
    BY <2>2 DEF Unborrowed
  <2> QED BY <2>1, <2>2 DEF StartElement, OpenTooDeep, OpenRow, OpenKey, OpenMethod,
            OpenData, OpenAlgorithm, OpenStartKey, OpenDerivation, OpenText, OpenOther, EndElement,
            CloseNothing, CloseRow, CloseKey, CloseText, CloseOther, Closes, Characters
<1>9. Outlined'
  BY <1>3, Frozen
<1>10. Counted(bags, pos - 1)'
  BY <1>3, <1>6, Frozen DEF Counted
<1>11. Settled(bags, pos - 1)'
  BY <1>3, <1>7, Frozen DEF Settled, OwnRow, OfOne
<1>12. Building(pos - 1, bag, derivedKeySize)'
  BY <1>3, <1>5, Frozen DEF Building, BuiltOf, OfOne
<1> QED BY <1>3, <1>4, <1>8, <1>9, <1>10, <1>11, <1>12 DEF Unborrowed

\* A source that is read to its end leaves nothing open.
LEMMA AllReturned ==
  ASSUME Inv, Outlined, EndOfSource
  PROVE  /\ before' = bags /\ pos - 1 = Len(source) /\ UNCHANGED <<source, outline>>
         /\ phase = "source" /\ phase' \in {"rewriting", "done"} /\ fate' = "whole"
         /\ Len(source) \in Nat
<1>1. /\ phase = "source" /\ pos = Len(Input) + 1 /\ before' = Returned /\ UNCHANGED <<source, outline>>
      /\ phase' \in {"rewriting", "done"} /\ fate' = "whole"
  BY DEF EndOfSource, document
<1>2. Input = source /\ Len(source) \in Nat /\ Depth(Len(source)) = 0
  BY <1>1, Documented DEF Input, Outlined
<1>3. pos - 1 = Len(source)
  BY <1>1, <1>2
<1>4. stack = <<>>
  <2>1. PICK o : o = Open(source, Len(source))
    OBVIOUS
  <2>2. Len(o) = 0
    BY <1>2, <2>1 DEF Depth
  <2>3. Shadows(stack, beyond, o)
    BY <1>1, <1>2, <1>3, <2>1 DEF Inv, Parses
  <2>4. Cut(o) = 0
    BY <2>2, DepthAssumption DEF Cut
  <2> QED BY <2>3, <2>4 DEF Shadows
<1> QED BY <1>1, <1>2, <1>3, <1>4 DEF Returned

\* What every other step leaves.
LEMMA OtherSteps ==
  ASSUME Inv, [Next]_vars
  PROVE  /\ UNCHANGED <<source, outline>>
         /\ \/ phase = "source" /\ (StartElement \/ EndElement \/ Characters)
            \/ EndOfSource
            \/ phase' # "source" /\ (fate' = "whole" => UNCHANGED <<fate, before>>)
            \/ UNCHANGED vars
<1>1. CASE StartElement \/ EndElement \/ Characters
  <2>1. \E kind : Reads(kind)
    BY <1>1 DEF StartElement, OpenTooDeep, OpenRoot, OpenRow, OpenKey, OpenMethod, OpenData,
         OpenAlgorithm, OpenStartKey, OpenDerivation, OpenText, OpenOther, Opens, EndElement,
         CloseNothing, CloseRow, CloseKey, CloseText, CloseOther, Closes, Characters
  <2>2. phase \in {"source", "rebuilt"} /\ UNCHANGED <<source, outline, phase, fate, before>>
    BY <2>1 DEF Reads, document
  <2> QED BY <1>1, <2>2
<1>2. CASE EndOfSource
  BY <1>2 DEF EndOfSource, document
<1>3. CASE Malformed \/ CutShort
  BY <1>3 DEF Malformed, CutShort, document
<1>4. CASE Strip
  BY <1>4 DEF Strip, KeepEvent, BeginSkip, SkipEvent, Rewrites, Reopen, document
<1>5. CASE EndOfRebuilt
  BY <1>5 DEF EndOfRebuilt, document
<1>6. CASE Done \/ UNCHANGED vars
  BY <1>6 DEF Done, vars
<1> QED BY <1>1, <1>2, <1>3, <1>4, <1>5, <1>6 DEF Next

LEMMA UnborrowedStep == Inv /\ Unborrowed /\ [Next]_vars => Unborrowed'
<1> SUFFICES ASSUME Inv, Unborrowed, [Next]_vars PROVE Unborrowed'
  OBVIOUS
<1>1. UNCHANGED <<source, outline>> /\ Outlined /\ Outlined'
  BY OtherSteps, Frozen DEF Unborrowed
<1>2. CASE phase = "source" /\ (StartElement \/ EndElement \/ Characters)
  BY <1>2, UnborrowedRead
<1>3. CASE EndOfSource
  <2>1. /\ before' = bags /\ pos - 1 = Len(source) /\ phase = "source" /\ phase' # "source"
    BY <1>1, <1>3, AllReturned
  <2>2. Settled(bags, Len(source)) /\ Counted(bags, Len(source))
    BY <2>1 DEF Unborrowed
  <2>3. Settled(before, Len(source))' /\ Counted(before, Len(source))'
    BY <1>1, <2>1, <2>2, Frozen DEF Settled, OwnRow, OfOne, Counted
  <2> QED BY <1>1, <2>1, <2>3 DEF Unborrowed
<1>4. CASE phase' # "source" /\ (fate' = "whole" => UNCHANGED <<fate, before>>)
  <2>1. fate' = "whole" => Settled(before, Len(source))' /\ Counted(before, Len(source))'
    BY <1>1, <1>4, Frozen DEF Unborrowed, Settled, OwnRow, OfOne, Counted
  <2> QED BY <1>1, <1>4, <2>1 DEF Unborrowed
<1>5. CASE UNCHANGED vars
  <2>1. fate' = "whole" => Settled(before, Len(source))' /\ Counted(before, Len(source))'
    BY <1>1, <1>5, Frozen DEF vars, Unborrowed, Settled, OwnRow, OfOne, Counted
  <2>2. phase' = "source" => /\ Rooted' /\ Counted(bags, pos - 1)' /\ Settled(bags, pos - 1)'
                             /\ Building(pos - 1, bag, derivedKeySize)'
                             /\ (version # None => version.of = 0)'
    BY <1>1, <1>5, Frozen DEF vars, Unborrowed, Rooted, Settled, OwnRow, OfOne, Counted, Building, BuiltOf
  <2> QED BY <1>1, <2>1, <2>2 DEF Unborrowed
<1> QED BY <1>2, <1>3, <1>4, <1>5, OtherSteps

LEMMA AlwaysUnborrowed == Spec => []Unborrowed
<1>1. Inv /\ Unborrowed /\ [Next]_vars => Inv' /\ Unborrowed'
  BY InvStep, UnborrowedStep
<1> QED BY <1>1, InvAtFirst, UnborrowedAtFirst, PTL DEF Spec

\* Whatever the rows before it left in the import, and whatever elements it has: what
\* parse_manifest finishes at the end of a file-entry is of that file-entry, but for
\* the first row's version and a key size that no encryption-data has reset.
THEOREM NothingIsBorrowed == Spec => []NothingBorrowed
<1>1. Unborrowed => NothingBorrowed
  <2> SUFFICES ASSUME Unborrowed, fate = "whole", NEW i \in RowStarts
               PROVE  LET row == before[Ordinal(i)]
                          own == source[i].of
                          sized == \A k \in Starts(i, RowEnd(i)) :
                                     PathAt(k)[Len(PathAt(k))] = M("key-derivation")
                                        => \E e \in DataOf(i) : e < k
                      IN /\ \A f \in {"path", "media", "size", "digestAlg", "digest", "encAlg",
                                       "startKey", "kdf", "args"} : row[f] # None => row[f].of = own
                         /\ row.version # None =>
                              row.version.of \in {own, IF Ordinal(i) = 1 THEN 0 ELSE own}
                         /\ row.keySize # None /\ sized => row.keySize.of = own
    BY DEF NothingBorrowed
  <2>1. i \in Ended(Len(source))
    <3>1. RowEnd(i) \in (i + 1)..Len(source) /\ i \in 1..Len(source) /\ Len(source) \in Nat
      BY RowEnds, Documented DEF Unborrowed, Outlined
    <3> QED BY <3>1 DEF Ended
  <2>2. OwnRow(i, before[Ordinal(i)])
    BY <2>1 DEF Unborrowed, Settled
  <2> QED BY <2>2 DEF OwnRow, OfOne, OwnFields, Measured
<1> QED BY <1>1, AlwaysUnborrowed, PTL

-----------------------------------------------------------------------------
(***************************************************************************)
(* What a row as LibreOffice writes it looks like to the parser.           *)
(***************************************************************************)
AlgOf(i) == Only(Within(i, "algorithm"))
KdOf(i)  == Only(Within(i, "key-derivation"))

\* Inside a row, what an encryption-data holds comes after it.
LEMMA DataBefore ==
  ASSUME Outlined, NEW i \in RowStarts, NEW n \in i..(RowEnd(i) - 1),
         Depth(n) >= 3, Trail(n)[3] = M("encryption-data")
  PROVE  \E d \in DataOf(i) : d <= n
<1>0. /\ i \in 1..Len(source) /\ RowEnd(i) \in (i + 1)..Len(source) /\ Len(source) \in Nat
      /\ Depth(i) = 2
  BY RowEnds, RowStart, Documented DEF Outlined
<1> DEFINE Bad(m) == /\ Depth(m) >= 3 /\ Trail(m)[3] = M("encryption-data")
                     /\ ~\E d \in DataOf(i) : d <= m
           T == {m \in i..(RowEnd(i) - 1) : Bad(m)}
<1> SUFFICES ASSUME T # {} PROVE FALSE
  OBVIOUS
<1>1. PICK m \in T : \A k \in T : m <= k
  <2>1. T \subseteq Nat
    BY <1>0
  <2> QED BY <2>1, Least, Zenon
<1>2. m \in i..(RowEnd(i) - 1) /\ Bad(m)
  BY <1>1
<1>3. m # i /\ m \in 1..Len(source) /\ m - 1 \in i..(RowEnd(i) - 1) /\ ~(m <= m - 1)
  BY <1>0, <1>2
<1>4. m - 1 \notin T
  BY <1>1, <1>3
<1>5. ~Bad(m - 1)
  BY <1>3, <1>4
<1>6. m \in 0..Len(source) /\ m - 1 \in 0..Len(source)
  BY <1>0, <1>3
<1>7. Depth(m) \in Nat /\ Depth(m - 1) \in Nat
  BY <1>6, Documented DEF Outlined
<1>8. CASE Depth(m - 1) >= 3
  <2>1. 3 \in 1..Depth(m) /\ 3 <= Depth(m - 1)
    BY <1>2, <1>7, <1>8
  <2>2. Trail(m - 1)[3] = M("encryption-data")
    BY <1>2, <1>3, <2>1, Moves DEF Outlined
  <2>3. PICK d \in DataOf(i) : d <= m - 1
    BY <1>5, <1>8, <2>2
  <2>4. d \in Nat
    <3>1. d \in Starts(i, RowEnd(i))
      BY InnerIs
    <3> QED BY <1>0, <3>1 DEF Starts
  <2> QED BY <1>2, <1>3, <2>3, <2>4
<1>9. CASE ~(Depth(m - 1) >= 3)
  <2>1. source[m].kind = "start" /\ Depth(m) = 3
    <3>1. PICK a, b : a = Depth(m) /\ b = Depth(m - 1)
      OBVIOUS
    <3>2. /\ source[m].kind = "start" => a = b + 1
          /\ source[m].kind = "end" => a = b - 1
          /\ source[m].kind \notin {"start", "end"} => a = b
      BY <1>3, <3>1, Moves DEF Outlined
    <3> QED BY <1>2, <1>7, <1>9, <3>1, <3>2
  <2>2. m \in Starts(i, RowEnd(i)) /\ Trail(m)[2] = FileEntry
    <3>1. m \in i..RowEnd(i)
      BY <1>0, <1>2
    <3> QED BY <1>2, <2>1, <3>1, RowInside DEF Starts
  <2>3. m \in DataOf(i)
    BY <1>2, <2>1, <2>2, InnerIs
  <2> QED BY <1>2, <1>3, <2>3
<1> QED BY <1>8, <1>9

\* The elements of a sound row: one of each, in this order, but for the start key's.
SoundParts(i, d, g, k) ==
  /\ DataOf(i) = {d} /\ Within(i, "algorithm") = {g} /\ Within(i, "key-derivation") = {k}
  /\ i < d /\ d < g /\ g < k /\ k < RowEnd(i) /\ i \in Nat /\ d \in Nat /\ g \in Nat /\ k \in Nat
  /\ AlgOf(i) = g /\ KdOf(i) = k
  /\ Starts(i + 1, RowEnd(i)) = {d, g, k} \cup Within(i, "start-key-generation")

LEMMA SoundHas ==
  ASSUME Outlined, NEW i \in RowStarts, SoundRow(i)
  PROVE  \E d, g, k : SoundParts(i, d, g, k)
<1>0. /\ i \in 1..Len(source) /\ RowEnd(i) \in (i + 1)..Len(source) /\ Len(source) \in Nat
      /\ Depth(i) = 2 /\ source[RowEnd(i)].kind = "end"
  BY RowEnds, RowStart, RowEndIs, Documented DEF Outlined
<1>1. IsFiniteSet(Starts(i, RowEnd(i)))
  <2>1. IsFiniteSet(i..RowEnd(i))
    BY <1>0, FS_Interval
  <2>2. Starts(i, RowEnd(i)) \subseteq i..RowEnd(i)
    BY DEF Starts
  <2> QED BY <2>1, <2>2, FS_Subset
<1>2. ASSUME NEW names, Cardinality(At(i, names)) = 1 PROVE \E x : At(i, names) = {x}
  <2>1. At(i, names) \subseteq Starts(i, RowEnd(i))
    BY DEF At
  <2>2. IsFiniteSet(At(i, names))
    BY <1>1, <2>1, FS_Subset
  <2> QED BY <1>2, <2>2, FS_Singleton
<1>3. /\ Cardinality(DataOf(i)) = 1 /\ Cardinality(Within(i, "algorithm")) = 1
      /\ Cardinality(Within(i, "key-derivation")) = 1
      /\ \A a \in Within(i, "algorithm"), k \in Within(i, "key-derivation") : a < k
      /\ Starts(i + 1, RowEnd(i)) = DataOf(i) \cup Within(i, "algorithm")
            \cup Within(i, "start-key-generation") \cup Within(i, "key-derivation")
  BY DEF SoundRow
<1>4. PICK d : DataOf(i) = {d}
  BY <1>2, <1>3 DEF DataOf
<1>5. PICK g : Within(i, "algorithm") = {g}
  BY <1>2, <1>3 DEF Within
<1>6. PICK k : Within(i, "key-derivation") = {k}
  BY <1>2, <1>3 DEF Within
<1>7. /\ d \in Starts(i, RowEnd(i)) /\ Depth(d) = 3
      /\ g \in Starts(i, RowEnd(i)) /\ Depth(g) = 4 /\ Trail(g)[3] = M("encryption-data")
      /\ k \in Starts(i, RowEnd(i)) /\ Depth(k) = 4
  <2>1. d \in DataOf(i) /\ g \in Within(i, "algorithm") /\ k \in Within(i, "key-derivation")
    BY <1>4, <1>5, <1>6
  <2> QED BY <2>1, InnerIs
<1>8. \A e \in Starts(i, RowEnd(i)) : e \in i..(RowEnd(i) - 1) /\ e \in Nat
  BY <1>0 DEF Starts
<1>9. d \in i..(RowEnd(i) - 1) /\ g \in i..(RowEnd(i) - 1) /\ k \in i..(RowEnd(i) - 1)
  BY <1>7, <1>8
<1>10. d <= g
  <2>1. \E e \in DataOf(i) : e <= g
    BY <1>7, <1>9, DataBefore
  <2> QED BY <1>4, <2>1
<1>11. i < d /\ d < g /\ g < k
  <2>1. d # i /\ d # g
    BY <1>0, <1>7
  <2>2. g < k
    BY <1>3, <1>5, <1>6
  <2> QED BY <1>0, <1>9, <1>10, <2>1, <2>2
<1>12. AlgOf(i) = g /\ KdOf(i) = k
  <2>1. \A x : Only({x}) = x
    BY DEF Only
  <2> QED BY <1>5, <1>6, <2>1 DEF AlgOf, KdOf
<1>13. Starts(i + 1, RowEnd(i)) = {d, g, k} \cup Within(i, "start-key-generation")
  BY <1>3, <1>4, <1>5, <1>6
<1>14. PICK r : r = RowEnd(i)
  OBVIOUS
<1>15. k < r /\ i \in Nat /\ d \in Nat /\ g \in Nat /\ k \in Nat
  BY <1>0, <1>9, <1>14
<1>16. SoundParts(i, d, g, k)
  BY <1>4, <1>5, <1>6, <1>11, <1>12, <1>13, <1>14, <1>15 DEF SoundParts
<1> QED BY <1>16

\* What is open inside a sound row.
Inner == {M("algorithm"), M("start-key-generation"), M("key-derivation")}
Lean(n) == /\ Depth(n) <= 4
           /\ Depth(n) >= 3 => Trail(n)[3] = M("encryption-data")
           /\ Depth(n) = 4 => Trail(n)[4] \in Inner

LEMMA SoundIsLean ==
  ASSUME Outlined, NEW i \in RowStarts, SoundRow(i)
  PROVE  \A n \in i..(RowEnd(i) - 1) : Lean(n)
<1>0. /\ i \in 1..Len(source) /\ RowEnd(i) \in (i + 1)..Len(source) /\ Len(source) \in Nat
      /\ Depth(i) = 2
  BY RowEnds, RowStart, Documented DEF Outlined
<1> DEFINE T == {n \in i..(RowEnd(i) - 1) : ~Lean(n)}
<1> SUFFICES ASSUME T # {} PROVE FALSE
  OBVIOUS
<1>1. PICK n \in T : \A m \in T : n <= m
  <2>1. T \subseteq Nat
    BY <1>0
  <2> QED BY <2>1, Least, Zenon
<1>2. n \in i..(RowEnd(i) - 1) /\ ~Lean(n)
  BY <1>1
<1>3. Lean(i)
  BY <1>0 DEF Lean
<1>4. n # i /\ n \in 1..Len(source) /\ n - 1 \in i..(RowEnd(i) - 1) /\ ~(n <= n - 1)
  BY <1>0, <1>2, <1>3
<1>5. Lean(n - 1)
  BY <1>1, <1>4
<1>6. Depth(n) \in Nat /\ Depth(n - 1) \in Nat
  <2>1. n \in 0..Len(source) /\ n - 1 \in 0..Len(source)
    BY <1>0, <1>4
  <2> QED BY <2>1, Documented DEF Outlined
<1>7. CASE source[n].kind = "start"
  <2>1. n \in Starts(i + 1, RowEnd(i)) /\ n \in Starts(i, RowEnd(i))
    BY <1>0, <1>2, <1>4, <1>7 DEF Starts
  <2>2. n \in DataOf(i) \/ \E x \in {"algorithm", "start-key-generation", "key-derivation"} : n \in Within(i, x)
    BY <2>1 DEF SoundRow
  <2>3. CASE n \in DataOf(i)
    <3>1. Depth(n) = 3 /\ Trail(n)[3] = M("encryption-data")
      BY <2>3, InnerIs
    <3> QED BY <1>2, <3>1 DEF Lean
  <2>4. CASE \E x \in {"algorithm", "start-key-generation", "key-derivation"} : n \in Within(i, x)
    <3>1. PICK x \in {"algorithm", "start-key-generation", "key-derivation"} : n \in Within(i, x)
      BY <2>4
    <3>2. Depth(n) = 4 /\ Trail(n)[3] = M("encryption-data") /\ Trail(n)[4] = M(x)
      BY <3>1, InnerIs
    <3>3. M(x) \in Inner
      BY <3>1 DEF Inner
    <3> QED BY <1>2, <3>2, <3>3 DEF Lean
  <2> QED BY <2>2, <2>3, <2>4
<1>8. CASE source[n].kind # "start"
  <2>1. Depth(n) <= Depth(n - 1)
    <3>1. PICK a, b : a = Depth(n) /\ b = Depth(n - 1)
      OBVIOUS
    <3>2. /\ source[n].kind = "end" => a = b - 1
          /\ source[n].kind \notin {"start", "end"} => a = b
      BY <1>4, <3>1, Moves DEF Outlined
    <3> QED BY <1>6, <1>8, <3>1, <3>2
  <2>2. \A j \in 1..Depth(n) : Trail(n)[j] = Trail(n - 1)[j]
    <3>1. \A j \in 1..Depth(n) : j <= Depth(n - 1)
      BY <1>6, <2>1
    <3> QED BY <1>4, <3>1, Moves DEF Outlined
  <2>3. Depth(n) >= 3 => Trail(n)[3] = Trail(n - 1)[3]
    BY <1>6, <2>2
  <2>4. Depth(n) = 4 => Trail(n)[4] = Trail(n - 1)[4]
    BY <1>6, <2>2
  <2> QED BY <1>2, <1>5, <1>6, <2>1, <2>3, <2>4 DEF Lean
<1> QED BY <1>7, <1>8

Inside(n) == \E r \in RowStarts : r <= n /\ n < RowEnd(r)

\* Up to a sound row, nothing but rows holds more than empty elements.
LEMMA OutsideFlat ==
  ASSUME Outlined, NEW i \in RowStarts, SoundRow(i), NEW n \in 0..(i - 1), ~Inside(n)
  PROVE  Depth(n) <= 2
<1>0. i \in 1..Len(source) /\ Len(source) \in Nat
  BY RowEnds, Documented DEF Outlined
<1> DEFINE Bad(m) == ~Inside(m) /\ ~(Depth(m) <= 2)
           T == {m \in 0..(i - 1) : Bad(m)}
<1> SUFFICES ASSUME T # {} PROVE FALSE
  OBVIOUS
<1>1. PICK m \in T : \A k \in T : m <= k
  <2>1. T \subseteq Nat
    BY <1>0
  <2> QED BY <2>1, Least, Zenon
<1>2. m \in 0..(i - 1) /\ ~Inside(m) /\ ~(Depth(m) <= 2)
  BY <1>1
<1>3. m # 0
  BY <1>2, Documented DEF Outlined
<1>4. m \in 1..Len(source) /\ m - 1 \in 0..(i - 1) /\ ~(m <= m - 1)
  BY <1>0, <1>2, <1>3
<1>5. ~Bad(m - 1)
  BY <1>1, <1>4
<1>6. Depth(m) \in Nat /\ Depth(m - 1) \in Nat
  <2>1. m \in 0..Len(source) /\ m - 1 \in 0..Len(source)
    BY <1>0, <1>4
  <2> QED BY <2>1, Documented DEF Outlined
<1>7. CASE Inside(m - 1)
  <2>1. PICK r \in RowStarts : r <= m - 1 /\ m - 1 < RowEnd(r)
    BY <1>7 DEF Inside
  <2>2. r \in Nat /\ RowEnd(r) \in Nat /\ Depth(RowEnd(r)) = 1
    <3>1. r \in 1..Len(source) /\ RowEnd(r) \in (r + 1)..Len(source)
      BY RowEnds
    <3> QED BY <1>0, <3>1, RowEndIs
  <2>3. r <= m /\ ~(m < RowEnd(r))
    BY <1>2, <1>4, <2>1, <2>2 DEF Inside
  <2>4. m = RowEnd(r)
    BY <1>4, <2>1, <2>2, <2>3
  <2> QED BY <1>2, <2>2, <2>4
<1>8. CASE ~Inside(m - 1)
  <2>1. Depth(m - 1) <= 2
    BY <1>5, <1>8
  <2>2. source[m].kind = "start"
    <3>1. PICK a, b : a = Depth(m) /\ b = Depth(m - 1)
      OBVIOUS
    <3>2. /\ source[m].kind = "end" => a = b - 1
          /\ source[m].kind \notin {"start", "end"} => a = b
      BY <1>4, <3>1, Moves DEF Outlined
    <3> QED BY <1>2, <1>6, <2>1, <3>1, <3>2
  <2>3. m \in Starts(1, i - 1)
    BY <1>0, <1>2, <1>4, <2>2 DEF Starts
  <2>4. Len(PathAt(m)) <= 2 \/ \E r \in RowStarts : r < m /\ m < RowEnd(r)
    BY <2>3 DEF SoundRow
  <2>5. Len(PathAt(m)) = Depth(m)
    BY <1>4, PathIsTrail
  <2>6. PICK r \in RowStarts : r < m /\ m < RowEnd(r)
    BY <1>2, <2>4, <2>5
  <2>7. r \in Nat
    <3>1. r \in 1..Len(source)
      BY RowEnds
    <3> QED BY <1>0, <3>1
  <2>8. r <= m
    BY <1>4, <2>6, <2>7
  <2> QED BY <1>2, <2>6, <2>8 DEF Inside
<1> QED BY <1>7, <1>8

\* No row is open where the next begins.
LEMMA NotInside ==
  ASSUME Outlined, NEW i \in RowStarts
  PROVE  ~Inside(i - 1) /\ i - 1 \in 0..(i - 1)
<1>1. i \in 1..Len(source) /\ Len(source) \in Nat
  BY RowEnds, Documented DEF Outlined
<1>2. ~Inside(i - 1)
  <2> SUFFICES ASSUME NEW r \in RowStarts, r <= i - 1, i - 1 < RowEnd(r) PROVE FALSE
    BY DEF Inside
  <2>1. r \in 1..Len(source) /\ RowEnd(r) \in (r + 1)..Len(source)
    BY RowEnds
  <2>2. r < i
    BY <1>1, <2>1
  <2>3. RowEnd(r) < i
    BY <2>2, RowsInOrder
  <2> QED BY <1>1, <2>1, <2>3
<1> QED BY <1>1, <1>2

\* What is ignored, where a sound row is still to come.
Calm(n, ign) == \A i \in RowStarts : SoundRow(i) /\ n < i /\ ~Inside(n) => ign = FALSE

LEMMA CalmOn ==
  ASSUME Sourcing, StartElement \/ EndElement \/ Characters, Calm(pos - 1, ignore)
  PROVE  Calm(pos, ignore')
<1> SUFFICES ASSUME NEW i \in RowStarts, SoundRow(i), pos < i, ~Inside(pos) PROVE ignore' = FALSE
  BY DEF Calm
<1>0. PICK kind : /\ Reads(kind) /\ (StartElement => kind = "start") /\ (EndElement => kind = "end")
                  /\ (Characters => kind = "text")
  <2>1. StartElement => Reads("start")
    BY StartIs
  <2>2. EndElement => Reads("end")
    BY EndIs
  <2>3. Characters => Reads("text")
    BY DEF Characters
  <2>4. \A k, l : Reads(k) /\ Reads(l) => k = l
    BY DEF Reads
  <2> QED BY <2>1, <2>2, <2>3, <2>4
<1>1. /\ pos \in 1..Len(source) /\ Outlined /\ Len(source) \in Nat /\ Depth(pos) \in Nat
      /\ Depth(pos - 1) \in Nat /\ source[pos].kind = kind
  BY <1>0, EventIs, Documented DEF Sourcing, Outlined
<1>2. i \in 1..Len(source)
  BY <1>1, RowEnds
<1>3. CASE Inside(pos - 1)
  <2>1. PICK r \in RowStarts : r <= pos - 1 /\ pos - 1 < RowEnd(r)
    BY <1>3 DEF Inside
  <2>2. r \in 1..Len(source) /\ RowEnd(r) \in (r + 1)..Len(source) /\ source[RowEnd(r)].kind = "end"
    BY <1>1, RowEnds, RowEndIs
  <2>3. r <= pos /\ ~(pos < RowEnd(r))
    BY <1>1, <2>1, <2>2 DEF Inside
  <2>4. RowEnd(r) = pos
    BY <1>1, <2>1, <2>2, <2>3
  <2>5. CloseRow
    BY <1>0, <1>1, <2>2, <2>4, RowClosed
  <2> QED BY <2>5 DEF CloseRow
<1>4. CASE ~Inside(pos - 1)
  <2>1. /\ Depth(pos) <= 2 /\ Depth(pos - 1) <= 2 /\ ignore = FALSE
    <3>1. pos \in 0..(i - 1) /\ pos - 1 \in 0..(i - 1) /\ pos - 1 < i
      BY <1>1, <1>2
    <3> QED BY <1>1, <1>4, <3>1, OutsideFlat DEF Calm
  <2>2. CASE StartElement
    <3>1. ~OpenMethod /\ ~OpenData /\ ~OpenAlgorithm /\ ~OpenStartKey /\ ~OpenDerivation
      BY <2>1, <2>2, StartTaken DEF Here
    <3> QED BY <2>1, <2>2, <3>1 DEF StartElement, OpenTooDeep, OpenRoot, OpenRow, OpenKey,
               OpenText, OpenOther, rowState
  <2>3. CASE EndElement
    <3>1. ~CloseText
      <4> SUFFICES ASSUME CloseText PROVE FALSE
        OBVIOUS
      <4>1. beyond = 0
        BY DEF CloseText, Closes
      <4>2. Len(stack) <= 2 /\ <<Len(stack), Top.name>> \in TextSlots
        BY <2>1, <2>3, <4>1, EndIs DEF CloseText
      <4>3. PICK l, t : l = Len(stack) /\ t = Top.name
        OBVIOUS
      <4>4. <<l, t>> \in TextSlots => l \in {4, 5, 6}
        BY DEF TextSlots
      <4> QED BY <4>2, <4>3, <4>4
    <3> QED BY <2>1, <2>3, <3>1 DEF EndElement, CloseNothing, CloseRow, CloseKey, CloseOther, rowState
  <2>4. CASE Characters
    BY <2>1, <2>4 DEF Characters, rowState
  <2> QED BY <2>2, <2>3, <2>4
<1> QED BY <1>3, <1>4

\* Elements where LibreOffice writes them meet their handlers.
LEMMA PartTaken ==
  ASSUME Sourcing, StartElement, NEW i \in RowStarts
  PROVE  /\ pos \in DataOf(i) => OpenData
         /\ pos \in Within(i, "algorithm") => OpenAlgorithm
         /\ pos \in Within(i, "start-key-generation") => OpenStartKey
         /\ pos \in Within(i, "key-derivation") => OpenDerivation
<1>0. Outlined
  BY DEF Sourcing
<1>1. FileEntry \in KnownAt(2) /\ M("encryption-data") \in KnownAt(3)
      /\ \A x \in {"algorithm", "start-key-generation", "key-derivation"} : M(x) \in KnownAt(4)
  BY DEF KnownAt, Known
<1>2. ASSUME pos \in DataOf(i) PROVE OpenData
  <2>1. Depth(pos) = 3 /\ Trail(pos)[2] = FileEntry /\ Trail(pos)[3] = M("encryption-data")
    BY <1>0, <1>2, InnerIs
  <2>2. Here = <<3, M("encryption-data")>>
    BY <2>1 DEF Here
  <2>3. ~OpenTooDeep /\ ~OpenRoot
    BY <2>1, StartTaken
  <2>4. ~OpenRow /\ ~OpenKey /\ ~OpenMethod /\ ~OpenAlgorithm /\ ~OpenStartKey /\ ~OpenDerivation
    BY <2>2, StartTaken DEF M, Lo
  <2>5. ~OpenText
    BY <2>2, StartTaken DEF M, Lo, TextSlots
  <2>6. ~OpenOther
    <3>1. \A n \in 2..Depth(pos) : Trail(pos)[n] \in KnownAt(n)
      <4>1. 2..3 = {2, 3}
        OBVIOUS
      <4> QED BY <1>1, <2>1, <4>1
    <3>2. Here \in Handled
      BY <2>2 DEF Handled
    <3> QED BY <3>1, <3>2, StartTaken, Zenon
  <2> QED BY <2>3, <2>4, <2>5, <2>6 DEF StartElement
<1>3. ASSUME NEW x \in {"algorithm", "start-key-generation", "key-derivation"}, pos \in Within(i, x)
      PROVE  OpenAlgorithm \/ OpenStartKey \/ OpenDerivation
  <2>1. /\ Depth(pos) = 4 /\ Trail(pos)[2] = FileEntry /\ Trail(pos)[3] = M("encryption-data")
        /\ Trail(pos)[4] = M(x)
    BY <1>0, <1>3, InnerIs
  <2>2. Here = <<4, M(x)>>
    BY <2>1 DEF Here
  <2>3. ~OpenTooDeep /\ ~OpenRoot
    BY <2>1, StartTaken
  <2>4. ~OpenRow /\ ~OpenKey /\ ~OpenMethod /\ ~OpenData
    BY <2>2, StartTaken DEF M, Lo
  <2>5. ~OpenText
    BY <2>2, StartTaken DEF M, Lo, TextSlots
  <2>6. ~OpenOther
    <3>1. \A n \in 2..Depth(pos) : Trail(pos)[n] \in KnownAt(n)
      <4>1. 2..4 = {2, 3, 4}
        OBVIOUS
      <4> QED BY <1>1, <2>1, <4>1
    <3>2. Here \in Handled
      BY <2>2 DEF Handled
    <3> QED BY <3>1, <3>2, StartTaken, Zenon
  <2> QED BY <2>3, <2>4, <2>5, <2>6 DEF StartElement
<1>4. ASSUME NEW x, pos \in Within(i, x) PROVE Here = <<4, M(x)>>
  BY <1>0, <1>4, InnerIs DEF Here
<1>5. pos \in Within(i, "algorithm") => OpenAlgorithm
  BY <1>3, <1>4, StartTaken DEF M
<1>6. pos \in Within(i, "start-key-generation") => OpenStartKey
  BY <1>3, <1>4, StartTaken DEF M
<1>7. pos \in Within(i, "key-derivation") => OpenDerivation
  BY <1>3, <1>4, StartTaken DEF M
<1> QED BY <1>2, <1>5, <1>6, <1>7

\* In the manifest's own namespace, an attribute is what it says.
LEMMA AttrIsSaid ==
  ASSUME Event = source[pos], Event.via = "manifest"
  PROVE  \A a : Attr(a) = Said(pos, a)
<1> SUFFICES ASSUME NEW a PROVE Attr(a) = Said(pos, a)
  OBVIOUS
<1>1. \A s : Convert(<<Event.via, a>>, s) = <<"manifest", a>>
  BY DEF Convert, M
<1>2. Has("manifest", a) <=> a \in DOMAIN Event.attrs
  BY <1>1 DEF Has
<1> QED BY <1>2 DEF Attr, Said

\* No value is taken for an absent one.
LEMMA SaidIsSomething ==
  ASSUME Outlined, NEW e \in 1..Len(source), source[e].kind = "start"
  PROVE  /\ \A a : Said(e, a) # "" => Value(Said(e, a), source[e]) # None
         /\ Value("positive", source[e]) # None /\ Value("digest", source[e]) # None
         /\ "costs" \in DOMAIN source[e].attrs => source[e].attrs["costs"] \in {"positive", "zero"}
<1>1. ElementShape(source[e])
  <2>1. source \in Documents /\ e \in DOMAIN source
    BY Documented DEF Outlined
  <2>2. source[e] \in Range(source)
    BY <2>1 DEF Range
  <2> QED BY <2>1, <2>2, DocumentAssumption
<1>2. \A v \in Range(source[e].attrs) \cup {"digest", "positive"} : Value(v, source[e]) # None
  BY <1>1 DEF ElementShape
<1>3. ASSUME NEW a, Said(e, a) # "" PROVE Said(e, a) \in Range(source[e].attrs)
  <2>1. a \in DOMAIN source[e].attrs /\ Said(e, a) = source[e].attrs[a]
    BY <1>3 DEF Said
  <2> QED BY <2>1 DEF Range
<1> QED BY <1>1, <1>2, <1>3 DEF ElementShape

Own(e, a) == Value(Said(e, a), source[e])

\* What a sound row's elements say.
Says(i, d, g, k) ==
  /\ \A e \in {i, d, g, k} : e \in 1..Len(source) /\ source[e].kind = "start" /\ source[e].via = "manifest"
  /\ Said(i, "size") # ""
  /\ Said(g, "algorithm-name") \in Ciphers
  /\ Said(d, "checksum-type") = "1k" \/ Said(g, "algorithm-name") = "gcm"
  /\ \A s, t \in Within(i, "start-key-generation") : s = t
  /\ \A s \in Within(i, "start-key-generation") :
       /\ s \in 1..Len(source) /\ source[s].kind = "start" /\ source[s].via = "manifest"
       /\ Said(s, "start-key-generation-name") \in StartKeys
       /\ s \notin {i, d, g, k} /\ s > i
  /\ \/ Said(k, "key-derivation-name") = "pbkdf2"
     \/ /\ Said(k, "key-derivation-name") = "argon2id"
        /\ "positive" \in {Said(k, "costs"), Said(k, "loext:costs")}
        /\ Said(k, "costs") # "zero"
  /\ SizeMeant(i) = IF Said(k, "key-size") # "" THEN Said(k, "key-size")
                    ELSE IF Said(g, "algorithm-name") = "blowfish" THEN "16" ELSE "32"

LEMMA SoundSays ==
  ASSUME Outlined, NEW i \in RowStarts, SoundRow(i), NEW d, NEW g, NEW k, SoundParts(i, d, g, k)
  PROVE  Says(i, d, g, k)
<1>0. /\ i \in 1..Len(source) /\ source[i].kind = "start" /\ Depth(i) = 2
      /\ RowEnd(i) \in (i + 1)..Len(source) /\ Len(source) \in Nat
  BY RowEnds, RowStart, Documented DEF Outlined
<1> DEFINE sk == Within(i, "start-key-generation")
<1>1. /\ DataOf(i) = {d} /\ Within(i, "algorithm") = {g} /\ Within(i, "key-derivation") = {k}
      /\ Only(Within(i, "algorithm")) = g /\ Only(Within(i, "key-derivation")) = k
  BY DEF SoundParts, AlgOf, KdOf
<1>2. \A e \in DataOf(i) \cup Within(i, "algorithm") \cup sk \cup Within(i, "key-derivation") :
         e \in 1..Len(source) /\ source[e].kind = "start"
  <2>1. \A e \in Starts(i, RowEnd(i)) : e \in 1..Len(source) /\ source[e].kind = "start"
    BY <1>0 DEF Starts
  <2> QED BY <2>1 DEF DataOf, Within, At
<1>3. \A e \in {i, d, g, k} \cup sk : e \in 1..Len(source) /\ source[e].kind = "start"
  BY <1>0, <1>1, <1>2
<1>4. \A e \in {i, d, g, k} \cup sk : source[e].via = "manifest"
  BY <1>1 DEF SoundRow
<1>5. Said(i, "size") # "" /\ Said(g, "algorithm-name") \in Ciphers
  BY <1>1 DEF SoundRow
<1>6. Said(d, "checksum-type") = "1k" \/ Said(g, "algorithm-name") = "gcm"
  BY <1>1 DEF SoundRow
<1>7. \A s \in sk : Said(s, "start-key-generation-name") \in StartKeys
  BY DEF SoundRow
<1>8. \/ Said(k, "key-derivation-name") = "pbkdf2"
      \/ /\ Said(k, "key-derivation-name") = "argon2id"
         /\ "positive" \in {Said(k, "costs"), Said(k, "loext:costs")}
         /\ Said(k, "costs") # "zero"
  BY <1>1 DEF SoundRow
<1>9. SizeMeant(i) = IF Said(k, "key-size") # "" THEN Said(k, "key-size")
                     ELSE IF Said(g, "algorithm-name") = "blowfish" THEN "16" ELSE "32"
  BY <1>1 DEF SizeMeant
<1>10. \A s, t \in sk : s = t
  <2>1. IsFiniteSet(sk)
    <3>1. sk \subseteq i..RowEnd(i)
      BY DEF Within, At, Starts
    <3>2. IsFiniteSet(i..RowEnd(i))
      BY <1>0, FS_Interval
    <3> QED BY <3>1, <3>2, FS_Subset
  <2>2. Cardinality(sk) <= 1
    BY DEF SoundRow
  <2>3. Cardinality(sk) \in Nat
    BY <2>1, FS_CardinalityType
  <2>4. CASE Cardinality(sk) = 0
    BY <2>1, <2>4, FS_EmptySet
  <2>5. CASE Cardinality(sk) = 1
    <3>1. \E x : sk = {x}
      BY <2>1, <2>5, FS_Singleton
    <3> QED BY <3>1
  <2> QED BY <2>2, <2>3, <2>4, <2>5
<1>11. \A s \in sk : s \notin {i, d, g, k} /\ s > i
  <2> SUFFICES ASSUME NEW s \in sk PROVE s \notin {i, d, g, k} /\ s > i
    OBVIOUS
  <2>1. Depth(s) = 4 /\ Trail(s)[4] = M("start-key-generation") /\ s \in Starts(i, RowEnd(i))
    BY InnerIs
  <2>2. d \in DataOf(i) /\ g \in Within(i, "algorithm") /\ k \in Within(i, "key-derivation")
    BY <1>1
  <2>3. Depth(d) = 3 /\ Trail(g)[4] = M("algorithm") /\ Trail(k)[4] = M("key-derivation")
    BY <2>2, InnerIs
  <2>4. s # i /\ s # d /\ s # g /\ s # k
    BY <1>0, <2>1, <2>3 DEF M
  <2> QED BY <1>0, <2>1, <2>4 DEF Starts
<1> QED BY <1>3, <1>4, <1>5, <1>6, <1>7, <1>8, <1>9, <1>10, <1>11 DEF Says

-----------------------------------------------------------------------------
\* What has been read of the sound row at i after n events.
KeySized(g, k, n, dks) ==
  dks.val = IF g <= n /\ Said(g, "algorithm-name") # "blowfish" THEN "32" ELSE "0"
Derived(i, k, b) ==
  /\ b.kdf = Own(k, "key-derivation-name") /\ b.keySize.val = SizeMeant(i)
  /\ Said(k, "key-derivation-name") = "argon2id" => b.args # None
HeardParts(i, d, g, k, n, b, dks) ==
  /\ d <= n /\ Said(g, "algorithm-name") # "gcm" => b.digest # None
  /\ d <= n /\ n < k => KeySized(g, k, n, dks)
  /\ g <= n => b.encAlg = Own(g, "algorithm-name")
  /\ k <= n => Derived(i, k, b)
  /\ \A s \in Within(i, "start-key-generation") :
       s <= n => b.startKey = Own(s, "start-key-generation-name")
Heard(i, n, b, dks, ign) ==
  /\ ign = FALSE /\ b.path = Own(i, "path") /\ b.size = Own(i, "size")
  /\ \A d, g, k : SoundParts(i, d, g, k) => HeardParts(i, d, g, k, n, b, dks)
Hearing(n, b, dks, ign) ==
  \A i \in RowStarts : SoundRow(i) /\ i <= n /\ n < RowEnd(i) => Heard(i, n, b, dks, ign)

LEMMA HeardFirst ==
  ASSUME Sourcing, OpenRow, SoundRow(pos), Calm(pos - 1, ignore), NEW dks
  PROVE  Heard(pos, pos, bag', dks, ignore')
<1>1. StartElement /\ Reads("start")
  BY DEF StartElement, OpenRow, Opens
<1>2. pos \in RowStarts /\ Event = source[pos] /\ Outlined /\ pos \in Nat /\ ignore = FALSE
  <2>1. pos \in RowStarts /\ Event = source[pos] /\ Outlined /\ pos \in Nat
    BY <1>1, RowTaken, EventIs DEF Sourcing
  <2>2. ~Inside(pos - 1) /\ pos - 1 < pos
    BY <2>1, NotInside
  <2> QED BY <2>1, <2>2 DEF Calm
<1>3. PICK d, g, k : SoundParts(pos, d, g, k)
  BY <1>2, SoundHas
<1>4. Event.via = "manifest" /\ Said(pos, "size") # ""
  <2>1. Says(pos, d, g, k)
    BY <1>2, <1>3, SoundSays
  <2> QED BY <1>2, <2>1 DEF Says
<1>5. \A a : Attr(a) = Said(pos, a)
  BY <1>2, <1>4, AttrIsSaid
<1>6. bag'.path = Own(pos, "path") /\ bag'.size = Own(pos, "size") /\ ignore' = ignore
  BY <1>2, <1>4, <1>5 DEF OpenRow, NewBag, Own
<1>7. ASSUME NEW d2, NEW g2, NEW k2, SoundParts(pos, d2, g2, k2)
      PROVE  HeardParts(pos, d2, g2, k2, pos, bag', dks)
  <2>1. ~(d2 <= pos) /\ ~(g2 <= pos) /\ ~(k2 <= pos)
    BY <1>2, <1>7 DEF SoundParts
  <2>2. \A s \in Within(pos, "start-key-generation") : ~(s <= pos)
    <3>1. \A s \in Within(pos, "start-key-generation") : s > pos /\ s \in Nat
      <4>1. Len(source) \in Nat
        BY <1>2, Documented DEF Outlined
      <4>2. \A s \in Within(pos, "start-key-generation") : s > pos /\ s \in 1..Len(source)
        <5>1. Says(pos, d, g, k)
          BY <1>2, <1>3, SoundSays
        <5> QED BY <5>1 DEF Says
      <4> QED BY <4>1, <4>2
    <3> QED BY <1>2, <3>1
  <2> QED BY <2>1, <2>2 DEF HeardParts
<1> QED BY <1>2, <1>6, <1>7 DEF Heard

\* Inside the sound row at i, whose elements are d, g and k, after its beginning.
Amid(i, d, g, k) ==
  /\ Outlined /\ Event = source[pos] /\ i \in RowStarts /\ SoundRow(i) /\ SoundParts(i, d, g, k)
  /\ pos \in Nat /\ i <= pos - 1 /\ DOMAIN bag = BagFields
  /\ ignore = FALSE /\ bag.path = Own(i, "path") /\ bag.size = Own(i, "size")
  /\ HeardParts(i, d, g, k, pos - 1, bag, derivedKeySize)

AmidStill(i, d, g, k) ==
  /\ ignore' = FALSE /\ bag'.path = Own(i, "path") /\ bag'.size = Own(i, "size")
  /\ HeardParts(i, d, g, k, pos, bag', derivedKeySize')

LEMMA AmidSays ==
  ASSUME NEW i, NEW d, NEW g, NEW k, Amid(i, d, g, k)
  PROVE  Says(i, d, g, k)
BY SoundSays DEF Amid

\* What says nothing of the row's encryption.
LEMMA HeardNothing ==
  ASSUME NEW i, NEW d, NEW g, NEW k, Amid(i, d, g, k),
         pos \notin {d, g, k} \cup Within(i, "start-key-generation"),
         bag' = bag, derivedKeySize' = derivedKeySize, ignore' = ignore
  PROVE  AmidStill(i, d, g, k)
<1>1. d \in Nat /\ g \in Nat /\ k \in Nat /\ pos \in Nat
  BY DEF Amid, SoundParts
<1>2. \A s \in Within(i, "start-key-generation") : s \in Nat /\ s # pos
  <2>1. Len(source) \in Nat
    BY Documented DEF Amid, Outlined
  <2>2. \A s \in Within(i, "start-key-generation") : s \in 1..Len(source)
    BY AmidSays DEF Says
  <2> QED BY <2>1, <2>2
<1>3. (d <= pos <=> d <= pos - 1) /\ (g <= pos <=> g <= pos - 1) /\ (k <= pos <=> k <= pos - 1)
      /\ (pos < k => pos - 1 < k)
  BY <1>1
<1>4. \A s \in Within(i, "start-key-generation") : s <= pos => s <= pos - 1
  BY <1>1, <1>2
<1>5. HeardParts(i, d, g, k, pos, bag, derivedKeySize)
  BY <1>3, <1>4 DEF Amid, HeardParts, KeySized
<1> QED BY <1>5 DEF Amid, AmidStill

\* do_encryption_data
LEMMA HeardData ==
  ASSUME NEW i, NEW d, NEW g, NEW k, Amid(i, d, g, k), pos = d, OpenData
  PROVE  AmidStill(i, d, g, k)
<1>1. d \in Nat /\ g \in Nat /\ k \in Nat /\ d < g /\ g < k /\ Outlined
  BY DEF Amid, SoundParts
<1>2. /\ d \in 1..Len(source) /\ source[d].kind = "start" /\ source[d].via = "manifest"
      /\ Said(d, "checksum-type") = "1k" \/ Said(g, "algorithm-name") = "gcm"
      /\ \A s \in Within(i, "start-key-generation") : s # d
  <2>1. Says(i, d, g, k)
    BY AmidSays
  <2> QED BY <2>1 DEF Says
<1>3. Event = source[d] /\ \A a : Attr(a) = Said(d, a)
  BY <1>2, AttrIsSaid DEF Amid
<1>4. PICK b, sum, dig, alg :
        /\ b = bag /\ sum = Value("1k", Event) /\ dig = Value("digest", Event)
        /\ alg = IF Said(d, "checksum-type") = "1k" THEN sum ELSE b.digestAlg
  OBVIOUS
<1>5. dig # None /\ (Said(d, "checksum-type") = "1k" => alg # None)
  <2>1. Said(d, "checksum-type") = "1k" => Said(d, "checksum-type") # ""
    OBVIOUS
  <2> QED BY <1>1, <1>2, <1>3, <1>4, <2>1, SaidIsSomething
<1>6. /\ bag' = [b EXCEPT !.digestAlg = alg, !.digest = IF alg = None THEN @ ELSE dig]
      /\ ignore' = ignore /\ derivedKeySize' = Unset
  BY <1>3, <1>4 DEF OpenData, Amid
<1>7. DOMAIN b = BagFields
  BY <1>4 DEF Amid
<1>8. /\ bag'.path = b.path /\ bag'.size = b.size /\ bag'.startKey = b.startKey
      /\ alg # None => bag'.digest = dig
  BY <1>6, <1>7 DEF BagFields, OwnFields
<1>9. Said(g, "algorithm-name") # "gcm" => bag'.digest # None
  BY <1>2, <1>5, <1>8
<1>10. KeySized(g, k, pos, derivedKeySize')
  <2>1. ~(g <= pos)
    BY <1>1
  <2> QED BY <1>6, <2>1 DEF KeySized, Unset
<1>11. \A s \in Within(i, "start-key-generation") :
         s <= pos => bag'.startKey = Own(s, "start-key-generation-name")
  <2> SUFFICES ASSUME NEW s \in Within(i, "start-key-generation"), s <= pos
               PROVE  bag'.startKey = Own(s, "start-key-generation-name")
    OBVIOUS
  <2>1. Len(source) \in Nat
    BY <1>1, Documented DEF Outlined
  <2>2. s \in 1..Len(source) /\ s # d
    BY <1>2, AmidSays DEF Says
  <2>3. s <= pos - 1
    BY <1>1, <2>1, <2>2
  <2>4. b.startKey = Own(s, "start-key-generation-name")
    BY <1>4, <2>3 DEF Amid, HeardParts
  <2> QED BY <1>8, <2>4
<1>12. ~(g <= pos) /\ ~(k <= pos)
  BY <1>1
<1>13. HeardParts(i, d, g, k, pos, bag', derivedKeySize')
  BY <1>9, <1>10, <1>11, <1>12 DEF HeardParts
<1> QED BY <1>4, <1>6, <1>8, <1>13 DEF Amid, AmidStill

\* do_algorithm
LEMMA HeardAlgorithm ==
  ASSUME NEW i, NEW d, NEW g, NEW k, Amid(i, d, g, k), pos = g, OpenAlgorithm
  PROVE  AmidStill(i, d, g, k)
<1>1. d \in Nat /\ g \in Nat /\ k \in Nat /\ d < g /\ g < k /\ Outlined
  BY DEF Amid, SoundParts
<1>2. /\ g \in 1..Len(source) /\ source[g].kind = "start" /\ source[g].via = "manifest"
      /\ Said(g, "algorithm-name") \in Ciphers
      /\ \A s \in Within(i, "start-key-generation") : s # g
  <2>1. Says(i, d, g, k)
    BY AmidSays
  <2> QED BY <2>1 DEF Says
<1>3. Event = source[g] /\ Attr("algorithm-name") = Said(g, "algorithm-name")
  BY <1>2, AttrIsSaid DEF Amid
<1>4. PICK b, alg, size : /\ b = bag /\ alg = Own(g, "algorithm-name") /\ size = Value("32", Event)
  OBVIOUS
<1>5. /\ bag' = [b EXCEPT !.encAlg = alg] /\ ignore' = ignore
      /\ derivedKeySize' = IF Said(g, "algorithm-name") = "blowfish" THEN derivedKeySize ELSE size
  BY <1>2, <1>3, <1>4 DEF OpenAlgorithm, Amid, Own
<1>6. DOMAIN b = BagFields
  BY <1>4 DEF Amid
<1>7. /\ bag'.path = b.path /\ bag'.size = b.size /\ bag'.startKey = b.startKey
      /\ bag'.digest = b.digest /\ bag'.encAlg = alg
  BY <1>5, <1>6 DEF BagFields, OwnFields
<1>8. d <= pos - 1 /\ pos - 1 < k /\ ~(g <= pos - 1) /\ g <= pos /\ ~(k <= pos)
  BY <1>1
<1>9. Said(g, "algorithm-name") # "gcm" => bag'.digest # None
  BY <1>4, <1>7, <1>8 DEF Amid, HeardParts
<1>10. KeySized(g, k, pos, derivedKeySize')
  <2>1. derivedKeySize.val = "0"
    BY <1>8 DEF Amid, HeardParts, KeySized
  <2>2. size.val = "32"
    BY <1>4 DEF Value
  <2> QED BY <1>5, <1>8, <2>1, <2>2 DEF KeySized
<1>11. \A s \in Within(i, "start-key-generation") :
         s <= pos => bag'.startKey = Own(s, "start-key-generation-name")
  <2> SUFFICES ASSUME NEW s \in Within(i, "start-key-generation"), s <= pos
               PROVE  bag'.startKey = Own(s, "start-key-generation-name")
    OBVIOUS
  <2>1. Len(source) \in Nat
    BY <1>1, Documented DEF Outlined
  <2>2. s \in 1..Len(source) /\ s # g
    BY <1>2, AmidSays DEF Says
  <2>3. s <= pos - 1
    BY <1>1, <2>1, <2>2
  <2>4. b.startKey = Own(s, "start-key-generation-name")
    BY <1>4, <2>3 DEF Amid, HeardParts
  <2> QED BY <1>7, <2>4
<1>12. bag'.encAlg = Own(g, "algorithm-name")
  BY <1>4, <1>7
<1>13. HeardParts(i, d, g, k, pos, bag', derivedKeySize')
  BY <1>8, <1>9, <1>10, <1>11, <1>12 DEF HeardParts
<1> QED BY <1>4, <1>5, <1>7, <1>13 DEF Amid, AmidStill

\* do_start_key_alg
LEMMA HeardStartKey ==
  ASSUME NEW i, NEW d, NEW g, NEW k, Amid(i, d, g, k), pos \in Within(i, "start-key-generation"),
         OpenStartKey
  PROVE  AmidStill(i, d, g, k)
<1>1. d \in Nat /\ g \in Nat /\ k \in Nat /\ pos \in Nat /\ Outlined
  BY DEF Amid, SoundParts
<1>2. /\ source[pos].via = "manifest" /\ Said(pos, "start-key-generation-name") \in StartKeys
      /\ pos \notin {d, g, k} /\ \A s \in Within(i, "start-key-generation") : s = pos
  <2>1. Says(i, d, g, k)
    BY AmidSays
  <2> QED BY <2>1 DEF Says
<1>3. Event = source[pos] /\ Attr("start-key-generation-name") = Said(pos, "start-key-generation-name")
  BY <1>2, AttrIsSaid DEF Amid
<1>4. PICK b, key : b = bag /\ key = Own(pos, "start-key-generation-name")
  OBVIOUS
<1>5. /\ bag' = [b EXCEPT !.startKey = key] /\ ignore' = ignore /\ derivedKeySize' = derivedKeySize
  BY <1>2, <1>3, <1>4 DEF OpenStartKey, Own
<1>6. DOMAIN b = BagFields
  BY <1>4 DEF Amid
<1>7. /\ bag'.startKey = key
      /\ \A f \in {"path", "size", "digest", "encAlg", "kdf", "keySize", "args"} : bag'[f] = b[f]
  BY <1>5, <1>6 DEF BagFields, OwnFields
<1>8. (d <= pos <=> d <= pos - 1) /\ (g <= pos <=> g <= pos - 1) /\ (k <= pos <=> k <= pos - 1)
      /\ (pos < k => pos - 1 < k)
  BY <1>1, <1>2
<1>9. /\ d <= pos /\ Said(g, "algorithm-name") # "gcm" => b.digest # None
      /\ d <= pos /\ pos < k => KeySized(g, k, pos, derivedKeySize)
      /\ g <= pos => b.encAlg = Own(g, "algorithm-name")
      /\ k <= pos => Derived(i, k, b)
  BY <1>4, <1>8 DEF Amid, HeardParts, KeySized
<1>10. k <= pos => Derived(i, k, bag')
  BY <1>7, <1>9 DEF Derived
<1>11. \A s \in Within(i, "start-key-generation") : bag'.startKey = Own(s, "start-key-generation-name")
  BY <1>2, <1>4, <1>7
<1>12. bag'.digest = b.digest /\ bag'.encAlg = b.encAlg /\ bag'.path = b.path /\ bag'.size = b.size
  BY <1>7
<1>13. HeardParts(i, d, g, k, pos, bag', derivedKeySize')
  BY <1>5, <1>9, <1>10, <1>11, <1>12 DEF HeardParts
<1> QED BY <1>4, <1>5, <1>12, <1>13 DEF Amid, AmidStill

\* do_key_derivation
LEMMA HeardDerivation ==
  ASSUME NEW i, NEW d, NEW g, NEW k, Amid(i, d, g, k), pos = k, OpenDerivation
  PROVE  AmidStill(i, d, g, k)
<1>1. d \in Nat /\ g \in Nat /\ k \in Nat /\ d < g /\ g < k /\ Outlined
  BY DEF Amid, SoundParts
<1>2. /\ k \in 1..Len(source) /\ source[k].kind = "start" /\ source[k].via = "manifest"
      /\ \A s \in Within(i, "start-key-generation") : s # k
  <2>1. Says(i, d, g, k)
    BY AmidSays
  <2> QED BY <2>1 DEF Says
<1>3. /\ \/ Said(k, "key-derivation-name") = "pbkdf2"
         \/ /\ Said(k, "key-derivation-name") = "argon2id"
            /\ "positive" \in {Said(k, "costs"), Said(k, "loext:costs")}
            /\ Said(k, "costs") # "zero"
      /\ SizeMeant(i) = IF Said(k, "key-size") # "" THEN Said(k, "key-size")
                        ELSE IF Said(g, "algorithm-name") = "blowfish" THEN "16" ELSE "32"
  <2>1. Says(i, d, g, k)
    BY AmidSays
  <2> QED BY <2>1 DEF Says
<1>4. Event = source[k] /\ \A a : Attr(a) = Said(k, a)
  BY <1>2, AttrIsSaid DEF Amid
<1>5. PICK b, name, size, pos1 :
        /\ b = bag /\ name = Said(k, "key-derivation-name") /\ pos1 = Value("positive", Event)
        /\ size = IF Said(k, "key-size") # "" THEN Value(Said(k, "key-size"), Event)
                  ELSE IF derivedKeySize.val = "0" THEN Value("16", Event) ELSE derivedKeySize
  OBVIOUS
<1>6. pos1 # None
  BY <1>1, <1>2, <1>4, <1>5, SaidIsSomething
<1>7. name = "argon2id" => Costs = "positive"
  <2> SUFFICES ASSUME name = "argon2id" PROVE Costs = "positive"
    OBVIOUS
  <2>1. "positive" \in {Said(k, "costs"), Said(k, "loext:costs")} /\ Said(k, "costs") # "zero"
    BY <1>3, <1>5
  <2>2. Has("manifest", "costs") <=> "costs" \in DOMAIN Event.attrs
    <3>1. \A s : Convert(<<Event.via, "costs">>, s) = <<"manifest", "costs">>
      BY <1>2, <1>4 DEF Convert, M
    <3> QED BY <3>1 DEF Has
  <2>3. CASE "costs" \in DOMAIN Event.attrs
    <3>1. Event.attrs["costs"] \in {"positive", "zero"}
      BY <1>1, <1>2, <1>4, <2>3, SaidIsSomething
    <3>2. Said(k, "costs") = Event.attrs["costs"]
      BY <1>4, <2>3 DEF Said
    <3> QED BY <2>1, <2>2, <2>3, <3>1, <3>2 DEF Costs
  <2>4. CASE "costs" \notin DOMAIN Event.attrs
    <3>1. Said(k, "costs") = ""
      BY <1>4, <2>4 DEF Said
    <3>2. Said(k, "loext:costs") = "positive"
      BY <2>1, <3>1
    <3>3. "loext:costs" \in DOMAIN Event.attrs /\ Event.attrs["loext:costs"] = "positive"
      BY <1>4, <3>2 DEF Said
    <3> QED BY <2>2, <2>4, <3>3 DEF Costs
  <2> QED BY <2>3, <2>4
<1>8. name \in PasswordKdfs /\ name \in {"pbkdf2", "argon2id"}
  BY <1>3, <1>5 DEF PasswordKdfs
<1>9. /\ bag' = [b EXCEPT !.kdf = Value(name, Event), !.keySize = size,
                          !.args = IF name = "argon2id" THEN pos1 ELSE @]
      /\ ignore' = FALSE
  <2>1. Attr("key-derivation-name") = name /\ Attr("key-size") = Said(k, "key-size")
    BY <1>4, <1>5
  <2>2. ignore = FALSE
    BY DEF Amid
  <2>3. (name = "argon2id" => Costs = "positive") = TRUE
    BY <1>7
  <2> QED BY <1>5, <1>8, <2>1, <2>2, <2>3 DEF OpenDerivation
<1>10. DOMAIN b = BagFields
  BY <1>5 DEF Amid
<1>11. /\ bag'.kdf = Value(name, Event) /\ bag'.keySize = size
       /\ \A f \in {"path", "size", "digest", "encAlg", "startKey"} : bag'[f] = b[f]
       /\ name = "argon2id" => bag'.args = pos1
  BY <1>9, <1>10 DEF BagFields, OwnFields
<1>12. d <= pos - 1 /\ pos - 1 < k /\ g <= pos - 1 /\ ~(pos < k)
  BY <1>1
<1>13. size.val = SizeMeant(i)
  <2>1. derivedKeySize.val = IF Said(g, "algorithm-name") # "blowfish" THEN "32" ELSE "0"
    BY <1>12 DEF Amid, HeardParts, KeySized
  <2> QED BY <1>3, <1>5, <2>1 DEF Value
<1>14. Derived(i, k, bag')
  <2>1. bag'.kdf = Own(k, "key-derivation-name")
    BY <1>4, <1>5, <1>11 DEF Own
  <2>2. Said(k, "key-derivation-name") = "argon2id" => bag'.args # None
    BY <1>5, <1>6, <1>11
  <2> QED BY <1>11, <1>13, <2>1, <2>2 DEF Derived
<1>15. /\ Said(g, "algorithm-name") # "gcm" => bag'.digest # None
       /\ bag'.encAlg = Own(g, "algorithm-name")
  BY <1>5, <1>11, <1>12 DEF Amid, HeardParts
<1>16. \A s \in Within(i, "start-key-generation") :
         s <= pos => bag'.startKey = Own(s, "start-key-generation-name")
  <2> SUFFICES ASSUME NEW s \in Within(i, "start-key-generation"), s <= pos
               PROVE  bag'.startKey = Own(s, "start-key-generation-name")
    OBVIOUS
  <2>1. Len(source) \in Nat
    BY <1>1, Documented DEF Outlined
  <2>2. s \in 1..Len(source) /\ s # k
    BY <1>2, AmidSays DEF Says
  <2>3. s <= pos - 1
    BY <1>1, <2>1, <2>2
  <2>4. b.startKey = Own(s, "start-key-generation-name")
    BY <1>5, <2>3 DEF Amid, HeardParts
  <2> QED BY <1>11, <2>4
<1>17. HeardParts(i, d, g, k, pos, bag', derivedKeySize')
  BY <1>12, <1>14, <1>15, <1>16 DEF HeardParts
<1> QED BY <1>5, <1>9, <1>11, <1>17 DEF Amid, AmidStill

\* Inside a sound row, the end of an element or a text says nothing.
LEMMA QuietInside ==
  ASSUME Sourcing, EndElement \/ Characters, NEW i \in RowStarts, SoundRow(i), i <= pos, pos < RowEnd(i)
  PROVE  UNCHANGED <<bag, ignore, derivedKeySize>>
<1>0. PICK kind : Reads(kind) /\ (EndElement => kind = "end") /\ kind # "start"
  <2>1. EndElement => Reads("end")
    BY EndIs
  <2>2. Characters => Reads("text")
    BY DEF Characters
  <2> QED BY <2>1, <2>2 DEF Reads
<1>1. pos \notin RowStarts /\ Outlined
  <2>1. source[pos].kind = kind /\ Outlined
    BY <1>0, EventIs DEF Sourcing
  <2> QED BY <1>0, <2>1, RowStart
<1>2. /\ i <= pos - 1 /\ pos - 1 < RowEnd(i) /\ i \in 1..Len(source) /\ RowEnd(i) \in 1..Len(source)
      /\ pos \in 1..Len(source) /\ Len(source) \in Nat
  BY <1>0, <1>1, RowGoesOn, EventIs, Documented DEF Outlined
<1>3. CASE EndElement
  <2>1. ~CloseRow
    <3> SUFFICES ASSUME CloseRow PROVE FALSE
      OBVIOUS
    <3>1. PICK j \in RowStarts : RowEnd(j) = pos
      BY <1>3, RowClosed
    <3>2. i \in Nat /\ j \in Nat /\ RowEnd(i) \in Nat /\ j < RowEnd(j) /\ pos \in Nat
      <4>1. j \in 1..Len(source) /\ RowEnd(j) \in (j + 1)..Len(source)
        BY <1>1, RowEnds
      <4> QED BY <1>2, <4>1
    <3>3. i # j
      BY <3>1, <3>2
    <3>4. i < j => RowEnd(i) < j
      BY <1>1, RowsInOrder
    <3>5. j < i => RowEnd(j) < i
      BY <1>1, RowsInOrder
    <3> QED BY <3>1, <3>2, <3>3, <3>4, <3>5
  <2>2. ~CloseText
    <3> SUFFICES ASSUME CloseText PROVE FALSE
      OBVIOUS
    <3>1. beyond = 0
      BY DEF CloseText, Closes
    <3>2. pos - 1 \in i..(RowEnd(i) - 1)
      BY <1>2
    <3>3. Lean(pos - 1)
      BY <1>1, <3>2, SoundIsLean
    <3>4. PICK n : n = Depth(pos - 1)
      OBVIOUS
    <3>5. Len(stack) = n /\ Top.name = Trail(pos - 1)[n] /\ <<n, Trail(pos - 1)[n]>> \in TextSlots
      BY <1>3, <3>1, <3>4, EndIs DEF CloseText
    <3>6. n \in {4, 5, 6} /\ (n = 4 => Trail(pos - 1)[n] = M("CipherValue"))
      BY <3>5 DEF TextSlots
    <3>7. n = 4 /\ Trail(pos - 1)[4] = M("CipherValue")
      BY <3>3, <3>4, <3>6 DEF Lean
    <3>8. Trail(pos - 1)[4] \in Inner
      BY <3>3, <3>4, <3>7 DEF Lean
    <3> QED BY <3>7, <3>8 DEF Inner, M
  <2> QED BY <1>3, <2>1, <2>2 DEF EndElement, CloseNothing, CloseKey, CloseOther, rowState
<1>4. CASE Characters
  BY <1>4 DEF Characters, rowState
<1> QED BY <1>3, <1>4

\* The next event of a sound row.
LEMMA HeardOn ==
  ASSUME Sourcing, StartElement \/ EndElement \/ Characters, Calm(pos - 1, ignore),
         Building(pos - 1, bag, derivedKeySize), Hearing(pos - 1, bag, derivedKeySize, ignore)
  PROVE  Hearing(pos, bag', derivedKeySize', ignore')
<1> SUFFICES ASSUME NEW i \in RowStarts, SoundRow(i), i <= pos, pos < RowEnd(i)
             PROVE  Heard(i, pos, bag', derivedKeySize', ignore')
  BY DEF Hearing
<1>0. PICK kind : /\ Reads(kind) /\ (StartElement => kind = "start") /\ (kind = "start" => StartElement)
                  /\ (kind # "start" => EndElement \/ Characters)
  <2>1. StartElement => Reads("start")
    BY StartIs
  <2>2. EndElement => Reads("end")
    BY EndIs
  <2>3. Characters => Reads("text")
    BY DEF Characters
  <2>4. \A x, y : Reads(x) /\ Reads(y) => x = y
    BY DEF Reads
  <2> QED BY <2>1, <2>2, <2>3, <2>4
<1>a. /\ pos \in 1..Len(source) /\ Len(source) \in Nat /\ Outlined /\ source[pos].kind = kind
      /\ Event = source[pos]
  BY <1>0, EventIs, Documented DEF Sourcing, Outlined
<1>b. i \in 1..Len(source) /\ RowEnd(i) \in (i + 1)..Len(source)
  BY <1>a, RowEnds
<1>1. CASE OpenRow
  <2>1. pos \in RowStarts
    <3>1. StartElement
      BY <1>1 DEF StartElement
    <3> QED BY <1>1, <3>1, RowTaken
  <2>2. i = pos
    <3>1. i < pos => RowEnd(i) < pos
      BY <1>a, <2>1, RowsInOrder
    <3> QED BY <1>a, <1>b, <3>1
  <2> QED BY <1>1, <2>2, HeardFirst
<1>2. CASE ~OpenRow
  <2>1. pos \notin RowStarts
    <3>1. pos \in RowStarts => kind = "start"
      BY <1>a, RowStart
    <3> QED BY <1>0, <1>2, <3>1, RowTaken
  <2>2. i # pos /\ i <= pos - 1 /\ pos - 1 < RowEnd(i) /\ pos \in Nat
    BY <1>0, <1>a, <2>1, RowGoesOn
  <2>3. Heard(i, pos - 1, bag, derivedKeySize, ignore) /\ DOMAIN bag = BagFields
    BY <2>2 DEF Hearing, Building, BuiltOf
  <2>4. PICK d0, g0, k0 : SoundParts(i, d0, g0, k0)
    BY <1>a, SoundHas
  <2>5. ASSUME NEW d, NEW g, NEW k, SoundParts(i, d, g, k) PROVE AmidStill(i, d, g, k)
    <3>1. Amid(i, d, g, k)
      BY <1>a, <2>2, <2>3, <2>5 DEF Amid, Heard
    <3>2. /\ DataOf(i) = {d} /\ Within(i, "algorithm") = {g} /\ Within(i, "key-derivation") = {k}
          /\ Starts(i + 1, RowEnd(i)) = {d, g, k} \cup Within(i, "start-key-generation")
      BY <2>5 DEF SoundParts
    <3>3. kind = "start" <=> pos \in {d, g, k} \cup Within(i, "start-key-generation")
      <4>1. pos \in (i + 1)..RowEnd(i)
        BY <1>a, <1>b, <2>2
      <4> QED BY <1>a, <3>2, <4>1 DEF Starts
    <3>4. pos = d => OpenData
      BY <1>0, <3>2, <3>3, PartTaken
    <3>5. pos = g => OpenAlgorithm
      BY <1>0, <3>2, <3>3, PartTaken
    <3>6. pos = k => OpenDerivation
      BY <1>0, <3>2, <3>3, PartTaken
    <3>7. pos \in Within(i, "start-key-generation") => OpenStartKey
      BY <1>0, <3>2, <3>3, PartTaken
    <3>8. CASE pos \notin {d, g, k} \cup Within(i, "start-key-generation")
      <4>1. UNCHANGED <<bag, ignore, derivedKeySize>>
        BY <1>0, <3>3, <3>8, QuietInside
      <4> QED BY <3>1, <3>8, <4>1, HeardNothing
    <3>9. CASE pos = d
      BY <3>1, <3>4, <3>9, HeardData
    <3>10. CASE pos = g
      BY <3>1, <3>5, <3>10, HeardAlgorithm
    <3>11. CASE pos = k
      BY <3>1, <3>6, <3>11, HeardDerivation
    <3>12. CASE pos \in Within(i, "start-key-generation")
      BY <3>1, <3>7, <3>12, HeardStartKey
    <3> QED BY <3>8, <3>9, <3>10, <3>11, <3>12
  <2> QED BY <2>4, <2>5 DEF AmidStill, Heard
<1> QED BY <1>1, <1>2

\* A row that says what the document does.
ReadAs(i, row) ==
  /\ CompletePassword(row)
  /\ row.path = Own(i, "path") /\ row.size = Own(i, "size")
  /\ row.encAlg = Own(AlgOf(i), "algorithm-name") /\ row.kdf = Own(KdOf(i), "key-derivation-name")
  /\ row.keySize.val = SizeMeant(i)
  /\ \A e \in Within(i, "start-key-generation") : row.startKey = Own(e, "start-key-generation-name")

AllRead(rows, n) == \A i \in Ended(n) : SoundRow(i) => ReadAs(i, rows[Ordinal(i)])

\* At its end a sound row is complete.
LEMMA HeardIsRead ==
  ASSUME Outlined, NEW i \in RowStarts, SoundRow(i), NEW n, n = RowEnd(i) - 1,
         NEW b, NEW dks, NEW ign, Heard(i, n, b, dks, ign),
         NEW row, NEW v, NEW o, FinishedFrom(row, b, v, o)
  PROVE  ReadAs(i, row)
<1>1. PICK d, g, k : SoundParts(i, d, g, k)
  BY SoundHas
<1>2. PICK e : e = RowEnd(i)
  OBVIOUS
<1>3. /\ d \in Nat /\ g \in Nat /\ k \in Nat /\ d < g /\ g < k /\ k < e
      /\ AlgOf(i) = g /\ KdOf(i) = k /\ e \in 1..Len(source) /\ Len(source) \in Nat
  <2>1. i \in 1..Len(source) /\ e \in (i + 1)..Len(source) /\ Len(source) \in Nat
    BY <1>2, RowEnds, Documented DEF Outlined
  <2> QED BY <1>1, <1>2, <2>1 DEF SoundParts
<1>4. d <= n /\ g <= n /\ k <= n
  BY <1>2, <1>3
<1>5. Says(i, d, g, k)
  BY <1>1, SoundSays
<1>6. HeardParts(i, d, g, k, n, b, dks) /\ b.path = Own(i, "path") /\ b.size = Own(i, "size")
  BY <1>1 DEF Heard
<1>7. /\ Said(g, "algorithm-name") # "gcm" => b.digest # None
      /\ b.encAlg = Own(g, "algorithm-name") /\ b.kdf = Own(k, "key-derivation-name")
      /\ b.keySize.val = SizeMeant(i)
      /\ Said(k, "key-derivation-name") = "argon2id" => b.args # None
  BY <1>4, <1>6 DEF HeardParts, Derived
<1>8. \A f \in {"path", "size", "digest", "encAlg", "startKey", "kdf", "keySize", "args"} : row[f] = b[f]
  BY DEF FinishedFrom, BagFields, OwnFields
<1>9. Own(i, "size") # None /\ Own(g, "algorithm-name") # None /\ Own(k, "key-derivation-name") # None
  <2>1. /\ Said(i, "size") # "" /\ Said(g, "algorithm-name") # "" /\ Said(k, "key-derivation-name") # ""
    BY <1>5 DEF Says, Ciphers
  <2>2. \A x \in {i, g, k} : x \in 1..Len(source) /\ source[x].kind = "start"
    BY <1>5 DEF Says
  <2>3. ASSUME NEW x \in {i, g, k}, NEW a, Said(x, a) # "" PROVE Own(x, a) # None
    BY <2>2, <2>3, SaidIsSomething DEF Own
  <2> QED BY <2>1, <2>3
<1>10. Own(g, "algorithm-name").val = Said(g, "algorithm-name")
       /\ Own(k, "key-derivation-name").val = Said(k, "key-derivation-name")
  BY DEF Own, Value
<1>11. Said(k, "key-derivation-name") \in PasswordKdfs
  BY <1>5 DEF Says, PasswordKdfs
<1>12. Complete(row)
  BY <1>6, <1>7, <1>8, <1>9, <1>10 DEF Complete
<1>13. CompletePassword(row)
  BY <1>7, <1>8, <1>10, <1>11, <1>12 DEF CompletePassword
<1>14. \A s \in Within(i, "start-key-generation") : row.startKey = Own(s, "start-key-generation-name")
  <2> SUFFICES ASSUME NEW s \in Within(i, "start-key-generation")
               PROVE  row.startKey = Own(s, "start-key-generation-name")
    OBVIOUS
  <2>1. s \in i..e /\ source[s].kind = "start"
    BY <1>2 DEF Within, At, Starts
  <2>2. source[e].kind = "end"
    BY <1>2, RowEndIs
  <2>3. i \in Nat
    BY <1>1 DEF SoundParts
  <2>4. s <= n
    BY <1>2, <1>3, <2>1, <2>2, <2>3
  <2> QED BY <1>6, <1>8, <2>4 DEF HeardParts
<1> QED BY <1>3, <1>6, <1>7, <1>8, <1>13, <1>14 DEF ReadAs

-----------------------------------------------------------------------------
\* What has been read of sound rows, and what becomes of it.
AllHeard ==
  /\ phase = "source" => /\ Calm(pos - 1, ignore) /\ Hearing(pos - 1, bag, derivedKeySize, ignore)
                         /\ AllRead(bags, pos - 1)
  /\ fate = "whole" => AllRead(before, Len(source))

LEMMA StillSaid ==
  ASSUME UNCHANGED <<source, outline>>
  PROVE  /\ RowStarts' = RowStarts
         /\ \A i : /\ RowEnd(i)' = RowEnd(i) /\ Ordinal(i)' = Ordinal(i) /\ (SoundRow(i)' => SoundRow(i))
                   /\ SizeMeant(i)' = SizeMeant(i) /\ AlgOf(i)' = AlgOf(i) /\ KdOf(i)' = KdOf(i)
         /\ \A n : Ended(n)' = Ended(n) /\ (Inside(n)' <=> Inside(n))
         /\ \A i, x : Within(i, x)' = Within(i, x)
         /\ \A e, a : Said(e, a)' = Said(e, a) /\ Own(e, a)' = Own(e, a)
         /\ \A i, d, g, k : SoundParts(i, d, g, k)' => SoundParts(i, d, g, k)
<1>1. /\ RowStarts' = RowStarts
      /\ \A i : RowEnd(i)' = RowEnd(i) /\ DataOf(i)' = DataOf(i) /\ Ordinal(i)' = Ordinal(i)
      /\ \A n : Ended(n)' = Ended(n) /\ PathAt(n)' = PathAt(n)
      /\ \A m, n : Starts(m, n)' = Starts(m, n)
      /\ \A i, x : Within(i, x)' = Within(i, x)
  BY Frozen
<1>2. \A e, a : Said(e, a)' = Said(e, a) /\ Own(e, a)' = Own(e, a)
  BY DEF Said, Own, Value
<1>3. \A i : SizeMeant(i)' = SizeMeant(i) /\ AlgOf(i)' = AlgOf(i) /\ KdOf(i)' = KdOf(i)
  BY <1>1, <1>2 DEF SizeMeant, AlgOf, KdOf
<1>4. ASSUME NEW i, SoundRow(i)' PROVE SoundRow(i)
  BY <1>1, <1>2, <1>4 DEF SoundRow
<1>5. \A n : Inside(n)' <=> Inside(n)
  BY <1>1 DEF Inside
<1>6. ASSUME NEW i, NEW d, NEW g, NEW k, SoundParts(i, d, g, k)' PROVE SoundParts(i, d, g, k)
  BY <1>1, <1>3, <1>6 DEF SoundParts
<1> QED BY <1>1, <1>2, <1>3, <1>4, <1>5, <1>6

\* The same, where the document does not change, whatever names it.
LEMMA StillHeard ==
  ASSUME UNCHANGED <<source, outline>>
  PROVE  /\ Calm(pos' - 1, ignore') => Calm(pos - 1, ignore)'
         /\ Hearing(pos' - 1, bag', derivedKeySize', ignore') => Hearing(pos - 1, bag, derivedKeySize, ignore)'
         /\ AllRead(bags', pos' - 1) => AllRead(bags, pos - 1)'
         /\ AllRead(before', Len(source)) => AllRead(before, Len(source))'
<1>1. Calm(pos' - 1, ignore') => Calm(pos - 1, ignore)'
  BY StillSaid DEF Calm
<1>2. ASSUME Hearing(pos' - 1, bag', derivedKeySize', ignore')
      PROVE  Hearing(pos - 1, bag, derivedKeySize, ignore)'
  <2> SUFFICES ASSUME NEW i \in RowStarts', SoundRow(i)', i <= pos' - 1, pos' - 1 < RowEnd(i)'
               PROVE  Heard(i, pos - 1, bag, derivedKeySize, ignore)'
    BY DEF Hearing
  <2>1. Heard(i, pos' - 1, bag', derivedKeySize', ignore')
    BY <1>2, StillSaid DEF Hearing
  <2>2. ASSUME NEW d, NEW g, NEW k, SoundParts(i, d, g, k)'
        PROVE  HeardParts(i, d, g, k, pos - 1, bag, derivedKeySize)'
    <3>1. HeardParts(i, d, g, k, pos' - 1, bag', derivedKeySize')
      BY <2>1, <2>2, StillSaid DEF Heard
    <3> QED BY <3>1, StillSaid DEF HeardParts, KeySized, Derived
  <2> QED BY <2>1, <2>2, StillSaid DEF Heard
<1>3. \A i : ReadAs(i, bags'[Ordinal(i)]) => ReadAs(i, bags[Ordinal(i)])'
  BY StillSaid DEF ReadAs, CompletePassword, Complete
<1>4. \A i : ReadAs(i, before'[Ordinal(i)]) => ReadAs(i, before[Ordinal(i)])'
  BY StillSaid DEF ReadAs, CompletePassword, Complete
<1>5. AllRead(bags', pos' - 1) => AllRead(bags, pos - 1)'
  BY <1>3, StillSaid DEF AllRead
<1>6. AllRead(before', Len(source)) => AllRead(before, Len(source))'
  BY <1>4, StillSaid DEF AllRead
<1> QED BY <1>1, <1>2, <1>5, <1>6

LEMMA AllHeardAtFirst == Init => AllHeard
<1> SUFFICES ASSUME Init PROVE AllHeard
  OBVIOUS
<1>1. /\ Outlined /\ pos - 1 = 0 /\ fate = "none" /\ ignore = FALSE
  BY DEF Init, Outlined
<1>2. \A i \in RowStarts : ~(i <= 0) /\ ~(RowEnd(i) <= 0)
  <2> SUFFICES ASSUME NEW i \in RowStarts PROVE ~(i <= 0) /\ ~(RowEnd(i) <= 0)
    OBVIOUS
  <2>1. i \in 1..Len(source) /\ RowEnd(i) \in (i + 1)..Len(source) /\ Len(source) \in Nat
    BY <1>1, RowEnds, Documented DEF Outlined
  <2> QED BY <2>1
<1>3. Calm(pos - 1, ignore)
  BY <1>1 DEF Calm
<1>4. Hearing(pos - 1, bag, derivedKeySize, ignore)
  BY <1>1, <1>2 DEF Hearing
<1>5. AllRead(bags, pos - 1)
  BY <1>1, <1>2 DEF AllRead, Ended
<1> QED BY <1>1, <1>3, <1>4, <1>5 DEF AllHeard

LEMMA AllHeardRead ==
  ASSUME Inv, Unborrowed, AllHeard, phase = "source", StartElement \/ EndElement \/ Characters
  PROVE  AllHeard'
<1>1. Sourcing
  BY DEF Inv, Unborrowed, Sourcing
<1>2. \E kind : Reads(kind)
  BY StartIs, EndIs, <1>1 DEF Characters
<1>3. /\ UNCHANGED <<source, outline>> /\ phase' = "source" /\ pos' - 1 = pos /\ pos \in 1..Len(source)
      /\ fate' = "none" /\ Outlined /\ Len(source) \in Nat
  <2>1. fate = "none" /\ Outlined
    BY DEF Inv, Unborrowed
  <2> QED BY <1>1, <1>2, <2>1, EventIs, Documented DEF Sourcing, Outlined
<1>4. /\ Calm(pos - 1, ignore) /\ Hearing(pos - 1, bag, derivedKeySize, ignore) /\ AllRead(bags, pos - 1)
      /\ Building(pos - 1, bag, derivedKeySize) /\ Counted(bags, pos - 1)
  BY <1>1 DEF AllHeard, Unborrowed
<1>5. Calm(pos, ignore') /\ Hearing(pos, bag', derivedKeySize', ignore')
  BY <1>1, <1>4, CalmOn, HeardOn
<1>6. \A i \in Ended(pos) :
              \/ i \in Ended(pos - 1) /\ bags'[Ordinal(i)] = bags[Ordinal(i)]
              \/ /\ i \in RowStarts /\ RowEnd(i) = pos /\ i <= pos - 1 /\ pos - 1 < RowEnd(i)
                 /\ FinishedFrom(bags'[Ordinal(i)], bag, version, Ordinal(i))
  <2>1. \A i \in RowStarts : i <= pos - 1 /\ pos - 1 < RowEnd(i) => DOMAIN bag = BagFields
    BY <1>4 DEF Building, BuiltOf
  <2> QED BY <1>1, <1>4, <2>1, RowsSettle
<1>7. AllRead(bags', pos)
  <2> SUFFICES ASSUME NEW i \in Ended(pos), SoundRow(i) PROVE ReadAs(i, bags'[Ordinal(i)])
    BY DEF AllRead
  <2>1. CASE i \in Ended(pos - 1) /\ bags'[Ordinal(i)] = bags[Ordinal(i)]
    BY <1>4, <2>1 DEF AllRead
  <2>2. CASE /\ i \in RowStarts /\ RowEnd(i) = pos /\ i <= pos - 1 /\ pos - 1 < RowEnd(i)
             /\ FinishedFrom(bags'[Ordinal(i)], bag, version, Ordinal(i))
    <3>1. Heard(i, pos - 1, bag, derivedKeySize, ignore)
      BY <1>4, <2>2 DEF Hearing
    <3>2. PICK n, b, dks, ign, row, v, o :
            /\ n = pos - 1 /\ b = bag /\ dks = derivedKeySize /\ ign = ignore
            /\ row = bags'[Ordinal(i)] /\ v = version /\ o = Ordinal(i)
      OBVIOUS
    <3>3. Heard(i, n, b, dks, ign) /\ FinishedFrom(row, b, v, o) /\ n = RowEnd(i) - 1
      BY <2>2, <3>1, <3>2
    <3> QED BY <1>3, <2>2, <3>2, <3>3, HeardIsRead
  <2> QED BY <1>6, <2>1, <2>2
<1>8. /\ Calm(pos - 1, ignore)' /\ Hearing(pos - 1, bag, derivedKeySize, ignore)'
      /\ AllRead(bags, pos - 1)'
  BY <1>3, <1>5, <1>7, StillHeard
<1> QED BY <1>3, <1>8 DEF AllHeard

LEMMA AllHeardStep == Inv /\ Unborrowed /\ AllHeard /\ [Next]_vars => AllHeard'
<1> SUFFICES ASSUME Inv, Unborrowed, AllHeard, [Next]_vars PROVE AllHeard'
  OBVIOUS
<1>1. UNCHANGED <<source, outline>> /\ Outlined
  BY OtherSteps DEF Unborrowed
<1>2. CASE phase = "source" /\ (StartElement \/ EndElement \/ Characters)
  BY <1>2, AllHeardRead
<1>3. CASE EndOfSource
  <2>1. /\ before' = bags /\ pos - 1 = Len(source) /\ phase = "source" /\ phase' # "source"
    BY <1>1, <1>3, AllReturned
  <2>2. AllRead(before', Len(source))
    BY <2>1 DEF AllHeard
  <2> QED BY <1>1, <2>1, <2>2, StillHeard DEF AllHeard
<1>4. CASE phase' # "source" /\ (fate' = "whole" => UNCHANGED <<fate, before>>)
  <2>1. fate' = "whole" => AllRead(before', Len(source))
    BY <1>4 DEF AllHeard
  <2> QED BY <1>1, <1>4, <2>1, StillHeard DEF AllHeard
<1>5. CASE UNCHANGED vars
  <2>1. UNCHANGED <<phase, fate, pos, bag, derivedKeySize, ignore, bags, before>>
    BY <1>5 DEF vars
  <2>2. fate' = "whole" => AllRead(before', Len(source))
    BY <2>1 DEF AllHeard
  <2>3. phase' = "source" => /\ Calm(pos' - 1, ignore') /\ AllRead(bags', pos' - 1)
                             /\ Hearing(pos' - 1, bag', derivedKeySize', ignore')
    BY <2>1 DEF AllHeard
  <2> QED BY <1>1, <2>2, <2>3, StillHeard DEF AllHeard
<1> QED BY <1>2, <1>3, <1>4, <1>5, OtherSteps

LEMMA AlwaysHeard == Spec => [](Unborrowed /\ AllHeard)
<1>1. Inv /\ Unborrowed /\ AllHeard /\ [Next]_vars => Inv' /\ Unborrowed' /\ AllHeard'
  BY InvStep, UnborrowedStep, AllHeardStep
<1> QED BY <1>1, InvAtFirst, UnborrowedAtFirst, AllHeardAtFirst, PTL DEF Spec

\* However the rows before it end, what is open at the time and whatever they left in
\* the ignore flag, the key size, the text and the keys: a row as LibreOffice writes it
\* comes out of parse_manifest complete, with its own words and the key size they mean.
THEOREM SoundRowsAlwaysRead == Spec => []SoundRowsAreRead
<1>1. Unborrowed /\ AllHeard => SoundRowsAreRead
  <2> SUFFICES ASSUME Unborrowed, AllHeard, fate = "whole", NEW i \in RowStarts, SoundRow(i)
               PROVE  ReadAs(i, before[Ordinal(i)])
    BY DEF SoundRowsAreRead, ReadAs, Own, AlgOf, KdOf
  <2>1. i \in Ended(Len(source))
    <3>1. RowEnd(i) \in (i + 1)..Len(source) /\ i \in 1..Len(source) /\ Len(source) \in Nat
      BY RowEnds, Documented DEF Unborrowed, Outlined
    <3> QED BY <3>1 DEF Ended
  <2> QED BY <2>1 DEF AllHeard, AllRead
<1> QED BY <1>1, AlwaysHeard, PTL

-----------------------------------------------------------------------------
(***************************************************************************)
(* What a plaintext package's manifest says, told from its events: the     *)
(* path, the media type and the version of each row.                       *)
(***************************************************************************)
Gist(b) == [path |-> b.path, media |-> b.media, version |-> b.version]
NoGist  == [path |-> None, media |-> None, version |-> None]
Blank   == [rows |-> <<>>, row |-> NoGist, root |-> None]

\* The start event e inside the open elements o.
Named(o, e)     == Convert(e.name, Scopes(o) \cup {e.ns})
Stated(o, e, a) ==
  IF a \in DOMAIN e.attrs /\ Convert(<<e.via, a>>, Scopes(o) \cup {e.ns}) = <<"manifest", a>>
  THEN e.attrs[a] ELSE ""
Given(o, e, a, none) == IF Stated(o, e, a) = "" THEN none ELSE Value(Stated(o, e, a), e)

Roots(o, e)  == e.kind = "start" /\ Len(o) = 0
Begins(o, e) == e.kind = "start" /\ Len(o) = 1 /\ Named(o, e) = FileEntry
Finishes(o, e) == e.kind = "end" /\ Len(o) = 2 /\ Names(o)[2] = FileEntry

RowBegun(o, e) == [path |-> Value(Stated(o, e, "path"), e), media |-> Value(Stated(o, e, "media"), e),
                   version |-> Given(o, e, "version", None)]
RowDone(s) == IF s.rows = <<>> /\ s.row.version = None THEN [s.row EXCEPT !.version = s.root] ELSE s.row

Stage(s, o, e) ==
  [rows |-> IF Finishes(o, e) THEN Append(s.rows, RowDone(s)) ELSE s.rows,
   row  |-> IF Begins(o, e) THEN RowBegun(o, e) ELSE IF Finishes(o, e) THEN NoGist ELSE s.row,
   root |-> IF Roots(o, e) THEN Given(o, e, "version", s.root) ELSE s.root]

\* A row finished, one being built and the package's version say what s does.
Like(s, rows, b, v) ==
  /\ s = [rows |-> s.rows, row |-> Gist(b), root |-> v]
  /\ s.rows \in Seq(Range(s.rows)) /\ Len(s.rows) = Len(rows)
  /\ \A i \in 1..Len(rows) : s.rows[i] = Gist(rows[i])

\* Bags have their fields.
Bagged(rows, b) == DOMAIN b = BagFields /\ rows \in Seq(Range(rows))

LEMMA StageNothing ==
  ASSUME NEW s, NEW o, NEW e, NEW rows, NEW b, NEW v, Like(s, rows, b, v),
         ~Roots(o, e), ~Begins(o, e), ~Finishes(o, e)
  PROVE  Stage(s, o, e) = s
BY DEF Stage, Like

\* What the import sees of the elements around an event.
LEMMA EventSeen ==
  ASSUME Parses, NEW kind, Reads(kind), NEW o, o = Open(Input, pos - 1)
  PROVE  /\ o \in Seq(Range(Input)) /\ Len(o) \in Nat /\ Len(stack) \in Nat /\ beyond \in Nat
         /\ MaxDepth \in Nat /\ MaxDepth > 6 /\ Event.kind = kind
         /\ beyond > 0 => Len(o) > 6
         /\ beyond = 0 => Len(stack) = Len(o) /\ Scopes(stack) = Scopes(o)
         /\ Len(stack) >= MaxDepth => Len(o) > 6
<1>1. Shadows(stack, beyond, o) /\ o \in Seq(Range(Input)) /\ Event.kind = kind
  BY EventTaken DEF Parses
<1>2. /\ Cut(o) \in Nat /\ Cut(o) <= Len(o) /\ Len(o) \in Nat /\ MaxDepth \in Nat /\ MaxDepth > 6
      /\ Len(stack) = Cut(o) /\ beyond = Len(o) - Cut(o) /\ stack \in Seq(Range(stack))
      /\ (Len(o) <= MaxDepth => Cut(o) = Len(o))
  BY <1>1, CutIs, DepthAssumption DEF Shadows
<1>3. ASSUME beyond = 0 PROVE Scopes(stack) = Scopes(o)
  <2>1. Len(stack) = Len(o)
    BY <1>2, <1>3
  <2>2. DOMAIN stack = DOMAIN o /\ DOMAIN stack = 1..Len(stack)
    BY <1>1, <1>2, <2>1
  <2>3. \A j \in DOMAIN stack : stack[j].ns = o[j].ns
    BY <1>1, <2>2 DEF Shadows
  <2> QED BY <2>2, <2>3 DEF Scopes
<1> QED BY <1>1, <1>2, <1>3

\* A start of an element.
LEMMA StartSeen ==
  ASSUME Parses, StartElement, NEW o, o = Open(Input, pos - 1)
  PROVE  /\ Reads("start") /\ Event.kind = "start" /\ Len(o) \in Nat
         /\ OpenTooDeep => Len(o) > 6
         /\ Opens => /\ Level = Len(o) + 1 /\ ElementName = Named(o, Event)
                     /\ \A a : Attr(a) = Stated(o, Event, a)
<1>1. Reads("start")
  BY DEF StartElement, OpenTooDeep, OpenRoot, OpenRow, OpenKey, OpenMethod, OpenData,
         OpenAlgorithm, OpenStartKey, OpenDerivation, OpenText, OpenOther, Opens
<1>2. /\ Len(o) \in Nat /\ Event.kind = "start" /\ beyond \in Nat /\ Len(stack) \in Nat
      /\ MaxDepth \in Nat /\ MaxDepth > 6
      /\ beyond > 0 => Len(o) > 6
      /\ beyond = 0 => Len(stack) = Len(o) /\ Scopes(stack) = Scopes(o)
      /\ Len(stack) >= MaxDepth => Len(o) > 6
  BY <1>1, EventSeen
<1>3. OpenTooDeep => Len(o) > 6
  BY <1>2 DEF OpenTooDeep, TooDeep
<1>4. ASSUME Opens
      PROVE  /\ Level = Len(o) + 1 /\ ElementName = Named(o, Event)
             /\ \A a : Attr(a) = Stated(o, Event, a)
  <2>1. ~TooDeep
    BY <1>4 DEF Opens
  <2>2. beyond = 0
    BY <1>2, <2>1 DEF TooDeep
  <2> QED BY <1>2, <2>2 DEF Level, ElementName, Named, Attr, Has, Stated
<1> QED BY <1>1, <1>2, <1>3, <1>4

\* An end of an element.
LEMMA EndSeen ==
  ASSUME Parses, Rooted, EndElement, NEW o, o = Open(Input, pos - 1)
  PROVE  /\ Reads("end") /\ Event.kind = "end" /\ Len(o) \in Nat
         /\ CloseNothing => Len(o) > 6
         /\ CloseText => Len(o) >= 4
         /\ CloseRow <=> Len(o) = 2 /\ Names(o)[2] = FileEntry
<1>1. Reads("end")
  BY DEF EndElement, CloseNothing, CloseRow, CloseKey, CloseText, CloseOther, Closes
<1>2. /\ Len(o) \in Nat /\ Event.kind = "end" /\ beyond \in Nat /\ Len(stack) \in Nat
      /\ beyond > 0 => Len(o) > 6
      /\ beyond = 0 => Len(stack) = Len(o)
      /\ o \in Seq(Range(Input))
  BY <1>1, EventSeen
<1>3. PICK n : n = Len(o)
  OBVIOUS
<1>4. ASSUME beyond = 0
      PROVE  /\ Matches /\ Len(stack) = n /\ n > 0 /\ Top.name = Names(o)[n]
             /\ n > 1 => (Top.valid <=> \A k \in 2..n : Names(o)[k] \in KnownAt(k))
             /\ n = 1 => (Top.valid => Top.name \in KnownAt(1))
  <2>1. Shadows(stack, beyond, o)
    BY DEF Parses
  <2>2. o # <<>> /\ Last(o).name = Event.name
    BY <1>1, EventTaken
  <2>3. stack # <<>> /\ Last(stack).name = Convert(Event.name, Scopes(stack))
    BY <1>2, <1>4, <2>1, <2>2, ShadowsLess
  <2>4. Matches
    BY <2>3 DEF Matches, Top, EndName
  <2>5. n > 0 /\ Top = stack[n] /\ Len(stack) = n
    BY <1>2, <1>3, <1>4, <2>2 DEF Top, Last
  <2>6. /\ stack[n].name = Names(o)[n]
        /\ n > 1 => (stack[n].valid <=> \A k \in 2..n : Names(o)[k] \in KnownAt(k))
    BY <2>1, <2>5 DEF Shadows
  <2>7. n = 1 => (Top.valid => Top.name \in KnownAt(1))
    BY <2>3, <2>5, Zenon DEF Rooted
  <2> QED BY <2>4, <2>5, <2>6, <2>7, Zenon
<1>5. CloseNothing => n > 6
  <2>1. beyond = 0 => Matches
    BY <1>4
  <2>2. CloseNothing => beyond > 0 \/ ~Matches
    BY DEF CloseNothing
  <2> QED BY <1>2, <1>3, <2>1, <2>2
<1>6. CloseText => n >= 4
  <2> SUFFICES ASSUME CloseText PROVE n >= 4
    OBVIOUS
  <2>1. beyond = 0 /\ <<Len(stack), Top.name>> \in TextSlots
    BY DEF CloseText, Closes
  <2>2. <<n, Top.name>> \in TextSlots
    BY <1>2, <1>3, <2>1
  <2>3. n \in {4, 5, 6}
    BY <2>2 DEF TextSlots
  <2> QED BY <2>3
<1>7. ASSUME CloseRow PROVE n = 2 /\ Names(o)[2] = FileEntry
  <2>1. beyond = 0 /\ Top.name = FileEntry /\ Top.valid
    BY <1>7, Zenon DEF CloseRow, Closes
  <2>2. n > 0 /\ Top.name = Names(o)[n]
    BY <1>4, <2>1
  <2>3. n > 1 => \A k \in 2..n : Names(o)[k] \in KnownAt(k)
    BY <1>4, <2>1, Zenon
  <2>4. n = 1 => Top.name \in KnownAt(1)
    BY <1>4, <2>1, Zenon
  <2>5. n # 1
    BY <2>1, <2>4 DEF KnownAt, Known, FileEntry, M, Lo
  <2>6. ~(n > 2)
    <3> SUFFICES ASSUME n > 2 PROVE FALSE
      OBVIOUS
    <3>1. FileEntry \in KnownAt(n) /\ n \in Nat
      BY <1>2, <1>3, <2>1, <2>2, <2>3
    <3> QED BY <3>1 DEF KnownAt, Known, FileEntry, M, Lo
  <2>7. n = 2
    <3>1. n \in Nat
      BY <1>2, <1>3
    <3>2. n > 0
      BY <2>2
    <3> QED BY <3>1, <3>2, <2>5, <2>6
  <2>8. Names(o)[n] = FileEntry
    BY <2>1, <2>2
  <2> QED BY <2>7, <2>8
<1>8. ASSUME n = 2, Names(o)[2] = FileEntry PROVE CloseRow
  <2>1. beyond = 0
    <3>1. ~(Len(o) > 6) /\ beyond \in Nat
      <4>1. Len(o) = 2 /\ beyond \in Nat
        BY <1>2, <1>3, <1>8
      <4>2. \A m : m = 2 => ~(m > 6)
        OBVIOUS
      <4> QED BY <4>1, <4>2, Zenon
    <3>2. ~(beyond > 0)
      BY <1>2, <3>1
    <3> QED BY <3>1, <3>2
  <2>2. Matches /\ Top.name = FileEntry /\ Len(stack) = 2
    BY <1>4, <1>8, <2>1
  <2>3. Top.valid
    <3>1. \A k \in 2..2 : Names(o)[k] \in KnownAt(k)
      BY <1>8 DEF KnownAt, Known, FileEntry
    <3>2. n > 1 => (Top.valid <=> \A k \in 2..n : Names(o)[k] \in KnownAt(k))
      BY <1>4, <2>1, Zenon
    <3>3. n > 1 /\ 2..n = 2..2
      BY <1>8
    <3> QED BY <3>1, <3>2, <3>3, Zenon
  <2>4. ~CloseNothing
    BY <2>1, <2>2 DEF CloseNothing
  <2>5. ~CloseKey
    BY <2>2 DEF CloseKey, FileEntry, M, Lo
  <2>6. ~CloseText
    BY <2>2 DEF CloseText, TextSlots
  <2>7. ~CloseOther
    BY <2>2, <2>3, Zenon DEF CloseOther
  <2> QED BY <2>4, <2>5, <2>6, <2>7 DEF EndElement
<1> QED BY <1>1, <1>2, <1>3, <1>5, <1>6, <1>7, <1>8

\* The rest of the bag does not show.
LEMMA GistOther ==
  ASSUME NEW b, NEW c, DOMAIN b = BagFields, DOMAIN c = BagFields,
         c.path = b.path, c.media = b.media, c.version = b.version
  PROVE  Gist(c) = Gist(b)
BY DEF Gist

LEMMA LikeOther ==
  ASSUME NEW s, NEW rows, NEW b, NEW v, NEW c, Like(s, rows, b, v), Gist(c) = Gist(b)
  PROVE  Like(s, rows, c, v)
BY DEF Like

\* What start_element makes of the bag, for what shows of it.
LEMMA StartLike ==
  ASSUME Parses, StartElement, NEW o, o = Open(Input, pos - 1), Bagged(bags, bag),
         NEW s, Like(s, bags, bag, version)
  PROVE  Like(Stage(s, o, Event), bags', bag', version') /\ Bagged(bags', bag')
<1>1. /\ Reads("start") /\ Event.kind = "start" /\ Len(o) \in Nat
      /\ OpenTooDeep => Len(o) > 6
      /\ Opens => /\ Level = Len(o) + 1 /\ ElementName = Named(o, Event)
                  /\ \A a : Attr(a) = Stated(o, Event, a)
  BY StartSeen
<1>2. PICK e, b, n, x : e = Event /\ b = bag /\ n = Len(o) /\ x = Named(o, Event)
  OBVIOUS
<1>3. /\ OpenTooDeep => n > 6
      /\ Opens => /\ Level = n + 1 /\ Slot = <<n + 1, x>>
                  /\ \A a : Attr(a) = Stated(o, e, a)
  BY <1>1, <1>2, Zenon DEF Slot
<1>4. e.kind = "start" /\ n \in Nat
  BY <1>1, <1>2
<1>5. /\ (Roots(o, e) <=> n = 0) /\ (Begins(o, e) <=> n = 1 /\ x = FileEntry)
      /\ ~Finishes(o, e) /\ DOMAIN b = BagFields
  BY <1>2, <1>4 DEF Roots, Begins, Finishes, Bagged
<1>6. CASE OpenRoot
  <2>1. Opens /\ Level = 1
    BY <1>6, Zenon DEF OpenRoot
  <2>2. n = 0
    BY <1>3, <1>4, <2>1
  <2>3. \A a : Attr(a) = Stated(o, e, a)
    BY <1>3, <2>1, Zenon
  <2>4. UNCHANGED <<bags, bag>>
    BY <1>6 DEF OpenRoot, rowState
  <2>5. version' = Given(o, e, "version", version)
    <3>1. version' = IF Attr("version") = "" THEN version ELSE Value(Attr("version"), e)
      BY <1>2, <1>6 DEF OpenRoot
    <3> QED BY <2>3, <3>1 DEF Given
  <2>6. Roots(o, e) /\ ~Begins(o, e)
    BY <1>5, <2>2
  <2> QED BY <1>2, <1>5, <2>4, <2>5, <2>6 DEF Like, Stage, Bagged
<1>7. CASE OpenRow
  <2>1. Opens /\ Slot = <<2, FileEntry>>
    BY <1>7, Zenon DEF OpenRow
  <2>2. n = 1 /\ x = FileEntry
    <3>1. <<n + 1, x>> = <<2, FileEntry>>
      BY <1>3, <2>1, Zenon
    <3> QED BY <1>4, <3>1
  <2>3. UNCHANGED <<bags, version>>
    BY <1>7 DEF OpenRow
  <2>8. \A a : Attr(a) = Stated(o, e, a)
    BY <1>3, <2>1, Zenon
  <2>9. Begins(o, e) /\ ~Roots(o, e)
    BY <1>5, <2>2
  <2>4. PICK p, m, v, z :
          /\ p = Value(Stated(o, e, "path"), e) /\ m = Value(Stated(o, e, "media"), e)
          /\ v = Given(o, e, "version", None) /\ z = Given(o, e, "size", None)
    OBVIOUS
  <2>5. bag' = [NewBag EXCEPT !.path = p, !.media = m, !.version = v, !.size = z]
    <3>1. bag' = [NewBag EXCEPT !.path = Value(Attr("path"), e), !.media = Value(Attr("media"), e),
                  !.version = IF Attr("version") = "" THEN None ELSE Value(Attr("version"), e),
                  !.size = IF Attr("size") = "" THEN None ELSE Value(Attr("size"), e)]
      BY <1>2, <1>7 DEF OpenRow
    <3> QED BY <2>4, <2>8, <3>1 DEF Given
  <2>6. DOMAIN bag' = BagFields /\ bag'.path = p /\ bag'.media = m /\ bag'.version = v
    BY <2>5, NewBagIs DEF BagFields, OwnFields
  <2>7. Gist(bag') = RowBegun(o, e)
    BY <2>4, <2>6 DEF Gist, RowBegun
  <2> QED BY <1>2, <1>5, <2>3, <2>6, <2>7, <2>9 DEF Like, Stage, Bagged
<1>8. CASE ~OpenRoot /\ ~OpenRow
  <2>1. n # 0 /\ ~(n = 1 /\ x = FileEntry)
    <3>1. CASE OpenTooDeep
      BY <1>3, <1>4, <3>1
    <3>2. CASE OpenOther
      <4>1. Opens /\ Level > 1 /\ Slot # <<2, FileEntry>>
        BY <3>2, Zenon DEF OpenOther
      <4>2. n + 1 > 1 /\ <<n + 1, x>> # <<2, FileEntry>>
        BY <1>3, <4>1, Zenon
      <4> QED BY <1>4, <4>2
    <3>3. CASE ~OpenTooDeep /\ ~OpenOther
      <4>1. /\ Opens
            /\ Slot \in {<<2, M("encrypted-key")>>, <<3, Lo("encrypted-key")>>,
                         <<3, M("encryption-method")>>, <<4, Lo("encryption-method")>>,
                         <<3, M("encryption-data")>>, <<4, M("algorithm")>>,
                         <<4, M("start-key-generation")>>, <<4, M("key-derivation")>>} \cup TextSlots
        BY <1>8, <3>3 DEF StartElement, OpenKey, OpenMethod, OpenData, OpenAlgorithm, OpenStartKey,
           OpenDerivation, OpenText
      <4>2. <<n + 1, x>> \in {<<2, M("encrypted-key")>>, <<3, Lo("encrypted-key")>>,
                         <<3, M("encryption-method")>>, <<4, Lo("encryption-method")>>,
                         <<3, M("encryption-data")>>, <<4, M("algorithm")>>,
                         <<4, M("start-key-generation")>>, <<4, M("key-derivation")>>} \cup TextSlots
        BY <1>3, <4>1, Zenon
      <4>3. n + 1 # 1 /\ (n + 1 = 2 => x # FileEntry)
        BY <4>2 DEF TextSlots, M, Lo, FileEntry
      <4> QED BY <1>4, <4>3
    <3> QED BY <3>1, <3>2, <3>3
  <2>2. Stage(s, o, e) = s
    BY <1>5, <2>1, StageNothing, Zenon
  <2>3. UNCHANGED <<bags, version>>
    BY <1>8 DEF StartElement, OpenTooDeep, OpenKey, OpenMethod, OpenData, OpenAlgorithm,
       OpenStartKey, OpenDerivation, OpenText, OpenOther
  <2>4. DOMAIN bag' = BagFields /\ Gist(bag') = Gist(b)
    <3>1. CASE OpenData
      <4>1. PICK u, w : bag' = b \/ bag' = [b EXCEPT !.digestAlg = u, !.digest = w]
        <5>1. PICK u, w : /\ u = IF Attr("checksum-type") = "1k" THEN Value("1k", Event) ELSE bag.digestAlg
                          /\ w = IF u = None THEN bag.digest ELSE Value("digest", Event)
          OBVIOUS
        <5>2. bag' = b \/ bag' = [b EXCEPT !.digestAlg = u, !.digest = w]
          BY <1>2, <3>1, <5>1 DEF OpenData
        <5> QED BY <5>2
      <4> QED BY <1>5, <4>1 DEF Gist, BagFields, OwnFields
    <3>2. CASE OpenAlgorithm
      <4>1. PICK u : bag' = b \/ bag' = [b EXCEPT !.encAlg = u]
        BY <1>2, <3>2 DEF OpenAlgorithm, rowState
      <4> QED BY <1>5, <4>1 DEF Gist, BagFields, OwnFields
    <3>3. CASE OpenStartKey
      <4>1. PICK u : bag' = b \/ bag' = [b EXCEPT !.startKey = u]
        BY <1>2, <3>3 DEF OpenStartKey
      <4> QED BY <1>5, <4>1 DEF Gist, BagFields, OwnFields
    <3>4. CASE OpenDerivation
      <4>1. PICK kdf, size, args : \/ bag' = b \/ bag' = [b EXCEPT !.kdf = kdf]
                           \/ bag' = [b EXCEPT !.kdf = kdf, !.keySize = size, !.args = args]
        <5>1. PICK z : z = IF Attr("key-size") # "" THEN Value(Attr("key-size"), Event)
                ELSE IF derivedKeySize.val = "0" THEN Value("16", Event) ELSE derivedKeySize
          OBVIOUS
        <5>2. PICK y : y = IF Attr("key-derivation-name") = "argon2id"
                                 /\ (Attr("key-derivation-name") = "argon2id" => Costs = "positive")
                           THEN Value("positive", Event) ELSE bag.args
          OBVIOUS
        <5>3. \/ bag' = b \/ bag' = [b EXCEPT !.kdf = Value("pgp", Event)]
              \/ bag' = [b EXCEPT !.kdf = Value(Attr("key-derivation-name"), Event),
                                  !.keySize = z, !.args = y]
          BY <1>2, <3>4, <5>1, <5>2 DEF OpenDerivation, rowState
        <5> QED BY <5>3
      <4> QED BY <1>5, <4>1 DEF Gist, BagFields, OwnFields
    <3>5. CASE ~OpenData /\ ~OpenAlgorithm /\ ~OpenStartKey /\ ~OpenDerivation
      <4>1. bag' = b
        BY <1>2, <1>8, <3>5 DEF StartElement, OpenTooDeep, OpenKey, OpenMethod, OpenText, OpenOther, rowState
      <4> QED BY <1>5, <4>1
    <3> QED BY <3>1, <3>2, <3>3, <3>4, <3>5
  <2> QED BY <1>2, <2>2, <2>3, <2>4 DEF Like, Bagged
<1> QED BY <1>6, <1>7, <1>8

\* What the end of a row keeps of it.
LEMMA RowKept ==
  ASSUME NEW s, NEW rows, NEW b, NEW v, NEW k, NEW named, NEW keyed, Bagged(rows, b), Like(s, rows, b, v),
         named = IF rows = <<>> /\ b.version = None THEN [b EXCEPT !.version = v] ELSE b,
         keyed = named \/ keyed = [named EXCEPT !.keys = k]
  PROVE  Gist(keyed) = RowDone(s) /\ DOMAIN keyed = BagFields
<1>1. s.row = Gist(b) /\ s.root = v /\ (s.rows = <<>> <=> rows = <<>>)
  BY DEF Like, Bagged
<1>2. DOMAIN b = BagFields /\ DOMAIN named = BagFields /\ DOMAIN keyed = BagFields
  BY DEF Bagged
<1>3. Gist(keyed) = Gist(named)
  BY <1>2 DEF Gist, BagFields, OwnFields
<1>4. s.row.version = b.version
  BY <1>1 DEF Gist
<1>5. CASE rows = <<>> /\ b.version = None
  <2>1. RowDone(s) = [Gist(b) EXCEPT !.version = v]
    BY <1>1, <1>4, <1>5 DEF RowDone
  <2>2. named = [b EXCEPT !.version = v]
    BY <1>5
  <2>3. named.path = b.path /\ named.media = b.media /\ named.version = v
    BY <1>2, <2>2 DEF BagFields, OwnFields
  <2>4. Gist(named) = [Gist(b) EXCEPT !.version = v]
    BY <2>3 DEF Gist
  <2> QED BY <1>2, <1>3, <2>1, <2>4
<1>6. CASE ~(rows = <<>> /\ b.version = None)
  BY <1>1, <1>2, <1>3, <1>4, <1>6 DEF RowDone
<1> QED BY <1>5, <1>6

\* A row more.
LEMMA LikeMore ==
  ASSUME NEW s, NEW rows, NEW b, NEW v, NEW row, Bagged(rows, b), Like(s, rows, b, v),
         Gist(row) = RowDone(s), NEW o, NEW e, Finishes(o, e), e.kind = "end"
  PROVE  Like(Stage(s, o, e), Append(rows, row), NewBag, v) /\ Bagged(Append(rows, row), NewBag)
<1>1. DOMAIN NewBag = BagFields /\ Gist(NewBag) = NoGist
  BY NewBagIs DEF Gist, NoGist, OwnFields
<1>2. ~Begins(o, e) /\ ~Roots(o, e)
  BY DEF Begins, Roots
<1>3. PICK more, done, kept : more = Append(rows, row) /\ done = RowDone(s) /\ kept = Append(s.rows, done)
  OBVIOUS
<1>4. Stage(s, o, e) = [rows |-> kept, row |-> NoGist, root |-> v]
  <2>1. s.root = v
    BY DEF Like
  <2> QED BY <1>2, <1>3, <2>1, Zenon DEF Stage
<1>5. /\ s.rows \in Seq(Range(s.rows)) /\ Len(s.rows) = Len(rows) /\ rows \in Seq(Range(rows))
      /\ \A i \in 1..Len(rows) : s.rows[i] = Gist(rows[i])
  BY DEF Like, Bagged
<1>6. /\ more \in Seq(Range(more)) /\ kept \in Seq(Range(kept))
      /\ Len(more) = Len(rows) + 1 /\ Len(kept) = Len(rows) + 1
  <2>1. more \in Seq(Range(rows) \cup {row}) /\ kept \in Seq(Range(s.rows) \cup {done})
    BY <1>3, <1>5
  <2>2. more \in Seq(Range(more)) /\ kept \in Seq(Range(kept))
    BY <2>1, OwnRange
  <2>3. Len(more) = Len(rows) + 1 /\ Len(kept) = Len(s.rows) + 1
    BY <1>3, <1>5
  <2> QED BY <1>5, <2>2, <2>3
<1>7. ASSUME NEW i \in 1..Len(more) PROVE kept[i] = Gist(more[i])
  <2>1. CASE i \in 1..Len(rows)
    BY <1>3, <1>5, <2>1
  <2>2. CASE i = Len(rows) + 1
    BY <1>3, <1>5, <2>2
  <2> QED BY <1>5, <1>6, <2>1, <2>2
<1>8. Like(Stage(s, o, e), more, NewBag, v)
  BY <1>1, <1>4, <1>6, <1>7 DEF Like
<1>9. Bagged(more, NewBag)
  BY <1>1, <1>6 DEF Bagged
<1> QED BY <1>3, <1>8, <1>9

\* What end_element makes of the rows.
LEMMA EndLike ==
  ASSUME Parses, Rooted, EndElement, NEW o, o = Open(Input, pos - 1), Bagged(bags, bag),
         NEW s, Like(s, bags, bag, version)
  PROVE  Like(Stage(s, o, Event), bags', bag', version') /\ Bagged(bags', bag')
<1>1. PICK e : e = Event
  OBVIOUS
<1>2. e.kind = "end" /\ (CloseRow <=> Len(o) = 2 /\ Names(o)[2] = FileEntry)
  BY <1>1, EndSeen, Zenon
<1>3. Finishes(o, e) <=> CloseRow
  BY <1>2 DEF Finishes
<1>4. version' = version
  BY DEF EndElement, CloseNothing, CloseRow, CloseKey, CloseText, CloseOther, Closes
<1>5. CASE CloseRow
  <2>1. PICK named, keyed :
          /\ named = IF bags = <<>> /\ bag.version = None THEN [bag EXCEPT !.version = version] ELSE bag
          /\ keyed = IF bags = <<>> /\ ~ignore THEN [named EXCEPT !.keys = keys] ELSE named
    OBVIOUS
  <2>2. bags' = Append(bags, keyed) /\ bag' = NewBag
    BY <1>5, <2>1 DEF CloseRow
  <2>3. Gist(keyed) = RowDone(s)
    BY <2>1, RowKept
  <2>4. Finishes(o, e)
    BY <1>3, <1>5
  <2>5. Like(Stage(s, o, e), Append(bags, keyed), NewBag, version) /\ Bagged(Append(bags, keyed), NewBag)
    BY <1>2, <2>3, <2>4, LikeMore
  <2> QED BY <1>1, <1>4, <2>2, <2>5
<1>6. CASE ~CloseRow
  <2>1. ~Roots(o, e) /\ ~Begins(o, e)
    BY <1>2 DEF Roots, Begins
  <2>2. ~Finishes(o, e)
    BY <1>3, <1>6
  <2>3. Stage(s, o, e) = s
    BY <2>1, <2>2, StageNothing, Zenon
  <2>4. bags' = bags /\ bag' = bag
    BY <1>6 DEF EndElement, CloseNothing, CloseKey, CloseText, CloseOther, rowState
  <2> QED BY <1>1, <1>4, <2>3, <2>4
<1> QED BY <1>5, <1>6

\* Text shows nowhere.
LEMMA TextLike ==
  ASSUME Characters, NEW o, Bagged(bags, bag), NEW s, Like(s, bags, bag, version)
  PROVE  Like(Stage(s, o, Event), bags', bag', version') /\ Bagged(bags', bag')
<1>1. PICK e : e = Event
  OBVIOUS
<1>2. e.kind = "text" /\ UNCHANGED <<bags, bag, version>>
  BY <1>1 DEF Characters, Reads, Event, rowState
<1>3. ~Roots(o, e) /\ ~Begins(o, e) /\ ~Finishes(o, e)
  BY <1>2 DEF Roots, Begins, Finishes
<1>4. Stage(s, o, e) = s
  BY <1>3, StageNothing, Zenon
<1> QED BY <1>1, <1>2, <1>4

\* One event read.
LEMMA ReadLike ==
  ASSUME Parses, Rooted, StartElement \/ EndElement \/ Characters,
         NEW o, o = Open(Input, pos - 1), Bagged(bags, bag), NEW s, Like(s, bags, bag, version)
  PROVE  Like(Stage(s, o, Event), bags', bag', version') /\ Bagged(bags', bag')
BY StartLike, EndLike, TextLike, Zenon

-----------------------------------------------------------------------------
(***************************************************************************)
(* strip_manifest drops elements called encryption-data, and the size of a *)
(* file-entry.  Neither is told.                                           *)
(***************************************************************************)
Formed(s) == s = [rows |-> s.rows, row |-> s.row, root |-> s.root]

LEMMA NothingTold ==
  ASSUME NEW s, NEW o, NEW e, Formed(s), ~Roots(o, e), ~Begins(o, e), ~Finishes(o, e)
  PROVE  Stage(s, o, e) = s
BY DEF Stage, Formed

LEMMA StageFormed == \A s, o, e : Formed(Stage(s, o, e))
BY DEF Stage, Formed

\* The events e and w tell the same.
Alike(e, w) ==
  /\ w.kind = e.kind
  /\ e.kind = "start" =>
       /\ w.name = e.name /\ w.ns = e.ns /\ w.via = e.via /\ w.of = e.of
       /\ \A a \in {"path", "media", "version"} :
            /\ a \in DOMAIN w.attrs <=> a \in DOMAIN e.attrs
            /\ a \in DOMAIN e.attrs => w.attrs[a] = e.attrs[a]

LEMMA SizeNotTold ==
  ASSUME NEW e, e.kind = "start" => ElementShape(e)
  PROVE  Alike(e, WithoutSize(e))
<1>1. CASE e.kind = "start" /\ e.name[2] = "file-entry"
  <2>1. {"kind", "name", "via", "ns", "attrs", "of"} \subseteq DOMAIN e
    BY <1>1 DEF ElementShape
  <2>2. PICK w, as, bs : /\ as = e.attrs /\ bs = [a \in DOMAIN as \ {"size"} |-> as[a]]
                         /\ w = [e EXCEPT !.attrs = bs]
    OBVIOUS
  <2>3. WithoutSize(e) = w
    BY <1>1, <2>2 DEF WithoutSize
  <2>4. /\ w.kind = e.kind /\ w.name = e.name /\ w.ns = e.ns /\ w.via = e.via /\ w.of = e.of
        /\ w.attrs = bs
    BY <2>1, <2>2
  <2>5. \A a \in {"path", "media", "version"} :
          (a \in DOMAIN bs <=> a \in DOMAIN as) /\ (a \in DOMAIN as => bs[a] = as[a])
    BY <2>2
  <2> QED BY <2>2, <2>3, <2>4, <2>5 DEF Alike
<1>2. CASE ~(e.kind = "start" /\ e.name[2] = "file-entry")
  <2>1. WithoutSize(e) = e
    BY <1>2 DEF WithoutSize
  <2> QED BY <2>1 DEF Alike
<1> QED BY <1>1, <1>2

LEMMA SameStage ==
  ASSUME NEW S, NEW o \in Seq(S), NEW k \in Seq(S), Len(k) = Len(o),
         \A j \in 1..Len(o) : k[j].name = o[j].name /\ k[j].ns = o[j].ns,
         NEW e, NEW w, Alike(e, w), NEW s
  PROVE  Stage(s, k, w) = Stage(s, o, e)
<1>1. PICK n : n = Len(o)
  OBVIOUS
<1>2. n \in Nat /\ Len(k) = n /\ DOMAIN o = 1..n /\ DOMAIN k = 1..n
  BY <1>1
<1>3. Scopes(k) = Scopes(o)
  <2>1. \A j \in 1..n : k[j].ns = o[j].ns
    BY <1>1
  <2> QED BY <1>2, <2>1 DEF Scopes
<1>4. w.kind = e.kind
  BY DEF Alike
<1>5. Roots(k, w) <=> Roots(o, e)
  BY <1>1, <1>2, <1>4 DEF Roots
<1>6. e.kind = "start" => Named(k, w) = Named(o, e)
  BY <1>3 DEF Named, Alike
<1>7. Begins(k, w) <=> Begins(o, e)
  BY <1>1, <1>2, <1>4, <1>6 DEF Begins
<1>8. Finishes(k, w) <=> Finishes(o, e)
  <2>1. n = 2 => Names(k)[2] = Names(o)[2]
    <3> SUFFICES ASSUME n = 2 PROVE Names(k)[2] = Names(o)[2]
      OBVIOUS
    <3>1. 2 \in Nat /\ 2 <= Len(o) /\ 2 <= Len(k) /\ 2 \in 1..2
          /\ \A i \in 1..2 : k[i].name = o[i].name /\ k[i].ns = o[i].ns
      BY <1>1, <1>2
    <3> QED BY <3>1, SameNames
  <2> QED BY <1>1, <1>2, <1>4, <2>1 DEF Finishes
<1>9. ASSUME e.kind = "start", NEW a \in {"path", "media", "version"}
      PROVE  /\ Stated(k, w, a) = Stated(o, e, a)
             /\ Value(Stated(k, w, a), w) = Value(Stated(o, e, a), e)
             /\ \A none : Given(k, w, a, none) = Given(o, e, a, none)
  <2>1. /\ w.ns = e.ns /\ w.via = e.via /\ w.of = e.of
        /\ a \in DOMAIN w.attrs <=> a \in DOMAIN e.attrs
        /\ a \in DOMAIN e.attrs => w.attrs[a] = e.attrs[a]
    BY <1>9 DEF Alike
  <2>2. Stated(k, w, a) = Stated(o, e, a)
    BY <1>3, <2>1 DEF Stated
  <2>3. \A v : Value(v, w) = Value(v, e)
    BY <2>1 DEF Value
  <2> QED BY <2>2, <2>3 DEF Given
<1>10. Begins(o, e) => RowBegun(k, w) = RowBegun(o, e)
  BY <1>9 DEF Begins, RowBegun
<1>11. Roots(o, e) => Given(k, w, "version", s.root) = Given(o, e, "version", s.root)
  BY <1>9 DEF Roots
<1> QED BY <1>5, <1>7, <1>8, <1>10, <1>11, Zenon DEF Stage

\* A name keeps its local part.
LEMMA LocalKept ==
  ASSUME NEW name, NEW scopes, Convert(name, scopes) = FileEntry
  PROVE  name[2] = "file-entry"
BY DEF Convert, FileEntry, M

\* What is being dropped is an encryption-data element inside another.
Dropping ==
  skipDepth > 0 =>
    LET n == Len(OpenAfter(rewritten))
    IN  n >= 1 /\ Open(source, pos - 1)[n + 1].name[2] = "encryption-data"

\* The source's next event while it is rewritten.
LEMMA OriginalTaken ==
  ASSUME Strips, source \in Documents, KeepEvent \/ BeginSkip \/ SkipEvent
  PROVE  /\ pos \in 1..Len(source) /\ Len(source) \in Nat /\ Original = source[pos]
         /\ pos' = pos + 1 /\ source' = source /\ source \in Seq(Range(source))
         /\ Original \in Range(source) /\ (Original.kind = "start" => ElementShape(Original))
         /\ Open(source, pos - 1) \in Seq(Range(source))
         /\ Open(source, pos) = After(Open(source, pos - 1), Original)
         /\ rewritten \in Seq(Range(rewritten)) /\ OpenAfter(rewritten) \in Seq(Range(rewritten))
<1>1. Proper(source) /\ Proper(rewritten)
  BY SourceProper DEF Strips
<1>2. /\ pos \in 1..Len(source) /\ Len(source) \in Nat /\ Original = source[pos]
      /\ pos' = pos + 1 /\ source' = source /\ source \in Seq(Range(source))
      /\ Original \in Range(source)
  <2>1. source \in Seq(Range(source)) /\ pos \in DOMAIN source
    BY <1>1 DEF Proper, KeepEvent, BeginSkip, SkipEvent, Rewrites
  <2>2. pos' = pos + 1 /\ source' = source
    BY DEF KeepEvent, BeginSkip, SkipEvent, Rewrites, document
  <2> QED BY <2>1, <2>2 DEF Original, Range
<1>3. Original.kind = "start" => ElementShape(Original)
  BY <1>2, DocumentAssumption
<1>4. pos - 1 \in 0..Len(source)
  BY <1>2
<1>5. Open(source, pos - 1) \in Seq(Range(source))
  BY <1>2, <1>4, OpenTyped
<1>6. Open(source, pos) = After(Open(source, pos - 1), Original)
  BY <1>2, OpenSteps
<1>7. rewritten \in Seq(Range(rewritten))
  BY <1>1 DEF Proper
<1>8. OpenAfter(rewritten) \in Seq(Range(rewritten))
  <2>1. Len(rewritten) \in 0..Len(rewritten)
    BY <1>7
  <2>2. Open(rewritten, Len(rewritten)) \in Seq(Range(rewritten))
    BY <1>7, <2>1, OpenTyped
  <2> QED BY <1>7, <2>2, OpenSteps
<1> QED BY <1>2, <1>3, <1>5, <1>6, <1>7, <1>8

\* What is kept tells what it told.
LEMMA KeptTells ==
  ASSUME Strips, source \in Documents, KeepEvent, NEW s
  PROVE  /\ rewritten' = Append(rewritten, WithoutSize(Original))
         /\ Stage(s, OpenAfter(rewritten), WithoutSize(Original))
              = Stage(s, Open(source, pos - 1), source[pos])
<1>1. PICK o, k, e, w : /\ o = Open(source, pos - 1) /\ k = OpenAfter(rewritten)
                        /\ e = Original /\ w = WithoutSize(e)
  OBVIOUS
<1>2. PICK S : S = Range(source) \cup Range(rewritten)
  OBVIOUS
<1>3. /\ o \in Seq(Range(source)) /\ k \in Seq(Range(rewritten)) /\ e = source[pos]
      /\ (e.kind = "start" => ElementShape(e))
  BY <1>1, OriginalTaken
<1>4. o \in Seq(S) /\ k \in Seq(S)
  BY <1>2, <1>3
<1>5. Alike(e, w)
  BY <1>1, <1>3, SizeNotTold
<1>6. rewritten' = Append(rewritten, w) /\ skipDepth = 0
  BY <1>1 DEF KeepEvent
<1>7. /\ Len(o) = Len(k) + skipDepth
      /\ \A j \in 1..Len(k) : k[j].name = o[j].name /\ k[j].ns = o[j].ns
  BY <1>1 DEF Strips
<1>8. Len(k) = Len(o)
  BY <1>4, <1>6, <1>7
<1>9. Stage(s, k, w) = Stage(s, o, e)
  <2>1. \A j \in 1..Len(o) : k[j].name = o[j].name /\ k[j].ns = o[j].ns
    BY <1>7, <1>8
  <2> QED BY <1>4, <1>5, <1>8, <2>1, SameStage
<1> QED BY <1>1, <1>3, <1>6, <1>9

\* What is dropped tells nothing.
LEMMA DroppedTellsNothing ==
  ASSUME Strips, source \in Documents, RootsKept, Dropping, BeginSkip \/ SkipEvent,
         NEW s, Formed(s)
  PROVE  rewritten' = rewritten /\ Stage(s, Open(source, pos - 1), source[pos]) = s
<1>1. PICK o, k, e, n : /\ o = Open(source, pos - 1) /\ k = OpenAfter(rewritten)
                        /\ e = Original /\ n = Len(k)
  OBVIOUS
<1>2. /\ o \in Seq(Range(source)) /\ k \in Seq(Range(rewritten)) /\ e = source[pos]
      /\ pos \in DOMAIN source
  BY <1>1, OriginalTaken
<1>3. Len(o) = n + skipDepth /\ n \in Nat /\ skipDepth \in Nat /\ DOMAIN o = 1..Len(o)
  BY <1>1, <1>2 DEF Strips
<1>4. rewritten' = rewritten
  BY DEF BeginSkip, SkipEvent
<1>5. CASE BeginSkip
  <2>1. e.kind = "start" /\ e.name[2] = "encryption-data"
    BY <1>1, <1>5 DEF BeginSkip, IsEncryptionData
  <2>2. ~(Len(o) = 0)
    <3>1. source[pos].kind = "start" /\ source[pos].name[2] = "encryption-data"
      BY <1>2, <2>1
    <3>2. o # <<>>
      BY <1>1, <1>2, <3>1 DEF RootsKept, IsEncryptionData, Open
    <3> QED BY <1>2, <3>2
  <2>3. Named(o, e) # FileEntry
    <3>1. Named(o, e) = FileEntry => e.name[2] = "file-entry"
      BY LocalKept DEF Named
    <3> QED BY <2>1, <3>1
  <2>4. ~Roots(o, e)
    BY <2>2 DEF Roots
  <2>5. ~Begins(o, e)
    BY <2>3 DEF Begins
  <2>6. ~Finishes(o, e)
    BY <2>1 DEF Finishes
  <2> QED BY <1>1, <1>2, <1>4, <2>4, <2>5, <2>6, NothingTold
<1>6. CASE SkipEvent
  <2>1. skipDepth > 0
    BY <1>6 DEF SkipEvent
  <2>2. n >= 1 /\ o[n + 1].name[2] = "encryption-data"
    BY <1>1, <2>1 DEF Dropping
  <2>3. Len(o) # 0 /\ Len(o) # 1
    BY <1>3, <2>1, <2>2
  <2>4. ~(Len(o) = 2 /\ Names(o)[2] = FileEntry)
    <3> SUFFICES ASSUME Len(o) = 2 PROVE Names(o)[2] # FileEntry
      OBVIOUS
    <3>1. n + 1 = 2 /\ 2 \in DOMAIN o
      <4>1. PICK m, d : m = Len(o) /\ d = skipDepth
        OBVIOUS
      <4>2. m = n + d /\ n \in Nat /\ d \in Nat /\ n >= 1 /\ d > 0 /\ DOMAIN o = 1..m /\ m = 2
        BY <1>3, <2>1, <2>2, <4>1
      <4>3. n = 1
        BY <4>2
      <4> QED BY <4>2, <4>3
    <3>2. o[2].name[2] = "encryption-data"
      BY <2>2, <3>1
    <3>3. Names(o)[2] = Convert(o[2].name, {o[i].ns : i \in 1..2})
      BY <3>1 DEF Names
    <3>4. Names(o)[2] = FileEntry => o[2].name[2] = "file-entry"
      BY <3>3, LocalKept
    <3> QED BY <3>2, <3>4
  <2>5. ~Roots(o, e)
    BY <2>3 DEF Roots
  <2>6. ~Begins(o, e)
    BY <2>3 DEF Begins
  <2>7. ~Finishes(o, e)
    BY <2>4 DEF Finishes
  <2> QED BY <1>1, <1>2, <1>4, <2>5, <2>6, <2>7, NothingTold
<1> QED BY <1>5, <1>6

LEMMA DroppingOn ==
  ASSUME Strips, source \in Documents, RootsKept, Dropping, KeepEvent \/ BeginSkip \/ SkipEvent
  PROVE  Dropping'
<1>1. PICK o, k, e, n : /\ o = Open(source, pos - 1) /\ k = OpenAfter(rewritten)
                        /\ e = Original /\ n = Len(k)
  OBVIOUS
<1>2. /\ o \in Seq(Range(source)) /\ k \in Seq(Range(rewritten)) /\ e = source[pos]
      /\ e \in Range(source) /\ pos \in DOMAIN source /\ source' = source
      /\ pos' = pos + 1 /\ pos \in Nat /\ Open(source, pos) = After(o, e)
  BY <1>1, OriginalTaken
<1>3. Len(o) = n + skipDepth /\ n \in Nat /\ skipDepth \in Nat
  BY <1>1, <1>2 DEF Strips
<1>4. Open(source', pos' - 1) = After(o, e)
  BY <1>2
<1>5. CASE KeepEvent
  <2>1. ~(skipDepth' > 0)
    BY <1>5 DEF KeepEvent
  <2> QED BY <2>1 DEF Dropping
<1>6. ASSUME rewritten' = rewritten,
             skipDepth' > 0 => n >= 1 /\ After(o, e)[n + 1].name[2] = "encryption-data"
      PROVE  Dropping'
  BY <1>1, <1>4, <1>6 DEF Dropping
<1>7. CASE BeginSkip
  <2>1. e.kind = "start" /\ e.name[2] = "encryption-data" /\ skipDepth = 0 /\ rewritten' = rewritten
    BY <1>1, <1>7 DEF BeginSkip, IsEncryptionData
  <2>2. ~(Len(o) = 0)
    <3>1. source[pos].kind = "start" /\ source[pos].name[2] = "encryption-data"
      BY <1>2, <2>1
    <3>2. o # <<>>
      BY <1>1, <1>2, <3>1 DEF RootsKept, IsEncryptionData, Open
    <3> QED BY <1>2, <3>2
  <2>3. Len(o) = n /\ n >= 1
    BY <1>3, <2>1, <2>2
  <2>4. After(o, e)[n + 1] = e
    BY <1>2, <2>1, <2>3 DEF After
  <2> QED BY <1>6, <2>1, <2>3, <2>4
<1>8. CASE SkipEvent
  <2>1. /\ skipDepth > 0 /\ rewritten' = rewritten
        /\ skipDepth' = CASE e.kind = "start" -> skipDepth + 1
                          [] e.kind = "end"   -> skipDepth - 1
                          [] OTHER            -> skipDepth
    BY <1>1, <1>8 DEF SkipEvent
  <2>2. n >= 1 /\ o[n + 1].name[2] = "encryption-data"
    BY <1>1, <2>1 DEF Dropping
  <2>3. ASSUME skipDepth' > 0 PROVE After(o, e)[n + 1] = o[n + 1]
    <3>1. CASE e.kind = "start"
      <4>1. After(o, e) = Append(o, e) /\ n + 1 \in 1..Len(o)
        BY <1>3, <2>1, <3>1 DEF After
      <4> QED BY <1>2, <4>1
    <3>2. CASE e.kind = "end"
      <4>1. After(o, e) = SubSeq(o, 1, Len(o) - 1)
        BY <3>2 DEF After, Front
      <4>2. skipDepth' = skipDepth - 1
        BY <2>1, <3>2
      <4>3. PICK m : m = Len(o) - 1
        OBVIOUS
      <4>4. n + 1 \in 1..m /\ m \in 0..Len(o)
        BY <1>3, <2>3, <4>2, <4>3
      <4> QED BY <1>2, <4>1, <4>3, <4>4
    <3>3. CASE e.kind \notin {"start", "end"}
      BY <3>3 DEF After
    <3> QED BY <3>1, <3>2, <3>3
  <2> QED BY <1>6, <2>1, <2>2, <2>3
<1> QED BY <1>5, <1>7, <1>8

-----------------------------------------------------------------------------
\* What the first n events of d tell, one after the other.
Tally(d, n, t) == t[0] = Blank /\ \A j \in 1..n : t[j] = Stage(t[j - 1], Open(d, j - 1), d[j])

LEMMA TallyBegins == \A d : \E t : Tally(d, 0, t) /\ t[0] = Blank
<1> TAKE d
<1>1. PICK t : t = [j \in 0..0 |-> Blank]
  OBVIOUS
<1>2. t[0] = Blank
  BY <1>1
<1> QED BY <1>2 DEF Tally

\* The tally t and its next entry.
Longer(d, n, t, u) == Tally(d, n + 1, u) /\ u[n + 1] = Stage(t[n], Open(d, n), d[n + 1])

LEMMA TallyMore ==
  ASSUME NEW d, NEW n \in Nat, NEW t, Tally(d, n, t)
  PROVE  \E u : Longer(d, n, t, u)
<1>1. PICK last : last = Stage(t[n], Open(d, n), d[n + 1])
  OBVIOUS
<1>2. PICK u : u = [j \in 0..(n + 1) |-> IF j = n + 1 THEN last ELSE t[j]]
  OBVIOUS
<1>3. u[n + 1] = last /\ \A j \in 0..n : u[j] = t[j]
  BY <1>2
<1>4. u[0] = Blank
  BY <1>3 DEF Tally
<1>5. ASSUME NEW j \in 1..(n + 1) PROVE u[j] = Stage(u[j - 1], Open(d, j - 1), d[j])
  <2>1. CASE j = n + 1
    <3>1. j - 1 = n /\ u[j - 1] = t[n]
      BY <1>3, <2>1
    <3> QED BY <1>1, <1>3, <2>1, <3>1
  <2>2. CASE j # n + 1
    <3>1. j \in 1..n /\ j \in 0..n /\ j - 1 \in 0..n
      BY <2>2
    <3>2. u[j] = t[j] /\ u[j - 1] = t[j - 1]
      BY <1>3, <3>1
    <3>3. t[j] = Stage(t[j - 1], Open(d, j - 1), d[j])
      BY <3>1 DEF Tally
    <3> QED BY <3>2, <3>3
  <2> QED BY <2>1, <2>2
<1>6. Tally(d, n + 1, u)
  BY <1>4, <1>5 DEF Tally
<1> QED BY <1>1, <1>3, <1>6 DEF Longer

\* An event more at the end changes nothing of it.
LEMMA TallyAppended ==
  ASSUME NEW S, NEW d \in Seq(S), NEW e \in S, NEW t, Tally(d, Len(d), t)
  PROVE  \E u : /\ Tally(Append(d, e), Len(d) + 1, u)
                /\ u[Len(d) + 1] = Stage(t[Len(d)], OpenAfter(d), e)
<1>1. PICK a, n : a = Append(d, e) /\ n = Len(d)
  OBVIOUS
<1>2. n \in Nat /\ a[n + 1] = e /\ \A j \in 1..n : a[j] = d[j]
  BY <1>1
<1>3. \A j \in 0..n : Open(a, j) = Open(d, j)
  BY <1>1, OpenAppended
<1>4. Open(a, n) = OpenAfter(d)
  <2>1. n \in 0..n /\ Open(d, n) = OpenAfter(d)
    BY <1>1, <1>2, OpenSteps
  <2> QED BY <1>3, <2>1
<1>5. Tally(a, n, t)
  <2>1. t[0] = Blank
    BY DEF Tally
  <2>2. ASSUME NEW j \in 1..n PROVE t[j] = Stage(t[j - 1], Open(a, j - 1), a[j])
    <3>1. j - 1 \in 0..n
      BY <1>2
    <3>2. Open(a, j - 1) = Open(d, j - 1) /\ a[j] = d[j]
      BY <1>2, <1>3, <3>1
    <3>3. t[j] = Stage(t[j - 1], Open(d, j - 1), d[j])
      BY <1>1 DEF Tally
    <3> QED BY <3>2, <3>3
  <2> QED BY <2>1, <2>2 DEF Tally
<1>6. PICK u : Longer(a, n, t, u)
  <2>1. n \in Nat
    BY <1>2
  <2> QED BY <1>5, <2>1, TallyMore
<1>7. Tally(a, n + 1, u) /\ u[n + 1] = Stage(t[n], Open(a, n), a[n + 1])
  BY <1>6 DEF Longer
<1> QED BY <1>1, <1>2, <1>4, <1>7

LEMMA TallyFormed ==
  ASSUME NEW d, NEW n \in Nat, NEW t, Tally(d, n, t), NEW j \in 0..n
  PROVE  Formed(t[j])
<1>1. CASE j = 0
  BY <1>1 DEF Tally, Formed, Blank
<1>2. CASE j # 0
  <2>1. t[j] = Stage(t[j - 1], Open(d, j - 1), d[j])
    BY <1>2 DEF Tally
  <2> QED BY <2>1, StageFormed
<1> QED BY <1>1, <1>2

-----------------------------------------------------------------------------
\* No row of the document states a size, and none has one.
Sizeless(d)      == \A e \in Range(d) : e.kind = "start" /\ e.name[2] = "file-entry" => "size" \notin DOMAIN e.attrs
Unsized(rows, b) == b.size = None /\ \A i \in 1..Len(rows) : rows[i].size = None

LEMMA WithoutSizeHasNone ==
  ASSUME NEW e, e.kind = "start" => ElementShape(e)
  PROVE  LET w == WithoutSize(e)
         IN  w.kind = "start" /\ w.name[2] = "file-entry" => "size" \notin DOMAIN w.attrs
<1>1. PICK w : w = WithoutSize(e)
  OBVIOUS
<1>2. CASE e.kind = "start" /\ e.name[2] = "file-entry"
  <2>1. {"kind", "name", "via", "ns", "attrs", "of"} \subseteq DOMAIN e
    BY <1>2 DEF ElementShape
  <2>2. PICK as, bs : /\ as = e.attrs /\ bs = [a \in DOMAIN as \ {"size"} |-> as[a]]
                      /\ w = [e EXCEPT !.attrs = bs]
    BY <1>1, <1>2 DEF WithoutSize
  <2>3. w.attrs = bs /\ "size" \notin DOMAIN bs
    BY <2>1, <2>2
  <2> QED BY <1>1, <2>3
<1>3. CASE ~(e.kind = "start" /\ e.name[2] = "file-entry")
  <2>1. w = e
    BY <1>1, <1>3 DEF WithoutSize
  <2> QED BY <1>1, <1>3, <2>1
<1> QED BY <1>2, <1>3

LEMMA SizelessMore ==
  ASSUME NEW S, NEW d \in Seq(S), NEW w \in S, Sizeless(d),
         w.kind = "start" /\ w.name[2] = "file-entry" => "size" \notin DOMAIN w.attrs
  PROVE  Sizeless(Append(d, w))
<1>1. PICK a : a = Append(d, w)
  OBVIOUS
<1>2. ASSUME NEW e \in Range(a) PROVE e \in Range(d) \/ e = w
  <2>1. PICK i \in 1..(Len(d) + 1) : e = a[i]
    BY <1>1 DEF Range
  <2>2. CASE i \in 1..Len(d)
    <3>1. e = d[i]
      BY <1>1, <2>1, <2>2
    <3> QED BY <2>2, <3>1 DEF Range
  <2>3. CASE i = Len(d) + 1
    BY <1>1, <2>1, <2>3
  <2> QED BY <2>2, <2>3
<1> QED BY <1>1, <1>2 DEF Sizeless

\* Reading a document that states no size, no row gets one.
LEMMA UnsizedRead ==
  ASSUME Parses, Rooted, StartElement \/ EndElement \/ Characters, Sizeless(Input),
         Bagged(bags, bag), Unsized(bags, bag)
  PROVE  Unsized(bags', bag')
<1>1. PICK b, rows : b = bag /\ rows = bags
  OBVIOUS
<1>2. /\ DOMAIN b = BagFields /\ b.size = None /\ rows \in Seq(Range(rows))
      /\ \A i \in 1..Len(rows) : rows[i].size = None
  BY <1>1 DEF Bagged, Unsized
<1>3. ASSUME bags' = rows, bag'.size = None PROVE Unsized(bags', bag')
  BY <1>2, <1>3 DEF Unsized
<1>4. CASE OpenRow
  <2>1. Reads("start") /\ Slot = <<2, FileEntry>>
    BY <1>4, Zenon DEF OpenRow, Opens
  <2>2. Event.kind = "start" /\ Event \in Range(Input)
    BY <2>1, EventTaken
  <2>3. Event.name[2] = "file-entry"
    <3>1. ElementName = FileEntry
      BY <2>1 DEF Slot
    <3> QED BY <3>1, LocalKept DEF ElementName
  <2>4. "size" \notin DOMAIN Event.attrs
    BY <2>2, <2>3, Zenon DEF Sizeless
  <2>5. Attr("size") = ""
    BY <2>4, Zenon DEF Attr, Has
  <2>6. PICK p, m, v : bag' = [NewBag EXCEPT !.path = p, !.media = m, !.version = v, !.size = None]
    <3>1. PICK v : v = IF Attr("version") = "" THEN None ELSE Value(Attr("version"), Event)
      OBVIOUS
    <3>2. bag' = [NewBag EXCEPT !.path = Value(Attr("path"), Event), !.media = Value(Attr("media"), Event),
                    !.version = v, !.size = None]
      BY <1>4, <2>5, <3>1 DEF OpenRow
    <3> QED BY <3>2
  <2>7. bag'.size = None
    BY <2>6, NewBagIs DEF BagFields, OwnFields
  <2>8. bags' = rows
    BY <1>1, <1>4 DEF OpenRow
  <2> QED BY <1>3, <2>7, <2>8
<1>5. CASE CloseRow
  <2>1. PICK named, keyed :
          /\ named = IF rows = <<>> /\ b.version = None THEN [b EXCEPT !.version = version] ELSE b
          /\ keyed = IF rows = <<>> /\ ~ignore THEN [named EXCEPT !.keys = keys] ELSE named
    OBVIOUS
  <2>2. bags' = Append(rows, keyed) /\ bag' = NewBag
    BY <1>1, <1>5, <2>1 DEF CloseRow
  <2>3. DOMAIN named = BagFields /\ named.size = None
    BY <1>2, <2>1 DEF BagFields, OwnFields
  <2>4. keyed.size = None
    BY <2>1, <2>3 DEF BagFields, OwnFields
  <2>5. PICK more : more = Append(rows, keyed)
    OBVIOUS
  <2>6. \A i \in 1..Len(more) : more[i].size = None
    <3> SUFFICES ASSUME NEW i \in 1..Len(more) PROVE more[i].size = None
      OBVIOUS
    <3>1. Len(more) = Len(rows) + 1 /\ Len(rows) \in Nat
      BY <1>2, <2>5
    <3>2. CASE i \in 1..Len(rows)
      BY <1>2, <2>5, <3>2
    <3>3. CASE i = Len(rows) + 1
      BY <1>2, <2>4, <2>5, <3>3
    <3> QED BY <3>1, <3>2, <3>3
  <2>7. NewBag.size = None
    BY DEF NewBag
  <2> QED BY <2>2, <2>5, <2>6, <2>7 DEF Unsized
<1>6. CASE ~OpenRow /\ ~CloseRow
  <2>1. bags' = rows
    BY <1>1, <1>6 DEF StartElement, OpenTooDeep, OpenRoot, OpenKey, OpenMethod, OpenData, OpenAlgorithm,
       OpenStartKey, OpenDerivation, OpenText, OpenOther, EndElement, CloseNothing, CloseKey, CloseText,
       CloseOther, Characters
  <2>2. bag'.size = None
    <3>1. CASE OpenData
      <4>1. PICK u, w : bag' = b \/ bag' = [b EXCEPT !.digestAlg = u, !.digest = w]
        <5>1. PICK u, w : /\ u = IF Attr("checksum-type") = "1k" THEN Value("1k", Event) ELSE bag.digestAlg
                          /\ w = IF u = None THEN bag.digest ELSE Value("digest", Event)
          OBVIOUS
        <5>2. bag' = b \/ bag' = [b EXCEPT !.digestAlg = u, !.digest = w]
          BY <1>1, <3>1, <5>1 DEF OpenData
        <5> QED BY <5>2
      <4> QED BY <1>2, <4>1 DEF BagFields, OwnFields
    <3>2. CASE OpenAlgorithm
      <4>1. PICK u : bag' = b \/ bag' = [b EXCEPT !.encAlg = u]
        BY <1>1, <3>2 DEF OpenAlgorithm, rowState
      <4> QED BY <1>2, <4>1 DEF BagFields, OwnFields
    <3>3. CASE OpenStartKey
      <4>1. PICK u : bag' = b \/ bag' = [b EXCEPT !.startKey = u]
        BY <1>1, <3>3 DEF OpenStartKey
      <4> QED BY <1>2, <4>1 DEF BagFields, OwnFields
    <3>4. CASE OpenDerivation
      <4>1. PICK kdf, size, args : \/ bag' = b \/ bag' = [b EXCEPT !.kdf = kdf]
                                   \/ bag' = [b EXCEPT !.kdf = kdf, !.keySize = size, !.args = args]
        <5>1. PICK z : z = IF Attr("key-size") # "" THEN Value(Attr("key-size"), Event)
                ELSE IF derivedKeySize.val = "0" THEN Value("16", Event) ELSE derivedKeySize
          OBVIOUS
        <5>2. PICK y : y = IF Attr("key-derivation-name") = "argon2id"
                                 /\ (Attr("key-derivation-name") = "argon2id" => Costs = "positive")
                           THEN Value("positive", Event) ELSE bag.args
          OBVIOUS
        <5>3. \/ bag' = b \/ bag' = [b EXCEPT !.kdf = Value("pgp", Event)]
              \/ bag' = [b EXCEPT !.kdf = Value(Attr("key-derivation-name"), Event),
                                  !.keySize = z, !.args = y]
          BY <1>1, <3>4, <5>1, <5>2 DEF OpenDerivation, rowState
        <5> QED BY <5>3
      <4> QED BY <1>2, <4>1 DEF BagFields, OwnFields
    <3>5. CASE ~OpenData /\ ~OpenAlgorithm /\ ~OpenStartKey /\ ~OpenDerivation
      <4>1. bag' = b
        BY <1>1, <1>6, <3>5 DEF StartElement, OpenTooDeep, OpenRoot, OpenKey, OpenMethod, OpenText, OpenOther,
           EndElement, CloseNothing, CloseKey, CloseText, CloseOther, Characters, rowState
      <4> QED BY <1>2, <4>1
    <3> QED BY <3>1, <3>2, <3>3, <3>4, <3>5
  <2> QED BY <1>3, <2>1, <2>2
<1> QED BY <1>4, <1>5, <1>6

-----------------------------------------------------------------------------
(***************************************************************************)
(* The rows and what the events tell, from the source through what is      *)
(* written of it to the second parse.                                      *)
(***************************************************************************)
Tells(s, rows) ==
  /\ Len(s.rows) = Len(rows) /\ rows \in Seq(Range(rows))
  /\ \A i \in 1..Len(rows) : s.rows[i] = Gist(rows[i])

\* The first n events of d tell the rows and what is being built; ...
Telling(d, n, rows, b, v) == \E t : Tally(d, n, t) /\ Like(t[n], rows, b, v)
\* ... all of d tell the rows, and its first n what w tells; ...
Halfway(d, w, n, rows, t, u) ==
  /\ Tally(d, Len(d), t) /\ Tells(t[Len(d)], rows)
  /\ Tally(w, Len(w), u) /\ u[Len(w)] = t[n]
Stripping(d, w, n, rows) == \E t, u : Halfway(d, w, n, rows, t, u)
\* ... all of w tell the rows of the source, and its first n what is read again.
Retold(w, n, all, rows, b, v, u) ==
  Tally(w, Len(w), u) /\ Tells(u[Len(w)], all) /\ Like(u[n], rows, b, v)
Retelling(w, n, all, rows, b, v) == \E u : Retold(w, n, all, rows, b, v, u)

\* The same rows with no size.
PlainRows(all, rows) ==
  /\ Len(rows) = Len(all) /\ rows \in Seq(Range(rows))
  /\ \A i \in 1..Len(rows) : Gist(rows[i]) = Gist(all[i]) /\ rows[i].size = None

Traced ==
  /\ phase \in {"source", "rebuilt"} => Rooted /\ Bagged(bags, bag)
  /\ phase = "source" => Telling(source, pos - 1, bags, bag, version)
  /\ phase = "rewriting" => /\ Dropping /\ Sizeless(rewritten)
                            /\ Stripping(source, rewritten, pos - 1, before)
  /\ phase = "rebuilt" => /\ OpenAfter(rewritten) = <<>> /\ Sizeless(rewritten)
                          /\ Unsized(bags, bag)
                          /\ Retelling(rewritten, pos - 1, before, bags, bag, version)
  /\ phase = "done" /\ fate = "whole" /\ IsRewritten(before) => PlainRows(before, bags)

LEMMA BlankLike == Like(Blank, <<>>, NewBag, None) /\ Bagged(<<>>, NewBag) /\ Unsized(<<>>, NewBag)
<1>1. DOMAIN NewBag = BagFields /\ Gist(NewBag) = NoGist /\ NewBag.size = None
  BY NewBagIs DEF Gist, NoGist, OwnFields
<1>2. <<>> \in Seq(Range(<<>>)) /\ Len(<<>>) = 0
  OBVIOUS
<1>3. Like(Blank, <<>>, NewBag, None)
  BY <1>1, <1>2 DEF Like, Blank
<1> QED BY <1>1, <1>2, <1>3 DEF Bagged, Unsized

LEMMA TracedAtFirst == Init => Traced
<1> SUFFICES ASSUME Init PROVE Traced
  OBVIOUS
<1>1. /\ phase = "source" /\ pos - 1 = 0 /\ stack = <<>> /\ bags = <<>> /\ bag = NewBag
      /\ version = None
  BY DEF Init
<1>2. PICK t : Tally(source, 0, t) /\ t[0] = Blank
  BY TallyBegins
<1>3. Telling(source, pos - 1, bags, bag, version)
  BY <1>1, <1>2, BlankLike DEF Telling
<1>4. Rooted /\ Bagged(bags, bag)
  BY <1>1, BlankLike DEF Rooted
<1> QED BY <1>1, <1>3, <1>4 DEF Traced

\* One event of either parse.
LEMMA TracedRead ==
  ASSUME Inv, Traced, StartElement \/ EndElement \/ Characters
  PROVE  Traced'
<1>1. \E kind : Reads(kind)
  BY DEF StartElement, OpenTooDeep, OpenRoot, OpenRow, OpenKey, OpenMethod, OpenData,
         OpenAlgorithm, OpenStartKey, OpenDerivation, OpenText, OpenOther, Opens, EndElement,
         CloseNothing, CloseRow, CloseKey, CloseText, CloseOther, Closes, Characters
<1>2. phase \in {"source", "rebuilt"} /\ UNCHANGED <<source, phase, before, rewritten>>
  BY <1>1 DEF Reads, document
<1>3. Parses /\ Rooted /\ Bagged(bags, bag)
  BY <1>2 DEF Inv, Traced
<1>4. PICK d, n, o : d = Input /\ n = pos - 1 /\ o = Open(d, n)
  OBVIOUS
<1>5. /\ n \in Nat /\ n + 1 \in 1..Len(d) /\ pos' - 1 = n + 1 /\ Event = d[n + 1]
      /\ d \in Seq(Range(d)) /\ Len(d) \in Nat
  <2>1. pos \in 1..Len(Input) /\ pos' = pos + 1
    BY <1>1, <1>3, EventTaken
  <2>2. d \in Seq(Range(d))
    BY <1>3, <1>4 DEF Parses, Proper
  <2>3. Len(d) \in Nat
    BY <2>2
  <2>4. n \in Nat /\ n + 1 = pos
    BY <1>4, <2>1, <2>3
  <2> QED BY <1>4, <2>1, <2>2, <2>3, <2>4 DEF Event
<1>6. Rooted'
  BY <1>3, RootedOn
<1>7. ASSUME NEW s, Like(s, bags, bag, version)
      PROVE  Like(Stage(s, o, d[n + 1]), bags', bag', version') /\ Bagged(bags', bag')
  BY <1>3, <1>4, <1>5, <1>7, ReadLike
<1>8. CASE phase = "source"
  <2>1. d = source
    BY <1>4, <1>8 DEF Input
  <2>2. PICK t : Tally(d, n, t) /\ Like(t[n], bags, bag, version)
    BY <1>4, <1>8, <2>1 DEF Traced, Telling
  <2>3. PICK u : Longer(d, n, t, u)
    BY <1>5, <2>2, TallyMore
  <2>4. Tally(d, n + 1, u) /\ u[n + 1] = Stage(t[n], o, d[n + 1])
    BY <1>4, <2>3 DEF Longer
  <2>5. Like(u[n + 1], bags', bag', version') /\ Bagged(bags', bag')
    BY <1>7, <2>2, <2>4
  <2>6. Telling(d, n + 1, bags', bag', version')
    BY <2>4, <2>5 DEF Telling
  <2>7. Telling(source', pos' - 1, bags', bag', version')
    BY <1>2, <1>5, <2>1, <2>6
  <2> QED BY <1>2, <1>6, <1>8, <2>5, <2>7 DEF Traced
<1>9. CASE phase = "rebuilt"
  <2>1. d = rewritten
    BY <1>4, <1>9 DEF Input
  <2>2. /\ OpenAfter(rewritten) = <<>> /\ Sizeless(rewritten) /\ Unsized(bags, bag)
        /\ Retelling(d, n, before, bags, bag, version)
    BY <1>4, <1>9, <2>1 DEF Traced
  <2>3. PICK u : Retold(d, n, before, bags, bag, version, u)
    BY <2>2 DEF Retelling
  <2>4. Tally(d, Len(d), u) /\ Tells(u[Len(d)], before) /\ Like(u[n], bags, bag, version)
    BY <2>3 DEF Retold
  <2>5. u[n + 1] = Stage(u[n], o, d[n + 1])
    <3>1. u[n + 1] = Stage(u[n + 1 - 1], Open(d, n + 1 - 1), d[n + 1])
      BY <1>5, <2>4 DEF Tally
    <3>2. n + 1 - 1 = n
      BY <1>5
    <3> QED BY <1>4, <3>1, <3>2
  <2>6. Like(u[n + 1], bags', bag', version') /\ Bagged(bags', bag')
    BY <1>7, <2>4, <2>5
  <2>7. Retelling(d, n + 1, before, bags', bag', version')
    BY <2>4, <2>6 DEF Retold, Retelling
  <2>8. Unsized(bags', bag')
    <3>1. Sizeless(Input)
      BY <1>4, <2>1, <2>2
    <3> QED BY <1>3, <2>2, <3>1, UnsizedRead
  <2>9. Retelling(rewritten', pos' - 1, before', bags', bag', version')
    BY <1>2, <1>5, <2>1, <2>7
  <2>10. OpenAfter(rewritten') = <<>> /\ Sizeless(rewritten')
    BY <1>2, <2>2
  <2> QED BY <1>2, <1>6, <1>9, <2>6, <2>8, <2>9, <2>10 DEF Traced
<1> QED BY <1>2, <1>8, <1>9

\* The source has been read: what it tells, its rows say.
LEMMA TracedEnds ==
  ASSUME Inv, Unborrowed, Traced, EndOfSource
  PROVE  Traced'
<1>1. /\ before' = bags /\ pos - 1 = Len(source) /\ source' = source
      /\ phase = "source" /\ phase' \in {"rewriting", "done"} /\ Len(source) \in Nat
  BY AllReturned DEF Unborrowed
<1>2. /\ phase' = (IF IsRewritten(before') THEN "rewriting" ELSE "done")
      /\ pos' = 1 /\ rewritten' = rewritten /\ skipDepth' = skipDepth
  BY DEF EndOfSource
<1>3. rewritten = <<>> /\ skipDepth = 0 /\ Bagged(bags, bag)
  BY <1>1 DEF Inv, Traced
<1>4. CASE phase' = "done"
  <2>1. ~IsRewritten(before')
    BY <1>2, <1>4
  <2> QED BY <1>4, <2>1 DEF Traced, IsRewritten
<1>5. CASE phase' = "rewriting"
  <2>1. PICK t : Tally(source, Len(source), t) /\ Like(t[Len(source)], bags, bag, version)
    BY <1>1 DEF Traced, Telling
  <2>2. Tells(t[Len(source)], bags)
    BY <1>3, <2>1 DEF Like, Tells, Bagged
  <2>3. PICK u : Tally(<<>>, 0, u) /\ u[0] = Blank
    BY TallyBegins
  <2>4. t[0] = Blank
    BY <2>1 DEF Tally
  <2>5. Len(<<>>) = 0 /\ pos' - 1 = 0 /\ rewritten' = <<>>
    BY <1>2, <1>3
  <2>6. Halfway(source, <<>>, 0, bags, t, u)
    BY <2>1, <2>2, <2>3, <2>4, <2>5 DEF Halfway
  <2>7. Stripping(source', rewritten', pos' - 1, before')
    BY <1>1, <2>5, <2>6 DEF Stripping
  <2>8. Sizeless(rewritten')
    <3>1. Range(<<>>) = {}
      BY DEF Range
    <3> QED BY <2>5, <3>1 DEF Sizeless
  <2>9. Dropping'
    BY <1>2, <1>3 DEF Dropping
  <2> QED BY <1>5, <2>7, <2>8, <2>9 DEF Traced
<1> QED BY <1>1, <1>4, <1>5

\* One event of the rewriting.
LEMMA TracedStrips ==
  ASSUME RootsKept, Inv, Traced, KeepEvent \/ BeginSkip \/ SkipEvent
  PROVE  Traced'
<1>1. /\ phase = "rewriting" /\ phase' = "rewriting" /\ source' = source /\ before' = before
      /\ Strips /\ source \in Documents /\ Dropping /\ Sizeless(rewritten)
      /\ Stripping(source, rewritten, pos - 1, before)
  BY DEF KeepEvent, BeginSkip, SkipEvent, Rewrites, document, Inv, Traced
<1>2. PICK n, d, w : n = pos - 1 /\ d = source /\ w = rewritten
  OBVIOUS
<1>3. /\ n \in Nat /\ n + 1 \in 1..Len(d) /\ pos' - 1 = n + 1 /\ Original = d[n + 1] /\ n + 1 = pos
      /\ Len(d) \in Nat /\ w \in Seq(Range(w)) /\ OpenAfter(w) \in Seq(Range(w))
      /\ (Original.kind = "start" => ElementShape(Original))
  <2>1. /\ pos \in 1..Len(d) /\ Len(d) \in Nat /\ Original = d[pos] /\ pos' = pos + 1
        /\ w \in Seq(Range(w)) /\ OpenAfter(w) \in Seq(Range(w))
        /\ (Original.kind = "start" => ElementShape(Original))
    BY <1>1, <1>2, OriginalTaken
  <2>2. n \in Nat /\ n + 1 = pos
    BY <1>2, <2>1
  <2> QED BY <2>1, <2>2
<1>4. PICK t, u : Halfway(d, w, n, before, t, u)
  BY <1>1, <1>2 DEF Stripping
<1>5. /\ Tally(d, Len(d), t) /\ Tells(t[Len(d)], before)
      /\ Tally(w, Len(w), u) /\ u[Len(w)] = t[n]
  BY <1>4 DEF Halfway
<1>6. t[n + 1] = Stage(t[n], Open(d, n), d[n + 1])
  <2>1. t[n + 1] = Stage(t[n + 1 - 1], Open(d, n + 1 - 1), d[n + 1])
    BY <1>3, <1>5 DEF Tally
  <2>2. n + 1 - 1 = n
    BY <1>3
  <2> QED BY <2>1, <2>2
<1>7. Dropping'
  BY <1>1, DroppingOn
<1>8. CASE KeepEvent
  <2>1. PICK e, S, a : e = WithoutSize(Original) /\ S = Range(w) \cup {e} /\ a = Append(w, e)
    OBVIOUS
  <2>2. /\ rewritten' = a
        /\ Stage(t[n], OpenAfter(w), e) = Stage(t[n], Open(d, n), d[n + 1])
    BY <1>1, <1>2, <1>3, <1>8, <2>1, KeptTells
  <2>3. w \in Seq(S) /\ e \in S /\ Len(w) \in Nat /\ Len(a) = Len(w) + 1
    BY <1>3, <2>1
  <2>4. PICK v : /\ Tally(Append(w, e), Len(w) + 1, v)
                 /\ v[Len(w) + 1] = Stage(u[Len(w)], OpenAfter(w), e)
    BY <1>5, <2>3, TallyAppended
  <2>5. Tally(a, Len(a), v) /\ v[Len(a)] = t[n + 1]
    BY <1>5, <1>6, <2>1, <2>2, <2>3, <2>4
  <2>6. Stripping(d, a, n + 1, before)
    BY <1>5, <2>5 DEF Halfway, Stripping
  <2>7. Sizeless(a)
    <3>1. e.kind = "start" /\ e.name[2] = "file-entry" => "size" \notin DOMAIN e.attrs
      BY <1>3, <2>1, WithoutSizeHasNone
    <3>2. Sizeless(w)
      BY <1>1, <1>2
    <3> QED BY <2>1, <2>3, <3>1, <3>2, SizelessMore
  <2>8. Stripping(source', rewritten', pos' - 1, before') /\ Sizeless(rewritten')
    BY <1>1, <1>2, <1>3, <2>2, <2>6, <2>7
  <2> QED BY <1>1, <1>7, <2>8 DEF Traced
<1>9. CASE BeginSkip \/ SkipEvent
  <2>1. n \in 0..Len(d) /\ Len(d) \in Nat
    BY <1>3
  <2>2. Formed(t[n])
    BY <1>5, <2>1, TallyFormed
  <2>3. rewritten' = w /\ Stage(t[n], Open(d, n), d[n + 1]) = t[n]
    BY <1>1, <1>2, <1>3, <1>9, <2>2, DroppedTellsNothing
  <2>4. Stripping(d, w, n + 1, before)
    BY <1>5, <1>6, <2>3 DEF Halfway, Stripping
  <2>5. Stripping(source', rewritten', pos' - 1, before') /\ Sizeless(rewritten')
    BY <1>1, <1>2, <1>3, <2>3, <2>4
  <2> QED BY <1>1, <1>7, <2>5 DEF Traced
<1> QED BY <1>8, <1>9

\* All of the source has been rewritten, with nothing left open.
LEMMA TracedReopens ==
  ASSUME Inv, Traced, Reopen
  PROVE  Traced'
<1>1. /\ phase = "rewriting" /\ pos = Len(source) + 1 /\ phase' = "rebuilt" /\ pos' = 1
      /\ stack' = <<>> /\ bags' = <<>> /\ bag' = NewBag /\ version' = None
      /\ UNCHANGED <<source, before, rewritten>>
  BY DEF Reopen, document
<1>2. /\ Strips /\ source \in Documents /\ Sizeless(rewritten)
      /\ Stripping(source, rewritten, pos - 1, before)
  BY <1>1 DEF Inv, Traced
<1>3. Len(source) \in Nat /\ pos - 1 = Len(source) /\ Len(Open(source, pos - 1)) = 0
  BY <1>1, <1>2, Documented DEF Depth
<1>4. OpenAfter(rewritten) = <<>>
  <2>1. PICK k : k = OpenAfter(rewritten)
    OBVIOUS
  <2>2. rewritten \in Seq(Range(rewritten))
    BY <1>2 DEF Strips, Proper
  <2>3. Len(rewritten) \in 0..Len(rewritten)
    BY <2>2
  <2>4. k \in Seq(Range(rewritten))
    BY <2>1, <2>2, <2>3, OpenTyped, OpenSteps
  <2>5. Len(k) + skipDepth = 0 /\ skipDepth \in Nat
    BY <1>2, <1>3, <2>1 DEF Strips
  <2>6. Len(k) = 0
    BY <2>4, <2>5
  <2> QED BY <2>1, <2>4, <2>6
<1>5. PICK t, u : Halfway(source, rewritten, Len(source), before, t, u)
  BY <1>2, <1>3 DEF Stripping
<1>6. /\ Tally(rewritten, Len(rewritten), u) /\ Tells(u[Len(rewritten)], before) /\ u[0] = Blank
  BY <1>5 DEF Halfway, Tally
<1>7. Like(u[0], <<>>, NewBag, None)
  BY <1>6, BlankLike
<1>8. Retelling(rewritten, 0, before, <<>>, NewBag, None)
  BY <1>6, <1>7 DEF Retold, Retelling
<1>9. pos' - 1 = 0
  BY <1>1
<1>10. Retelling(rewritten', pos' - 1, before', bags', bag', version')
  BY <1>1, <1>8, <1>9
<1>11. Bagged(bags', bag') /\ Unsized(bags', bag') /\ Rooted'
  BY <1>1, BlankLike DEF Rooted
<1>12. OpenAfter(rewritten') = <<>> /\ Sizeless(rewritten')
  BY <1>1, <1>2, <1>4
<1> QED BY <1>1, <1>10, <1>11, <1>12 DEF Traced

\* The second parse ends.
LEMMA TracedRebuilt ==
  ASSUME Inv, Traced, EndOfRebuilt
  PROVE  Traced'
<1>1. /\ phase = "rebuilt" /\ phase' = "done" /\ before' = before /\ bags' = Returned
      /\ pos = Len(rewritten) + 1
  BY DEF EndOfRebuilt, Input
<1>2. /\ OpenAfter(rewritten) = <<>> /\ Unsized(bags, bag) /\ Bagged(bags, bag)
      /\ Retelling(rewritten, pos - 1, before, bags, bag, version) /\ Parses /\ Input = rewritten
  BY <1>1 DEF Inv, Traced, Input
<1>3. Len(rewritten) \in Nat /\ pos - 1 = Len(rewritten) /\ rewritten \in Seq(Range(rewritten))
  BY <1>1, <1>2 DEF Parses, Proper
<1>4. bags' = bags
  <2>1. Open(rewritten, pos - 1) = <<>>
    BY <1>2, <1>3, OpenSteps
  <2>2. Shadows(stack, beyond, <<>>)
    BY <1>2, <2>1 DEF Parses
  <2>3. Cut(<<>>) = 0
    BY DepthAssumption DEF Cut
  <2>4. stack = <<>>
    BY <2>2, <2>3 DEF Shadows
  <2> QED BY <1>1, <2>4 DEF Returned
<1>5. PICK u : Retold(rewritten, Len(rewritten), before, bags, bag, version, u)
  BY <1>2, <1>3 DEF Retelling
<1>6. PICK s : s = u[Len(rewritten)]
  OBVIOUS
<1>7. Tells(s, before) /\ Like(s, bags, bag, version)
  BY <1>5, <1>6 DEF Retold
<1>8. PlainRows(before, bags)
  <2>1. Len(bags) = Len(before) /\ \A i \in 1..Len(bags) : s.rows[i] = Gist(bags[i]) /\ s.rows[i] = Gist(before[i])
    BY <1>7 DEF Tells, Like
  <2> QED BY <1>2, <2>1 DEF PlainRows, Bagged, Unsized
<1> QED BY <1>1, <1>4, <1>8 DEF Traced

LEMMA TracedStep ==
  ASSUME RootsKept
  PROVE  Inv /\ Unborrowed /\ Traced /\ [Next]_vars => Traced'
<1> SUFFICES ASSUME Inv, Unborrowed, Traced, [Next]_vars PROVE Traced'
  OBVIOUS
<1>1. CASE StartElement \/ EndElement \/ Characters
  BY <1>1, TracedRead
<1>2. CASE Malformed \/ CutShort
  <2>1. phase' = "done" /\ fate' # "whole"
    BY <1>2 DEF Malformed, CutShort
  <2> QED BY <2>1 DEF Traced
<1>3. CASE EndOfSource
  BY <1>3, TracedEnds
<1>4. CASE KeepEvent \/ BeginSkip \/ SkipEvent
  BY <1>4, TracedStrips
<1>5. CASE Reopen
  BY <1>5, TracedReopens
<1>6. CASE EndOfRebuilt
  BY <1>6, TracedRebuilt
<1>7. CASE Done \/ UNCHANGED vars
  <2>1. /\ UNCHANGED <<source, phase, pos, fate, stack, bags, bag, version>>
        /\ UNCHANGED <<before, rewritten, skipDepth>>
    BY <1>7 DEF Done, vars
  <2>2. Rooted' = Rooted /\ Dropping' = Dropping
    BY <2>1 DEF Rooted, Dropping
  <2> QED BY <2>1, <2>2 DEF Traced
<1> QED BY <1>1, <1>2, <1>3, <1>4, <1>5, <1>6, <1>7 DEF Next, Strip

LEMMA AlwaysTraced ==
  ASSUME RootsKept
  PROVE  Spec => []Traced
<1>1. Inv /\ Unborrowed /\ Traced /\ [Next]_vars => Inv' /\ Unborrowed' /\ Traced'
  BY InvStep, UnborrowedStep, TracedStep
<1> QED BY <1>1, InvAtFirst, UnborrowedAtFirst, TracedAtFirst, PTL DEF Spec

\* Of a manifest that has a row to open with a password, strip_manifest leaves one
\* that parse_manifest reads as the same rows, with their paths, media types and
\* versions, in the same order, and none of them encrypted: whatever encryption
\* elements a row has and wherever they are, unless the root itself is called
\* encryption-data, which strip_manifest drops with all it holds.
THEOREM RewrittenAlwaysPlain ==
  ASSUME RootsKept
  PROVE  Spec => []RewrittenIsPlain
<1>1. Traced => RewrittenIsPlain
  <2> SUFFICES ASSUME Traced, phase = "done", fate = "whole", IsRewritten(before)
               PROVE  /\ Len(bags) = Len(before)
                      /\ \A i \in DOMAIN bags :
                           /\ \A f \in {"path", "media", "version"} : bags[i][f] = before[i][f]
                           /\ ~CompletePassword(bags[i]) /\ ~CompletePgp(bags[i])
    BY DEF RewrittenIsPlain
  <2>1. PlainRows(before, bags)
    BY DEF Traced
  <2>2. Len(bags) = Len(before) /\ DOMAIN bags = 1..Len(bags)
    BY <2>1 DEF PlainRows
  <2>3. ASSUME NEW i \in DOMAIN bags
        PROVE  /\ \A f \in {"path", "media", "version"} : bags[i][f] = before[i][f]
               /\ ~CompletePassword(bags[i]) /\ ~CompletePgp(bags[i])
    <3>1. Gist(bags[i]) = Gist(before[i]) /\ bags[i].size = None
      BY <2>1, <2>2 DEF PlainRows
    <3>2. /\ bags[i].path = before[i].path /\ bags[i].media = before[i].media
          /\ bags[i].version = before[i].version
      <4>1. \A b : Gist(b).path = b.path /\ Gist(b).media = b.media /\ Gist(b).version = b.version
        BY DEF Gist
      <4> QED BY <3>1, <4>1
    <3>3. ~CompletePassword(bags[i]) /\ ~CompletePgp(bags[i])
      BY <3>1 DEF CompletePassword, CompletePgp, Complete
    <3> QED BY <3>2, <3>3
  <2> QED BY <2>2, <2>3
<1> QED BY <1>1, AlwaysTraced, PTL
===============================================================================
