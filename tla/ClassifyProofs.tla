--------------------------- MODULE ClassifyProofs ---------------------------
(***************************************************************************)
(* Theorems about Classify, for every archive, manifest and bound.         *)
(*                                                                         *)
(* Inv is inductive: the tree exists before the first row is read, every   *)
(* accepted row is a stream of it that a row has marked, a marked stream   *)
(* is either encrypted or has set has_non_encrypted_entries, and the latch *)
(* row is the first accepted row of its name.                              *)
(*                                                                         *)
(* A second invariant, Whereabouts, is about the names: what the tree is   *)
(* built of, that a folder's folder is in it, and where the cache of recent*)
(* folders may point.  It rests on lemmas of how far a walk of a name goes.*)
(***************************************************************************)
EXTENDS Classify, WellFoundedInduction, TLAPS

Typed ==
  /\ entries \in Seq([path : streams, crypt : {r.crypt : r \in Rows}])
  /\ plainEntries \in BOOLEAN
  /\ verdict = "collecting" => entries = <<>> /\ common = <<>> /\ fromManifest = {}

Marked ==
  /\ EncryptedPaths \subseteq fromManifest
  /\ fromManifest \subseteq streams
  /\ plainEntries \/ fromManifest \subseteq EncryptedPaths

Latches == {i \in 1..Len(entries) : ShortName(entries[i].path) \in {Content, Package}}

FirstLatch ==
  /\ common = <<>> <=> Latches = {}
  /\ \A i \in Latches : (\A j \in Latches : i <= j) => common = <<entries[i]>>

Inv == Typed /\ Marked /\ FirstLatch

-----------------------------------------------------------------------------
\* FolderTree::resolve answers "stream" only with a stream of the tree, whatever
\* the cache of recent folders holds.
LEMMA ResolveFindsStreams ==
  ASSUME NEW n, Resolve(n).kind = "stream"
  PROVE  Resolve(n).path \in streams
<1> DEFINE child == Append(recent[DirName(n)], Last(n))
<1>1. \A p : KindAt(p) = "stream" => p \in streams
  BY DEF KindAt
<1>2. \A cache : WalkResolve(n, cache).kind = "stream" => WalkResolve(n, cache).path \in streams
  <2> SUFFICES ASSUME NEW cache, WalkResolve(n, cache).kind = "stream"
               PROVE  WalkResolve(n, cache).path \in streams
    OBVIOUS
  <2>1. WalkResolve(n, cache).path = n /\ KindAt(n) = "stream"
    BY DEF WalkResolve, Found
  <2> QED BY <2>1, <1>1
<1>3. CASE n = <<Empty, Empty>>
  BY <1>3 DEF Resolve, Found
<1>4. CASE n # <<Empty, Empty>> /\ ~HasSlash(n)
  BY <1>1, <1>4 DEF Resolve, Found
<1>5. CASE n # <<Empty, Empty>> /\ HasSlash(n) /\ DirName(n) \notin DOMAIN recent
  BY <1>2, <1>5 DEF Resolve
<1>6. CASE n # <<Empty, Empty>> /\ HasSlash(n) /\ DirName(n) \in DOMAIN recent
  <2>1. CASE IsFolderName(n)
    BY <1>2, <1>6, <2>1 DEF Resolve, Found
  <2>2. CASE ~IsFolderName(n)
    BY <1>1, <1>2, <1>6, <2>2 DEF Resolve, Found
  <2> QED BY <2>1, <2>2
<1> QED BY <1>3, <1>4, <1>5, <1>6

\* Appending a row adds its path to the encrypted paths, and nothing else.
LEMMA AppendedPath ==
  ASSUME NEW S, entries \in Seq(S), NEW e \in S, entries' = Append(entries, e)
  PROVE  EncryptedPaths' = EncryptedPaths \cup {e.path}
<1>1. Len(entries') = Len(entries) + 1 /\ Len(entries) \in Nat
  OBVIOUS
<1>2. \A i \in 1..Len(entries) : entries'[i] = entries[i]
  OBVIOUS
<1>3. entries'[Len(entries) + 1] = e
  OBVIOUS
<1>4. 1..Len(entries') = (1..Len(entries)) \cup {Len(entries) + 1}
  BY <1>1
<1> QED BY <1>2, <1>3, <1>4 DEF EncryptedPaths

\* A new row becomes the latch exactly when it is the first of its name.
LEMMA LatchedRow ==
  ASSUME NEW S, entries \in Seq(S), NEW e \in S, entries' = Append(entries, e),
         FirstLatch,
         common' = IF common = <<>> /\ ShortName(e.path) \in {Content, Package}
                   THEN <<e>> ELSE common
  PROVE  FirstLatch'
<1> DEFINE n == Len(entries)
<1>0. n \in Nat /\ Len(entries') = n + 1
  OBVIOUS
<1>1. n \in Nat /\ 1..Len(entries') = (1..n) \cup {n + 1}
  BY <1>0
<1>2. (\A i \in 1..n : entries'[i] = entries[i]) /\ entries'[n + 1] = e
  OBVIOUS
<1>3. Latches' = Latches \cup (IF ShortName(e.path) \in {Content, Package} THEN {n + 1} ELSE {})
  BY <1>1, <1>2 DEF Latches, ShortName
<1>4. Latches \subseteq 1..n
  BY DEF Latches
<1>5. CASE common = <<>>
  <2>1. Latches = {}
    BY <1>5 DEF FirstLatch
  <2>2. CASE ShortName(e.path) \in {Content, Package}
    <3>1. Latches' = {n + 1} /\ common' = <<e>>
      BY <1>3, <1>5, <2>1, <2>2
    <3> QED BY <1>2, <3>1 DEF FirstLatch
  <2>3. CASE ShortName(e.path) \notin {Content, Package}
    BY <1>3, <1>5, <2>1, <2>3 DEF FirstLatch
  <2> QED BY <2>2, <2>3
<1>6. CASE common # <<>>
  <2>1. common' = common /\ Latches # {} /\ Latches' # {}
    BY <1>3, <1>6 DEF FirstLatch
  <2>2. ASSUME NEW i \in Latches', \A j \in Latches' : i <= j
        PROVE  common' = <<entries'[i]>>
    <3>1. PICK j \in Latches : TRUE
      BY <2>1
    <3>2. Latches \subseteq Latches' /\ i \in Latches \cup {n + 1}
      BY <1>3
    <3>3. j \in 1..n /\ i <= j
      BY <1>4, <2>2, <3>1, <3>2
    <3>4. i \in Latches /\ \A k \in Latches : i <= k
      BY <1>0, <2>2, <3>2, <3>3
    <3> QED BY <1>2, <1>4, <2>1, <3>4 DEF FirstLatch
  <2> QED BY <1>6, <2>1, <2>2 DEF FirstLatch
<1> QED BY <1>5, <1>6

LEMMA Initially == Init => Inv
<1> SUFFICES ASSUME Init PROVE Inv
  OBVIOUS
<1>1. entries = <<>> /\ 1..Len(entries) = {}
  BY DEF Init
<1>2. EncryptedPaths = {}
  BY <1>1 DEF EncryptedPaths
<1>3. entries \in Seq([path : streams, crypt : {r.crypt : r \in Rows}])
  BY <1>1
<1>4. Typed
  BY <1>1, <1>3 DEF Init, Typed
<1>5. Marked
  BY <1>2 DEF Init, Marked
<1>6. FirstLatch
  BY <1>1 DEF Init, FirstLatch, Latches
<1> QED BY <1>4, <1>5, <1>6 DEF Inv

LEMMA Step == Inv /\ [Next]_vars => Inv'
<1> SUFFICES ASSUME Inv, [Next]_vars PROVE Inv'
  OBVIOUS
<1> USE DEF Inv
\* Actions that leave the rows and the tree alone.
<1>1. ASSUME UNCHANGED <<entries, common, plainEntries, streams, fromManifest>>,
             verdict' = "collecting" => verdict = "collecting"
      PROVE  Inv'
  <2>1. Typed' /\ Marked'
    BY <1>1 DEF Typed, Marked, EncryptedPaths
  <2>2. FirstLatch'
    BY <1>1 DEF FirstLatch, Latches, ShortName
  <2> QED BY <2>1, <2>2
<1>2. ASSUME NEW m \in Members, AddMember(m) PROVE Inv'
  BY <1>1, <1>2 DEF AddMember, tree, marks, found
<1>3. CASE BuildTree
  <2>1. verdict = "collecting" /\ UNCHANGED <<entries, common, plainEntries, fromManifest>>
    BY <1>3 DEF BuildTree, marks, found
  <2>2. entries = <<>> /\ common = <<>> /\ fromManifest = {}
    BY <2>1 DEF Typed
  <2>3. EncryptedPaths = {} /\ EncryptedPaths' = {}
    BY <2>1, <2>2 DEF EncryptedPaths
  <2>4. entries' \in Seq([path : streams', crypt : {r.crypt : r \in Rows}])
    BY <2>1, <2>2
  <2>5. Typed'
    BY <2>1, <2>2, <2>4 DEF Typed
  <2>6. Marked'
    BY <2>1, <2>2, <2>3 DEF Marked
  <2>7. FirstLatch'
    BY <2>1 DEF FirstLatch, Latches, ShortName
  <2> QED BY <2>5, <2>6, <2>7
<1>4. ASSUME NEW r \in Rows, SkipRow(r) PROVE Inv'
  BY <1>1, <1>4 DEF SkipRow, ReadRow, tree, marks, found
<1>5. ASSUME NEW r \in Rows, BadRow(r) PROVE Inv'
  BY <1>1, <1>5 DEF BadRow, ReadRow, tree, marks, found
<1>6. ASSUME NEW r \in Rows, FolderRow(r) PROVE Inv'
  BY <1>1, <1>6 DEF FolderRow, ReadRow, tree, marks, found
<1>7. ASSUME NEW r \in Rows, StreamRow(r) PROVE Inv'
  <2> DEFINE s == Resolve(r.path).path
             e == [path |-> s, crypt |-> r.crypt]
  <2>1. s \in streams
    BY <1>7, ResolveFindsStreams DEF Latching, StreamRow
  <2>2. /\ UNCHANGED <<streams, verdict>> /\ verdict = "rows"
        /\ fromManifest' = fromManifest \cup {s}
    BY <1>7 DEF Latching, StreamRow, ReadRow, tree
  <2>3. CASE AcceptRow(r, keyInfo')
    <3>1. entries' = Append(entries, e) /\ plainEntries' = plainEntries
      BY <1>7, <2>3 DEF Latching, StreamRow
    <3>2. e \in [path : streams, crypt : {q.crypt : q \in Rows}]
      BY <2>1
    <3>3. EncryptedPaths' = EncryptedPaths \cup {s}
      <4> DEFINE S == [path : streams, crypt : {q.crypt : q \in Rows}]
      <4>1. entries \in Seq(S) /\ e \in S /\ e.path = s
        BY <3>2 DEF Typed
      <4>2. entries' = Append(entries, e)
        BY <3>1
      <4> HIDE DEF S, e
      <4> QED BY <4>1, <4>2, AppendedPath
    <3>4. Typed'
      BY <2>2, <3>1, <3>2 DEF Typed
    <3>5. Marked'
      BY <2>1, <2>2, <3>1, <3>3 DEF Marked
    <3>6. FirstLatch'
      <4> DEFINE S == [path : streams, crypt : {q.crypt : q \in Rows}]
      <4>1. entries \in Seq(S) /\ e \in S
        BY <3>2 DEF Typed
      <4>2. common' = IF common = <<>> /\ ShortName(e.path) \in {Content, Package}
                      THEN <<e>> ELSE common
        BY <1>7, <2>3 DEF Latching, StreamRow
      <4>3. entries' = Append(entries, e)
        BY <3>1
      <4> HIDE DEF S, e
      <4> QED BY <4>1, <4>2, <4>3, LatchedRow
    <3> QED BY <3>4, <3>5, <3>6
  <2>4. CASE ~AcceptRow(r, keyInfo')
    <3>1. plainEntries' = TRUE /\ UNCHANGED <<entries, common>>
      BY <1>7, <2>4 DEF Latching, StreamRow
    <3>2. EncryptedPaths' = EncryptedPaths
      BY <3>1 DEF EncryptedPaths
    <3>3. Typed' /\ Marked'
      BY <2>1, <2>2, <3>1, <3>2 DEF Typed, Marked
    <3>4. FirstLatch'
      BY <3>1 DEF FirstLatch, Latches, ShortName
    <3> QED BY <3>3, <3>4
  <2> QED BY <2>3, <2>4
<1>8. CASE Conclude
  BY <1>1, <1>8 DEF Conclude, tree, found
<1>9. CASE Done \/ UNCHANGED vars
  BY <1>1, <1>9 DEF Done, vars, tree, marks, found
<1>10. \A f \in Families : f.members \subseteq Members /\ f.rows \subseteq Rows
  BY DEF Members, Rows
<1> QED BY <1>2, <1>3, <1>4, <1>5, <1>6, <1>7, <1>8, <1>9, <1>10 DEF Next, AnyRow

LEMMA Always == Spec => []Inv
  BY Initially, Step, PTL DEF Spec

-----------------------------------------------------------------------------
\* Every encrypted entry classify reports is a stream of the package that a row
\* of the manifest named (stage_b, FolderTree::resolve).
THEOREM AcceptedRowsAreStreams == Spec => []EntriesAreStreams
<1>1. Inv => EntriesAreStreams
  BY DEF Inv, Marked, EntriesAreStreams
<1> QED BY <1>1, Always, PTL

\* `common`, the row whose algorithms the package is reported with, is the first
\* accepted row named content.xml or encrypted-package (stage_b).
THEOREM TheLatchIsTheFirst == Spec => []LatchIsFirst
<1>1. Inv => LatchIsFirst
  BY DEF Inv, FirstLatch, Latches, LatchIsFirst
<1> QED BY <1>1, Always, PTL

\* A per-entry package that passes reencrypt's two screens, no plain entry and
\* nothing unexpected, has no stream in the clear but mimetype and META-INF/.
THEOREM ScreenedPackagesAreCovered == Spec => []RekeyCoversEveryStream
<1>1. Inv => RekeyCoversEveryStream
  <2> SUFFICES ASSUME Inv, ~plainEntries, ~Unexpected, NEW s \in streams,
                      s # <<Mimetype>>, Front(s) # <<MetaInf>>
               PROVE  s \in EncryptedPaths
    BY DEF RekeyCoversEveryStream
  <2>1. ~UnexpectedStream(s)
    BY DEF Unexpected
  <2>2. s \in fromManifest
    BY <2>1 DEF UnexpectedStream
  <2> QED BY <2>2 DEF Inv, Marked
<1> QED BY <1>1, Always, PTL

-----------------------------------------------------------------------------
\* Names, as they are split: at least one segment.
Names == Seq(DOMAIN Lower) \ {<<>>}

\* Of natural numbers there is a least.
LEMMA Least ==
  ASSUME NEW T, T \subseteq Nat, T # {}
  PROVE  \E n \in T : \A m \in T : n <= m
<1> DEFINE R == OpToRel(<, Nat)
<1>1. IsWellFoundedOn(R, Nat)
  BY NatLessThanWellFounded
<1>2. \A x, y \in Nat : x < y => <<x, y>> \in R
  BY DEF OpToRel
<1> HIDE DEF R
<1>3. PICK n \in T : \A y \in T : ~(<<y, n>> \in R)
  BY <1>1, WFMin, Zenon
<1>4. ASSUME NEW m \in T PROVE n <= m
  <2>1. n \in Nat /\ m \in Nat
    BY T \subseteq Nat
  <2>2. ~(m < n)
    BY <1>2, <1>3, <2>1
  <2> QED BY <2>1, <2>2
<1> QED BY <1>4

\* A walk of a name ends before its first empty segment or its last.
LEMMA Walks ==
  ASSUME NEW S, NEW n \in Seq(S) \ {<<>>}
  PROVE  /\ Walked(n) \in 0..(Len(n) - 1)
         /\ \A j \in 1..Walked(n) : n[j] # Empty
         /\ Walked(n) = Len(n) - 1 \/ n[Walked(n) + 1] = Empty
<1>0. Len(n) \in Nat \ {0}
  OBVIOUS
<1> DEFINE T == {k \in 0..(Len(n) - 1) : k = Len(n) - 1 \/ n[k + 1] = Empty}
<1>1. T \subseteq Nat /\ Len(n) - 1 \in T
  BY <1>0
<1>2. PICK k \in T : \A m \in T : k <= m
  BY <1>1, Least, Zenon
<1>3. ASSUME NEW j \in 1..k PROVE n[j] # Empty
  <2>1. j - 1 \in 0..(Len(n) - 1) /\ (j - 1) + 1 = j /\ ~(k <= j - 1)
    BY <1>0, <1>2
  <2>2. j - 1 \notin T
    BY <1>2, <2>1
  <2> QED BY <2>1, <2>2
<1>4. /\ k \in 0..(Len(n) - 1)
      /\ \A j \in 1..k : n[j] # Empty
      /\ k = Len(n) - 1 \/ n[k + 1] = Empty
  BY <1>2, <1>3
<1> HIDE DEF T
<1> QED BY <1>4 DEF Walked

\* And nowhere else.
LEMMA WalkEnds ==
  ASSUME NEW S, NEW n \in Seq(S) \ {<<>>}, NEW k \in 0..(Len(n) - 1),
         \A j \in 1..k : n[j] # Empty, k = Len(n) - 1 \/ n[k + 1] = Empty
  PROVE  Walked(n) = k
<1>0. Len(n) \in Nat \ {0}
  OBVIOUS
<1>1. PICK w : w = Walked(n)
  OBVIOUS
<1>2. /\ w \in 0..(Len(n) - 1)
      /\ \A j \in 1..w : n[j] # Empty
      /\ w = Len(n) - 1 \/ n[w + 1] = Empty
  BY <1>1, Walks
<1>3. ~(w < k)
  <2> SUFFICES ASSUME w < k PROVE FALSE
    OBVIOUS
  <2>1. w + 1 \in 1..k /\ w # Len(n) - 1
    BY <1>0, <1>2
  <2> QED BY <1>2, <2>1
<1>4. ~(k < w)
  <2> SUFFICES ASSUME k < w PROVE FALSE
    OBVIOUS
  <2>1. k + 1 \in 1..w /\ k # Len(n) - 1
    BY <1>0, <1>2
  <2> QED BY <1>2, <2>1
<1> QED BY <1>1, <1>2, <1>3, <1>4

\* Prefixes, and what they are prefixes of.
LEMMA Prefixed ==
  ASSUME NEW S, NEW n \in Seq(S), NEW k \in 0..Len(n)
  PROVE  /\ Prefix(n, k) \in Seq(S) /\ Len(Prefix(n, k)) = k
         /\ \A j \in 1..k : Prefix(n, k)[j] = n[j]
         /\ \A j \in 0..k : Prefix(Prefix(n, k), j) = Prefix(n, j)
<1>0. Len(n) \in Nat
  OBVIOUS
<1>1. ASSUME NEW i \in 0..Len(n)
      PROVE  /\ Prefix(n, i) \in Seq(S) /\ Len(Prefix(n, i)) = i
             /\ \A j \in 1..i : Prefix(n, i)[j] = n[j]
  BY <1>0 DEF Prefix
<1>2. ASSUME NEW j \in 0..k PROVE Prefix(Prefix(n, k), j) = Prefix(n, j)
  <2> DEFINE p == Prefix(n, k)
  <2>1. p \in Seq(S) /\ Len(p) = k /\ \A i \in 1..k : p[i] = n[i]
    BY <1>1
  <2>2. Len(Prefix(n, j)) = j /\ Prefix(n, j) \in Seq(S) /\ \A i \in 1..j : Prefix(n, j)[i] = n[i]
    BY <1>0, <1>1
  <2> HIDE DEF p
  <2>3. Prefix(p, j) \in Seq(S) /\ Len(Prefix(p, j)) = j /\ \A i \in 1..j : Prefix(p, j)[i] = p[i]
    BY <1>0, <2>1 DEF Prefix
  <2>4. \A i \in 1..j : Prefix(p, j)[i] = Prefix(n, j)[i]
    BY <1>0, <2>1, <2>2, <2>3
  <2>5. Prefix(p, j) = Prefix(n, j)
    BY <2>2, <2>3, <2>4
  <2> QED BY <2>5 DEF p
<1> QED BY <1>1, <1>2

\* The directory part of a name, made a folder's name again, is walked as far as
\* the name, and has its prefixes.
LEMMA DirWalks ==
  ASSUME NEW n \in Names
  PROVE  /\ DirName(n) \in Seq(DOMAIN Lower)
         /\ Len(DirName(n)) = Len(n) - 1
         /\ Walked(Append(DirName(n), Empty)) = Walked(n)
         /\ \A k \in 0..(Len(n) - 1) : Prefix(DirName(n), k) = Prefix(n, k)
<1> DEFINE d == DirName(n)
           w == Walked(n)
           S == DOMAIN Lower \cup {Empty}
           m == Append(d, Empty)
<1>0. n \in Seq(DOMAIN Lower) /\ Len(n) \in Nat \ {0} /\ Len(n) - 1 \in 0..Len(n)
  BY DEF Names
<1>1. d = Prefix(n, Len(n) - 1)
  BY DEF DirName, Front, Prefix
<1>2. /\ d \in Seq(DOMAIN Lower) /\ Len(d) = Len(n) - 1
      /\ \A j \in 1..(Len(n) - 1) : d[j] = n[j]
      /\ \A k \in 0..(Len(n) - 1) : Prefix(d, k) = Prefix(n, k)
  <2> DEFINE p == Prefix(n, Len(n) - 1)
  <2>1. /\ p \in Seq(DOMAIN Lower) /\ Len(p) = Len(n) - 1
        /\ \A j \in 1..(Len(n) - 1) : p[j] = n[j]
        /\ \A k \in 0..(Len(n) - 1) : Prefix(p, k) = Prefix(n, k)
    <3> HIDE DEF p
    <3>1. PICK l \in 0..Len(n) : l = Len(n) - 1
      BY <1>0
    <3>2. /\ Prefix(n, l) \in Seq(DOMAIN Lower) /\ Len(Prefix(n, l)) = l
          /\ \A j \in 1..l : Prefix(n, l)[j] = n[j]
          /\ \A j \in 0..l : Prefix(Prefix(n, l), j) = Prefix(n, j)
      BY <1>0, Prefixed, Zenon
    <3>3. p = Prefix(n, l)
      BY <3>1 DEF p
    <3> QED BY <3>1, <3>2, <3>3
  <2> QED BY <1>1, <2>1
<1>3. /\ w \in 0..(Len(n) - 1) /\ \A j \in 1..w : n[j] # Empty
      /\ w = Len(n) - 1 \/ n[w + 1] = Empty
  BY <1>0, Walks
<1> HIDE DEF d, w
<1>4. /\ m \in Seq(S) \ {<<>>} /\ Len(m) = Len(n)
      /\ \A j \in 1..(Len(n) - 1) : m[j] = n[j]
  <2>1. d \in Seq(S)
    BY <1>2
  <2>2. Len(m) = Len(d) + 1 /\ \A j \in 1..Len(d) : m[j] = d[j]
    BY <2>1
  <2> QED BY <1>0, <1>2, <2>1, <2>2
<1> HIDE DEF m
<1>5. /\ w \in 0..(Len(m) - 1) /\ \A j \in 1..w : m[j] # Empty
      /\ w = Len(m) - 1 \/ m[w + 1] = Empty
  BY <1>0, <1>3, <1>4
<1>6. Walked(m) = w
  BY <1>4, <1>5, WalkEnds
<1> QED BY <1>2, <1>6 DEF d, w, m

\* A folder's name is its directory part with the slash.
LEMMA FolderName ==
  ASSUME NEW n \in Names, IsFolderName(n)
  PROVE  Append(DirName(n), Empty) = n
<1>0. n \in Seq(DOMAIN Lower) /\ Len(n) \in Nat \ {0} /\ n[Len(n)] = Empty
  BY DEF Names, IsFolderName, Last
<1>1. Empty \in DOMAIN Lower
  BY <1>0
<1> QED BY <1>0, <1>1 DEF DirName, Front

-----------------------------------------------------------------------------
\* What the tree is built of, and what a folder in the cache is to its key.
Named ==
  /\ archive \in Seq(Members)
  /\ verdict = "collecting" =>
       /\ \A i \in Collected : ValidName(archive[i].name)
       /\ folders = {} /\ streams = {} /\ recent = <<>>

\* Every stream is that of a valid name, and with a folder the tree has the one
\* it lies in.
Borne ==
  /\ \A s \in streams : \E i \in Collected :
       ValidName(archive[i].name) /\ s \in StreamsOf(archive[i].name)
  /\ \A f \in folders : f # <<>> => f \in Seq(DOMAIN Lower) /\ Front(f) \in folders
  /\ mode = "wholesome" => <<Package>> \in EncryptedPaths

Near(cache) ==
  \A d \in DOMAIN cache :
    LET w == Walked(Append(d, Empty)) IN
    /\ cache[d] \in folders
    /\ cache[d] \in {Prefix(d, w), Prefix(d, w - 1)}

Whereabouts == Named /\ Borne /\ Near(recent)

LEMMA NearWithout == ASSUME NEW cache, NEW key, Near(cache) PROVE Near(Without(cache, key))
BY DEF Near, Without

LEMMA NearWith ==
  ASSUME NEW cache, NEW key, NEW f \in folders, Near(cache),
         f \in {Prefix(key, Walked(Append(key, Empty))),
                Prefix(key, Walked(Append(key, Empty)) - 1)}
  PROVE  Near(With(cache, key, f))
<1> DEFINE c == With(cache, key, f)
<1>1. /\ DOMAIN c = DOMAIN cache \cup {key}
      /\ \A d \in DOMAIN c : c[d] = IF d = key THEN f ELSE cache[d]
  BY DEF With
<1> HIDE DEF c
<1>2. Near(c)
  BY <1>1 DEF Near
<1> QED BY <1>2 DEF c

\* walk_resolve leaves the cache near.
LEMMA WalkKeepsNear ==
  ASSUME NEW n \in Names, NEW cache, Near(cache), Borne
  PROVE  Near(WalkResolve(n, cache).cache)
<1> DEFINE w == Walked(n)
           d == DirName(n)
           v == Walked(Append(d, Empty))
<1>0. n \in Seq(DOMAIN Lower) \ {<<>>} /\ Len(n) \in Nat \ {0}
  BY DEF Names
<1>1. w \in 0..(Len(n) - 1)
  BY <1>0, Walks
<1>2. v = w /\ \A k \in 0..(Len(n) - 1) : Prefix(d, k) = Prefix(n, k)
  BY DirWalks
<1>3. CASE WalkResolve(n, cache).cache = cache
  BY <1>3
<1>4. CASE /\ Prefix(n, w) \in folders /\ w # 0
           /\ WalkResolve(n, cache).cache = With(cache, d, Prefix(n, w - 1))
  <2> HIDE DEF w, d, v
  <2>1. /\ Prefix(n, w) \in Seq(DOMAIN Lower) /\ Len(Prefix(n, w)) = w
        /\ \A j \in 0..w : Prefix(Prefix(n, w), j) = Prefix(n, j)
    BY <1>0, <1>1, Prefixed
  <2>2. Prefix(n, w) # <<>> /\ Front(Prefix(n, w)) = Prefix(n, w - 1)
    <3>1. Front(Prefix(n, w)) = Prefix(Prefix(n, w), w - 1)
      BY <2>1 DEF Front, Prefix
    <3>2. w - 1 \in 0..w
      BY <1>1, <1>4
    <3> QED BY <1>1, <1>4, <2>1, <3>1, <3>2
  <2>3. Prefix(n, w - 1) \in folders
    BY <1>4, <2>2 DEF Borne
  <2>4. Prefix(n, w - 1) = Prefix(d, v - 1)
    BY <1>0, <1>1, <1>2, <1>4
  <2>5. v = Walked(Append(d, Empty))
    BY DEF v
  <2>6. Near(With(cache, d, Prefix(n, w - 1)))
    BY <2>3, <2>4, <2>5, NearWith, Zenon
  <2> QED BY <1>4, <2>6
<1>5. CASE /\ Prefix(n, w) \in folders
           /\ WalkResolve(n, cache).cache = With(cache, d, Prefix(n, w))
  <2> HIDE DEF w, d, v
  <2>1. Prefix(n, w) = Prefix(d, v)
    BY <1>1, <1>2
  <2>2. v = Walked(Append(d, Empty))
    BY DEF v
  <2>3. Near(With(cache, d, Prefix(n, w)))
    BY <1>5, <2>1, <2>2, NearWith, Zenon
  <2> QED BY <1>5, <2>3
<1> QED BY <1>3, <1>4, <1>5 DEF WalkResolve, Found

LEMMA ResolveKeepsNear ==
  ASSUME NEW n \in Names, Near(recent), Borne
  PROVE  Near(Resolve(n).cache)
<1>1. Near(WalkResolve(n, recent).cache) /\ Near(WalkResolve(n, Without(recent, DirName(n))).cache)
  BY NearWithout, WalkKeepsNear
<1>2. \/ Resolve(n).cache = recent
      \/ Resolve(n) = WalkResolve(n, recent)
      \/ Resolve(n) = WalkResolve(n, Without(recent, DirName(n)))
  BY DEF Resolve, Found
<1> QED BY <1>1, <1>2, Zenon

\* The only name that puts a stream encrypted-package into the root is that one.
LEMMA RootStream ==
  ASSUME NEW n \in Names, ValidName(n), NEW x, <<x>> \in StreamsOf(n)
  PROVE  n = <<x>>
<1>0. n \in Seq(DOMAIN Lower) \ {<<>>} /\ Len(n) \in Nat \ {0}
  BY DEF Names
<1>1. PICK w : w = Walked(n)
  OBVIOUS
<1>2. /\ w \in 0..(Len(n) - 1)
      /\ w = Len(n) - 1 \/ n[w + 1] = Empty
  BY <1>0, <1>1, Walks
<1>3. ~IsFolderName(n) /\ <<x>> = Append(Prefix(n, w), Last(n))
  BY <1>1 DEF StreamsOf
<1>4. Prefix(n, w) \in Seq(DOMAIN Lower) /\ Len(Prefix(n, w)) = w /\ n[Len(n)] \in DOMAIN Lower
  <2>1. w \in 0..Len(n)
    BY <1>0, <1>2
  <2> QED BY <1>0, <2>1, Prefixed
<1>5. w = 0 /\ x = n[Len(n)]
  <2>1. Len(Append(Prefix(n, w), n[Len(n)])) = w + 1
    BY <1>2, <1>4
  <2>2. w = 0
    BY <1>2, <1>3, <2>1 DEF Last
  <2>3. Append(Prefix(n, w), n[Len(n)])[w + 1] = n[Len(n)]
    BY <1>4
  <2> QED BY <1>3, <2>2, <2>3 DEF Last
<1>6. Len(n) = 1
  <2>1. CASE n[1] = Empty
    BY <1>0, <1>3, <2>1 DEF ValidName, HasSlash, IsFolderName, Last
  <2>2. CASE n[1] # Empty
    BY <1>0, <1>2, <1>5, <2>2
  <2> QED BY <2>1, <2>2
<1> QED BY <1>0, <1>5, <1>6

\* A folder's folder is a shorter prefix.
LEMMA FrontOfPrefix ==
  ASSUME NEW n \in Names, NEW k \in 1..Walked(n)
  PROVE  /\ Prefix(n, k) \in Seq(DOMAIN Lower)
         /\ Front(Prefix(n, k)) = Prefix(n, k - 1)
<1>0. n \in Seq(DOMAIN Lower) \ {<<>>} /\ Len(n) \in Nat \ {0}
  BY DEF Names
<1>1. k \in 0..Len(n) /\ k - 1 \in 0..k
  BY <1>0, Walks
<1>2. /\ Prefix(n, k) \in Seq(DOMAIN Lower) /\ Len(Prefix(n, k)) = k
      /\ \A j \in 0..k : Prefix(Prefix(n, k), j) = Prefix(n, j)
  BY <1>0, <1>1, Prefixed
<1>3. Front(Prefix(n, k)) = Prefix(Prefix(n, k), k - 1)
  BY <1>2 DEF Front, Prefix
<1> QED BY <1>1, <1>2, <1>3

LEMMA MemberNamed ==
  ASSUME Named, NEW i \in Collected
  PROVE  archive[i].name \in Names
BY ClassifyAssumption DEF Named, Collected, Names

\* The tree of the collected names.
LEMMA TreeBuilt ==
  ASSUME Inv, Whereabouts, BuildTree
  PROVE  Whereabouts'
<1> DEFINE N == {archive[i].name : i \in Collected}
           fs == {<<>>} \cup UNION {FoldersOf(n) : n \in N}
           ss == UNION {StreamsOf(n) : n \in N}
           seeds == {n \in N : HasSlash(n) /\ DirName(n) # <<Empty>>}
<1>1. /\ verdict = "collecting" /\ verdict' # "collecting"
      /\ UNCHANGED <<archive, entries, mode>>
  BY DEF BuildTree, found
<1>2. /\ Collected' = Collected /\ EncryptedPaths' = EncryptedPaths
      /\ archive \in Seq(Members) /\ N \subseteq Names
      /\ \A i \in Collected : ValidName(archive[i].name)
      /\ folders = {} /\ streams = {} /\ recent = <<>>
  <2>1. N \subseteq Names
    BY MemberNamed DEF Whereabouts
  <2> QED BY <1>1, <2>1 DEF Whereabouts, Named, Collected, EncryptedPaths
<1>3. Named' /\ (mode = "wholesome" => <<Package>> \in EncryptedPaths)'
  BY <1>1, <1>2 DEF Named, Whereabouts, Borne
<1>4. CASE UNCHANGED <<tree, recent>>
  BY <1>2, <1>3, <1>4 DEF Whereabouts, Borne, Near, tree
<1>5. CASE /\ folders' = fs /\ streams' = ss
           /\ recent' = [d \in {DirName(n) : n \in seeds} |->
                           Prefix(d, Walked(Append(d, Empty)))]
  <2>1. ASSUME NEW s \in streams'
        PROVE  \E i \in Collected' : ValidName(archive'[i].name) /\ s \in StreamsOf(archive'[i].name)
    <3>1. PICK n \in N : s \in StreamsOf(n)
      BY <1>5, <2>1
    <3> QED BY <1>1, <1>2, <3>1
  <2>2. ASSUME NEW f \in folders', f # <<>>
        PROVE  f \in Seq(DOMAIN Lower) /\ Front(f) \in folders'
    <3>1. PICK n \in N : f \in FoldersOf(n)
      BY <1>5, <2>2
    <3>2. PICK k \in 0..Walked(n) : f = Prefix(n, k)
      BY <3>1 DEF FoldersOf
    <3>3. n \in Names /\ n \in Seq(DOMAIN Lower) \ {<<>>} /\ Len(n) \in Nat
      BY <1>2, <3>1 DEF Names
    <3>4. Walked(n) \in 0..(Len(n) - 1)
      BY <3>3, Walks
    <3>5. k # 0
      <4>1. Prefix(n, 0) = <<>>
        BY <3>3 DEF Prefix
      <4> QED BY <2>2, <3>2, <4>1
    <3>6. k \in 1..Walked(n) /\ k - 1 \in 0..Walked(n)
      BY <3>4, <3>5
    <3>7. f \in Seq(DOMAIN Lower) /\ Front(f) = Prefix(n, k - 1)
      BY <3>2, <3>3, <3>6, FrontOfPrefix
    <3>8. Prefix(n, k - 1) \in FoldersOf(n)
      BY <3>6 DEF FoldersOf
    <3>9. Front(f) \in fs
      BY <3>1, <3>7, <3>8
    <3> QED BY <1>5, <3>7, <3>9
  <2>3. ASSUME NEW d \in DOMAIN recent'
        PROVE  /\ recent'[d] = Prefix(d, Walked(Append(d, Empty)))
               /\ recent'[d] \in folders'
    <3>1. recent'[d] = Prefix(d, Walked(Append(d, Empty)))
      BY <1>5, <2>3
    <3>2. PICK n \in seeds : d = DirName(n)
      BY <1>5, <2>3
    <3>3. n \in N /\ n \in Names /\ n \in Seq(DOMAIN Lower) \ {<<>>} /\ Len(n) \in Nat
      BY <1>2, <3>2 DEF Names
    <3>4. Walked(n) \in 0..(Len(n) - 1)
      BY <3>3, Walks
    <3>5. recent'[d] = Prefix(n, Walked(n))
      BY <3>1, <3>2, <3>3, <3>4, DirWalks
    <3>6. Prefix(n, Walked(n)) \in FoldersOf(n)
      BY <3>4 DEF FoldersOf
    <3> QED BY <1>5, <3>1, <3>3, <3>5, <3>6
  <2> HIDE DEF N, fs, ss, seeds
  <2>4. Borne'
    BY <1>3, <2>1, <2>2 DEF Borne
  <2>5. Near(recent)'
    BY <2>3 DEF Near
  <2> QED BY <1>3, <2>4, <2>5 DEF Whereabouts
<1> QED BY <1>4, <1>5 DEF BuildTree

\* A member more.
LEMMA MemberAdded ==
  ASSUME Whereabouts, NEW m \in Members, AddMember(m)
  PROVE  Whereabouts'
<1>1. /\ verdict = "collecting" /\ archive' = Append(archive, m)
      /\ verdict' = "collecting" => m.dosDir \/ ValidName(m.name)
      /\ UNCHANGED <<folders, streams, recent, entries, mode>>
  BY DEF AddMember, tree, found
<1>2. /\ archive \in Seq(Members) /\ \A i \in Collected : ValidName(archive[i].name)
      /\ folders = {} /\ streams = {} /\ recent = <<>>
  BY <1>1 DEF Whereabouts, Named
<1>3. /\ archive' \in Seq(Members) /\ Len(archive') = Len(archive) + 1
      /\ \A i \in 1..Len(archive) : archive'[i] = archive[i]
      /\ archive'[Len(archive) + 1] = m /\ Len(archive) \in Nat
  BY <1>1, <1>2
<1>4. ASSUME verdict' = "collecting", NEW i \in Collected' PROVE ValidName(archive'[i].name)
  <2>1. i \in 1..(Len(archive) + 1) /\ ~archive'[i].dosDir
    BY <1>3, <1>4 DEF Collected
  <2>2. CASE i = Len(archive) + 1
    BY <1>1, <1>3, <1>4, <2>1, <2>2
  <2>3. CASE i \in 1..Len(archive)
    BY <1>2, <1>3, <2>1, <2>3 DEF Collected
  <2> QED BY <1>3, <2>1, <2>2, <2>3
<1>5. Named'
  BY <1>1, <1>2, <1>3, <1>4 DEF Named
<1>6. EncryptedPaths' = EncryptedPaths
  BY <1>1 DEF EncryptedPaths
<1>7. Borne'
  BY <1>1, <1>2, <1>6 DEF Whereabouts, Borne
<1>8. Near(recent)'
  BY <1>1, <1>2 DEF Near
<1> QED BY <1>5, <1>7, <1>8 DEF Whereabouts

\* A row changes at most the cache, and only adds to the encrypted paths.
LEMMA RowRead ==
  ASSUME Inv, Whereabouts, NEW r \in Rows, AnyRow(r)
  PROVE  Whereabouts'
<1>1. /\ verdict' # "collecting" /\ UNCHANGED <<archive, folders, streams, mode>>
      /\ recent' = recent \/ recent' = Resolve(r.path).cache
  BY DEF AnyRow, SkipRow, BadRow, FolderRow, StreamRow, ReadRow, tree
<1>2. EncryptedPaths \subseteq EncryptedPaths'
  <2>1. \/ entries' = entries
        \/ /\ Resolve(r.path).kind = "stream"
           /\ entries' = Append(entries, [path |-> Resolve(r.path).path, crypt |-> r.crypt])
    BY DEF AnyRow, SkipRow, BadRow, FolderRow, StreamRow, found
  <2>2. CASE entries' = entries
    BY <2>2 DEF EncryptedPaths
  <2>3. ASSUME NEW e, Resolve(r.path).kind = "stream",
               e = [path |-> Resolve(r.path).path, crypt |-> r.crypt],
               entries' = Append(entries, e)
        PROVE  EncryptedPaths \subseteq EncryptedPaths'
    <3>1. PICK S : S = [path : streams, crypt : {q.crypt : q \in Rows}]
      OBVIOUS
    <3>2. entries \in Seq(S) /\ e \in S
      BY <2>3, <3>1, ResolveFindsStreams DEF Inv, Typed
    <3> QED BY <2>3, <3>2, AppendedPath
  <2> QED BY <2>1, <2>2, <2>3
<1>3. Named'
  BY <1>1 DEF Whereabouts, Named
<1>4. Borne'
  BY <1>1, <1>2 DEF Whereabouts, Borne, Collected
<1>5. Near(recent)'
  <2>1. r.path \in Names
    BY ClassifyAssumption DEF Names
  <2>2. Near(recent) /\ Near(Resolve(r.path).cache)
    BY <2>1, ResolveKeepsNear DEF Whereabouts
  <2> QED BY <1>1, <2>2 DEF Near
<1> QED BY <1>3, <1>4, <1>5 DEF Whereabouts

LEMMA WhereAtFirst == Init => Whereabouts
<1> SUFFICES ASSUME Init PROVE Whereabouts
  OBVIOUS
<1>1. archive = <<>> /\ Collected = {}
  BY DEF Init, Collected
<1> QED BY <1>1, ClassifyAssumption DEF Init, Whereabouts, Named, Borne, Near

LEMMA WhereStep == Inv /\ Whereabouts /\ [Next]_vars => Whereabouts'
<1> SUFFICES ASSUME Inv, Whereabouts, [Next]_vars PROVE Whereabouts'
  OBVIOUS
<1>1. ASSUME UNCHANGED <<archive, folders, streams, recent, entries>>,
             verdict' = "collecting" => verdict = "collecting",
             mode' = mode \/ mode' = Mode
      PROVE  Whereabouts'
  <2>1. Collected' = Collected /\ EncryptedPaths' = EncryptedPaths
    BY <1>1 DEF Collected, EncryptedPaths
  <2>2. mode' = "wholesome" => <<Package>> \in EncryptedPaths
    BY <1>1 DEF Mode, Whereabouts, Borne
  <2> QED BY <1>1, <2>1, <2>2 DEF Whereabouts, Named, Borne, Near
<1>2. CASE Conclude
  BY <1>1, <1>2 DEF Conclude, tree, found
<1>3. CASE Done \/ UNCHANGED vars
  BY <1>1, <1>3 DEF Done, vars
<1>4. \A f \in Families : f.members \subseteq Members /\ f.rows \subseteq Rows
  BY DEF Members, Rows
<1> QED BY <1>2, <1>3, <1>4, MemberAdded, TreeBuilt, RowRead DEF Next

LEMMA AlwaysWhere == Spec => []Whereabouts
BY WhereAtFirst, WhereStep, Always, PTL DEF Spec

\* However rows are resolved, and with the folder one level too shallow that a
\* folder row leaves behind, the cache holds folders of the tree, each the one its
\* key names or the one above (FolderTree.recent).
THEOREM TheCacheStaysNear == Spec => []CacheStaysNear
<1>1. Whereabouts => CacheStaysNear
  BY DEF Whereabouts, Near, CacheStaysNear
<1> QED BY <1>1, AlwaysWhere, PTL

\* What decrypt::wholesome_row takes for granted of a wholesome package: a row for
\* encrypted-package, a root stream, and a member of the archive that bears it.
THEOREM WholesomeAlwaysHasPayload == Spec => []WholesomeHasPayload
<1>1. Inv /\ Whereabouts => WholesomeHasPayload
  <2> SUFFICES ASSUME Inv, Whereabouts, mode = "wholesome"
               PROVE  /\ <<Package>> \in EncryptedPaths /\ <<Package>> \in streams
                      /\ MemberFor(<<Package>>) # {}
    BY DEF WholesomeHasPayload
  <2>1. <<Package>> \in EncryptedPaths /\ <<Package>> \in streams
    BY DEF Inv, Marked, Whereabouts, Borne
  <2>2. PICK i \in Collected : /\ ValidName(archive[i].name)
                               /\ <<Package>> \in StreamsOf(archive[i].name)
    BY <2>1 DEF Whereabouts, Borne
  <2>3. archive[i].name = <<Package>>
    BY <2>2, MemberNamed, RootStream DEF Whereabouts
  <2> DEFINE T == {j \in 1..Len(archive) : MatchesPath(archive[j].name, <<Package>>)}
  <2>4. i \in T /\ T \subseteq Nat
    BY <2>2, <2>3 DEF Collected, MatchesPath
  <2>5. PICK j \in T : \A k \in T : j <= k
    BY <2>4, Least, Zenon
  <2>6. ASSUME NEW k \in 1..(j - 1) PROVE ~MatchesPath(archive[k].name, <<Package>>)
    <3>1. k \in 1..Len(archive) /\ ~(j <= k)
      BY <2>5 DEF Whereabouts, Named
    <3>2. k \notin T
      BY <2>5, <3>1
    <3> QED BY <3>1, <3>2
  <2>7. j \in MemberFor(<<Package>>)
    BY <2>5, <2>6 DEF MemberFor
  <2> QED BY <2>1, <2>7
<1> QED BY <1>1, Always, AlwaysWhere, PTL
=============================================================================
