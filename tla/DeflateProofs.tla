---------------------------- MODULE DeflateProofs ----------------------------
(***************************************************************************)
(* What DeflateWriter::adaptive puts out decodes to what was written, and  *)
(* no match of its compressor reaches across stored bytes, for every size  *)
(* of a chunk and of a stored block.                                       *)
(*                                                                         *)
(* The invariant says what a compressor that is not compressing is: empty, *)
(* on a byte boundary, with nothing in its dictionary.  It is what lets a  *)
(* second chunk be stored without another flush.                           *)
(*                                                                         *)
(* How much of the output carries no input is bounded by a second one,     *)
(* which owes a compressor that is compressing the flush before the next   *)
(* stored chunk.                                                           *)
(***************************************************************************)
EXTENDS DeflateStream, TLAPS

Block ==
  [kind : {"compressed"}, from : Nat, to : Nat, since : Nat]
  \cup [kind : {"stored"}, from : Nat, to : Nat, length : Nat, aligned : BOOLEAN]

Honest(block) ==
  /\ block.from < block.to
  /\ block.kind = "stored" => block.aligned /\ block.length = block.to - block.from

\* The blocks b carry the bytes from `first` up to `last`, each where the one
\* before it ended.
Carries(b, first, last) ==
  /\ b \in Seq(Block)
  /\ \A i \in 1..Len(b) :
       /\ Honest(b[i]) /\ first <= b[i].from /\ b[i].to <= last
       /\ b[i].from = IF i = 1 THEN first ELSE b[i - 1].to
  /\ \A i, j \in 1..Len(b) : i < j => b[i].to <= b[j].from
  /\ last = IF Len(b) = 0 THEN first ELSE b[Len(b)].to

\* What the compressor remembers begins after every stored block: of those now
\* written, and for each of its own blocks, of those before it.
Forgets(b, now) ==
  /\ \A j \in 1..Len(b) : b[j].kind = "stored" => b[j].to <= now
  /\ \A i, j \in 1..Len(b) :
       j < i /\ b[i].kind = "compressed" /\ b[j].kind = "stored" => b[j].to <= b[i].since

LEMMA NothingCarried == ASSUME NEW first \in Nat PROVE Carries(<<>>, first, first) /\ Forgets(<<>>, first)
BY DEF Carries, Forgets

\* What follows on carries on.
LEMMA CarriesOn ==
  ASSUME NEW b, NEW c, NEW first \in Nat, NEW middle \in Nat, NEW last \in Nat,
         Carries(b, first, middle), Carries(c, middle, last)
  PROVE  Carries(b \o c, first, last)
<1>1. b \in Seq(Block) /\ c \in Seq(Block)
  BY DEF Carries
<1> DEFINE d == b \o c
<1>2. /\ d \in Seq(Block) /\ Len(d) = Len(b) + Len(c)
      /\ \A i \in 1..Len(b) : d[i] = b[i]
      /\ \A i \in (Len(b) + 1)..Len(d) : d[i] = c[i - Len(b)]
      /\ Len(b) \in Nat /\ Len(c) \in Nat
  BY <1>1
<1>3. /\ \A i \in 1..Len(b) : b[i].from \in Nat /\ b[i].to \in Nat
      /\ \A i \in 1..Len(c) : c[i].from \in Nat /\ c[i].to \in Nat
  BY <1>1 DEF Block
<1>4. first <= middle /\ middle <= last
  BY <1>2, <1>3 DEF Carries, Honest
<1> HIDE DEF d
<1>5. ASSUME NEW i \in 1..Len(d)
      PROVE  /\ Honest(d[i]) /\ first <= d[i].from /\ d[i].to <= last
             /\ d[i].from = IF i = 1 THEN first ELSE d[i - 1].to
  <2>1. CASE i \in 1..Len(b)
    <3>1. d[i] = b[i] /\ (i # 1 => d[i - 1] = b[i - 1])
      BY <1>2, <2>1, SMTT(30)
    <3> QED BY <1>3, <1>4, <2>1, <3>1 DEF Carries
  <2>2. CASE i = Len(b) + 1
    <3>1. d[i] = c[1] /\ 1 \in 1..Len(c) /\ (i # 1 => d[i - 1] = b[Len(b)])
      BY <1>2, <2>2
    <3>2. Honest(c[1]) /\ middle <= c[1].from /\ c[1].to <= last /\ c[1].from = middle
      BY <3>1 DEF Carries
    <3>3. middle = IF Len(b) = 0 THEN first ELSE b[Len(b)].to
      BY DEF Carries
    <3> QED BY <1>2, <1>3, <1>4, <2>2, <3>1, <3>2, <3>3
  <2>3. CASE i \in (Len(b) + 2)..Len(d)
    <3> DEFINE k == i - Len(b)
    <3>0. /\ i \in (Len(b) + 1)..Len(d) /\ i - 1 \in (Len(b) + 1)..Len(d) /\ i # 1
          /\ (i - 1) - Len(b) = k - 1 /\ k \in 1..Len(c) /\ k # 1
      BY <1>2, <2>3
    <3>1. d[i] = c[k] /\ d[i - 1] = c[k - 1] /\ k \in 1..Len(c) /\ k # 1 /\ i # 1
      <4>1. d[i - 1] = c[(i - 1) - Len(b)]
        BY <1>2, <3>0
      <4>2. c[(i - 1) - Len(b)] = c[k - 1]
        BY <3>0
      <4> QED BY <1>2, <3>0, <4>1, <4>2
    <3> HIDE DEF k
    <3>2. Honest(c[k]) /\ middle <= c[k].from /\ c[k].to <= last /\ c[k].from = c[k - 1].to
      BY <3>1 DEF Carries
    <3>3. first <= c[k].from
      BY <1>3, <1>4, <3>1, <3>2
    <3> QED BY <3>1, <3>2, <3>3
  <2> QED BY <1>2, <2>1, <2>2, <2>3
<1>6. ASSUME NEW i \in 1..Len(d), NEW j \in 1..Len(d), i < j
      PROVE  d[i].to <= d[j].from
  <2>1. CASE j \in 1..Len(b)
    <3>1. i \in 1..Len(b) /\ d[i] = b[i] /\ d[j] = b[j]
      BY <1>2, <1>6, <2>1
    <3> QED BY <1>6, <2>1, <3>1 DEF Carries
  <2>2. CASE i \in 1..Len(b) /\ j \in (Len(b) + 1)..Len(d)
    <3>1. d[i] = b[i] /\ d[j] = c[j - Len(b)] /\ j - Len(b) \in 1..Len(c)
      BY <1>2, <2>2
    <3>2. b[i].to <= middle /\ middle <= c[j - Len(b)].from
      BY <2>2, <3>1 DEF Carries
    <3> QED BY <1>3, <2>2, <3>1, <3>2, SMTT(30)
  <2>3. CASE i \in (Len(b) + 1)..Len(d)
    <3>1. j \in (Len(b) + 1)..Len(d)
      BY <1>2, <1>6, <2>3
    <3>2. d[i] = c[i - Len(b)] /\ d[j] = c[j - Len(b)]
      BY <1>2, <2>3, <3>1
    <3>3. i - Len(b) \in 1..Len(c) /\ j - Len(b) \in 1..Len(c) /\ i - Len(b) < j - Len(b)
      BY <1>2, <1>6, <2>3, <3>1
    <3> QED BY <3>2, <3>3 DEF Carries
  <2> QED BY <1>2, <1>6, <2>1, <2>2, <2>3
<1>7. last = IF Len(d) = 0 THEN first ELSE d[Len(d)].to
  <2>1. CASE Len(c) = 0
    <3>1. middle = last /\ Len(d) = Len(b)
      BY <1>2, <2>1 DEF Carries
    <3>2. Len(b) # 0 => d[Len(b)] = b[Len(b)]
      BY <1>2
    <3> QED BY <3>1, <3>2 DEF Carries
  <2>2. CASE Len(c) # 0
    <3>1. last = c[Len(c)].to
      BY <2>2 DEF Carries
    <3>2. Len(d) \in (Len(b) + 1)..Len(d) /\ Len(d) - Len(b) = Len(c) /\ Len(d) # 0
      BY <1>2, <2>2
    <3>3. d[Len(d)] = c[Len(d) - Len(b)]
      BY <1>2, <3>2
    <3> QED BY <3>1, <3>2, <3>3
  <2> QED BY <2>1, <2>2
<1>8. Carries(d, first, last)
  BY <1>2, <1>5, <1>6, <1>7 DEF Carries
<1> QED BY <1>8 DEF d

LEMMA CarriesOne ==
  ASSUME NEW block \in Block, Honest(block)
  PROVE  Carries(<<block>>, block.from, block.to)
<1>1. /\ <<block>> \in Seq(Block) /\ Len(<<block>>) = 1 /\ <<block>>[1] = block
      /\ block.from \in Nat /\ block.to \in Nat
  BY DEF Block
<1> QED BY <1>1 DEF Carries, Honest

LEMMA Monotone ==
  ASSUME NEW i \in Nat, NEW j \in Nat, NEW n \in Nat, i <= j
  PROVE  i * n <= j * n
<1>1. j - i \in Nat /\ (j - i) * n >= 0
  BY SMT
<1>2. j * n = i * n + (j - i) * n
  BY <1>1
<1> QED BY <1>1, <1>2

\* How many blocks of d bytes n bytes need.
LEMMA BlocksNeeded ==
  ASSUME NEW n \in Nat \ {0}, NEW d \in Nat \ {0}
  PROVE  LET m == (n + d - 1) \div d IN
         m \in Nat \ {0} /\ n <= m * d /\ (m - 1) * d < n
<1> DEFINE a == n + d - 1
           m == a \div d
<1>1. a \in Nat /\ a >= d
  OBVIOUS
<1>2. d * m + (a % d) = a /\ a % d \in 0..(d - 1) /\ m \in Int
  <2> HIDE DEF a
  <2> QED BY <1>1
<1>3. m * d = d * m /\ (m - 1) * d = d * m - d
  <2> HIDE DEF m
  <2> QED BY <1>2
<1>4. m >= 1
  <2>1. d * m >= 1
    BY <1>1, <1>2
  <2>2. m <= 0 => d * m <= 0
    <3> HIDE DEF m
    <3> QED BY <1>2
  <2> QED BY <1>2, <2>1, <2>2
<1> HIDE DEF m
<1>5. m \in Nat \ {0} /\ n <= m * d /\ (m - 1) * d < n
  BY <1>1, <1>2, <1>3, <1>4
<1> QED BY <1>5 DEF m

LEMMA WithinWidth == ASSUME NEW w \in Nat, NEW n \in 0..w PROVE n % (w + 1) = n
OBVIOUS

\* chunks(STORED_BLOCK_MAX): blocks that a reader puts together again, and whose
\* lengths fit.
LEMMA StoredCarries ==
  ASSUME NEW from \in Nat, NEW n \in Nat \ {0}, compressing \/ aligned,
         compressing \in BOOLEAN, aligned \in BOOLEAN
  PROVE  /\ Carries(StoredBlocks(from, n), from, from + n)
         /\ \A k \in 1..Len(StoredBlocks(from, n)) : StoredBlocks(from, n)[k].kind = "stored"
<1> DEFINE m == (n + BlockMax - 1) \div BlockMax
           Start(k) == (k - 1) * BlockMax
           Size(k) == IF n - Start(k) < BlockMax THEN n - Start(k) ELSE BlockMax
           s == StoredBlocks(from, n)
<1>1. m \in Nat \ {0} /\ n <= m * BlockMax /\ (m - 1) * BlockMax < n
  BY ChunkAndBlock, BlocksNeeded
<1>2. s = [k \in 1..m |-> Stored(from + Start(k), Size(k))]
  BY DEF StoredBlocks
<1> HIDE DEF m, s
<1>3. BlockMax \in Nat \ {0}
  BY ChunkAndBlock
<1>4. ASSUME NEW i \in 1..m, NEW j \in 1..m, i <= j
      PROVE  Start(i) \in Nat /\ Start(j) \in Nat /\ Start(i) <= Start(j)
  <2>1. i - 1 \in Nat /\ j - 1 \in Nat /\ i - 1 <= j - 1
    BY <1>1, <1>4
  <2>2. (i - 1) * BlockMax \in Nat /\ (j - 1) * BlockMax \in Nat
    BY <1>3, <2>1
  <2> QED BY <1>3, <2>1, <2>2, Monotone
<1>5. ASSUME NEW k \in 1..m
      PROVE  /\ Start(k) \in Nat /\ Size(k) \in 1..BlockMax /\ Start(k) + Size(k) <= n
             /\ k = m => Start(k) + Size(k) = n
             /\ k # m => k + 1 \in 1..m /\ Start(k) + Size(k) = Start(k + 1)
  <2>1. Start(k) \in Nat /\ Start(m) \in Nat /\ Start(k) <= Start(m)
    BY <1>1, <1>4
  <2>2. Start(m) < n
    BY <1>1
  <2>3. Start(k + 1) = Start(k) + BlockMax
    <3>1. k \in Nat /\ (k + 1 - 1) * BlockMax = (k - 1) * BlockMax + BlockMax
      BY <1>1, <1>3
    <3> QED BY <3>1
  <2>4. CASE k = m
    <3>1. Start(k + 1) = m * BlockMax
      BY <1>1, <2>4
    <3>2. n <= Start(k) + BlockMax
      BY <1>1, <2>3, <3>1
    <3> HIDE DEF Start
    <3> QED BY <1>3, <2>1, <2>2, <2>4, <3>2
  <2>5. CASE k # m
    <3>1. k + 1 \in 1..m
      BY <1>1, <2>5
    <3>2. Start(k + 1) <= Start(m)
      BY <1>1, <1>4, <3>1
    <3> HIDE DEF Start
    <3> QED BY <1>3, <2>1, <2>2, <2>3, <2>5, <3>1, <3>2
  <2> QED BY <2>4, <2>5
<1> HIDE DEF Start, Size
<1>6. ASSUME NEW k \in 1..m
      PROVE  /\ s[k] \in Block /\ s[k].kind = "stored" /\ Honest(s[k])
             /\ s[k].from = from + Start(k) /\ s[k].to = from + Start(k) + Size(k)
  <2>1. s[k] = Stored(from + Start(k), Size(k))
    BY <1>2
  <2>2. Size(k) % (BlockMax + 1) = Size(k)
    BY <1>3, <1>5, WithinWidth
  <2>3. (compressing \/ aligned) \in BOOLEAN
    OBVIOUS
  <2> QED BY <1>3, <1>5, <2>1, <2>2, <2>3 DEF Stored, Honest, Block
<1>7. s \in Seq(Block) /\ Len(s) = m
  BY <1>1, <1>2, <1>6
<1>8. Start(1) = 0
  BY <1>3 DEF Start
<1>9. ASSUME NEW k \in 1..m
      PROVE  /\ from <= s[k].from /\ s[k].to <= from + n
             /\ s[k].from = IF k = 1 THEN from ELSE s[k - 1].to
  <2>1. from <= s[k].from /\ s[k].to <= from + n
    BY <1>5, <1>6
  <2>2. CASE k = 1
    BY <1>6, <1>8, <2>1, <2>2
  <2>3. CASE k # 1
    <3>1. k - 1 \in 1..m /\ k - 1 # m /\ (k - 1) + 1 = k
      BY <1>1, <2>3
    <3>2. s[k - 1].to = from + Start(k - 1) + Size(k - 1)
      BY <1>6, <3>1
    <3>3. /\ Start(k - 1) \in Nat /\ Size(k - 1) \in Nat
          /\ Start(k - 1) + Size(k - 1) = Start(k)
      BY <1>5, <3>1
    <3> QED BY <1>6, <2>1, <2>3, <3>2, <3>3
  <2> QED BY <2>2, <2>3
<1>10. ASSUME NEW i \in 1..m, NEW j \in 1..m, i < j
       PROVE  s[i].to <= s[j].from
  <2>1. i # m /\ i + 1 \in 1..m /\ i + 1 <= j
    BY <1>1, <1>10
  <2>2. Start(i + 1) <= Start(j) /\ Start(i + 1) = Start(i) + Size(i)
    BY <1>4, <1>5, <2>1
  <2>3. Start(j) \in Nat /\ Start(i) \in Nat /\ Size(i) \in Nat
    BY <1>5
  <2> QED BY <1>6, <2>2, <2>3
<1>11. from + n = s[m].to
  BY <1>1, <1>5, <1>6
<1>12. Carries(s, from, from + n)
  BY <1>1, <1>6, <1>7, <1>9, <1>10, <1>11 DEF Carries
<1> QED BY <1>6, <1>7, <1>12 DEF s

LEMMA Joined ==
  ASSUME NEW b \in Seq(Block), NEW c \in Seq(Block)
  PROVE  /\ Len(b \o c) = Len(b) + Len(c)
         /\ \A k \in 1..Len(b \o c) :
              \/ k \in 1..Len(b) /\ (b \o c)[k] = b[k]
              \/ k > Len(b) /\ k - Len(b) \in 1..Len(c) /\ (b \o c)[k] = c[k - Len(b)]
OBVIOUS

\* Stored blocks: the dictionary holds nothing from before them.
LEMMA ForgetsStored ==
  ASSUME NEW b, NEW c, NEW first \in Nat, NEW middle \in Nat, NEW last \in Nat, NEW now \in Nat,
         Carries(b, first, middle), Carries(c, middle, last), Forgets(b, now),
         \A k \in 1..Len(c) : c[k].kind = "stored"
  PROVE  Forgets(b \o c, last)
<1> DEFINE d == b \o c
<1>1. b \in Seq(Block) /\ c \in Seq(Block)
  BY DEF Carries
<1>2. /\ Len(d) = Len(b) + Len(c) /\ Len(b) \in Nat /\ Len(c) \in Nat
      /\ \A k \in 1..Len(d) :
           \/ k \in 1..Len(b) /\ d[k] = b[k]
           \/ k > Len(b) /\ k - Len(b) \in 1..Len(c) /\ d[k] = c[k - Len(b)]
  BY <1>1, Joined
<1>3. Carries(d, first, last)
  BY CarriesOn
<1> HIDE DEF d
<1>4. ASSUME NEW j \in 1..Len(d)
      PROVE  d[j].to <= last
  BY <1>3 DEF Carries
<1>5. ASSUME NEW i \in 1..Len(d), NEW j \in 1..Len(d), j < i,
             d[i].kind = "compressed", d[j].kind = "stored"
      PROVE  d[j].to <= d[i].since
  <2>1. i \in 1..Len(b) /\ d[i] = b[i]
    BY <1>2, <1>5
  <2>2. j \in 1..Len(b) /\ d[j] = b[j]
    BY <1>2, <1>5, <2>1
  <2> QED BY <1>5, <2>1, <2>2 DEF Forgets
<1>6. Forgets(d, last)
  BY <1>4, <1>5 DEF Forgets
<1> QED BY <1>6 DEF d

\* What the compressor puts out refers to what it has now.
LEMMA PutsOut ==
  ASSUME NEW to \in Nat, emitted \in Nat, emitted <= to, since \in Nat,
         Carries(blocks, 0, emitted), Forgets(blocks, since)
  PROVE  Carries(PutOut(to), 0, to) /\ Forgets(PutOut(to), since)
<1>1. CASE to = emitted
  BY <1>1 DEF PutOut
<1>2. CASE to # emitted
  <2> DEFINE new == Compressed(emitted, to)
             d == blocks \o <<new>>
  <2>1. new \in Block /\ Honest(new) /\ new.from = emitted /\ new.to = to
        /\ new.kind = "compressed" /\ new.since = since
    BY <1>2 DEF Compressed, Block, Honest
  <2> HIDE DEF new
  <2>2. blocks \in Seq(Block) /\ <<new>> \in Seq(Block) /\ Len(<<new>>) = 1 /\ <<new>>[1] = new
    BY <2>1 DEF Carries
  <2>3. PutOut(to) = d
    BY <1>2, <2>2 DEF PutOut, new
  <2>4. Carries(d, 0, to)
    BY <2>1, CarriesOne, CarriesOn
  <2>5. /\ Len(d) = Len(blocks) + 1 /\ Len(blocks) \in Nat
        /\ \A k \in 1..Len(d) :
             \/ k \in 1..Len(blocks) /\ d[k] = blocks[k]
             \/ k = Len(d) /\ d[k] = new
    <3>1. /\ Len(d) = Len(blocks) + 1
          /\ \A k \in 1..Len(d) :
               \/ k \in 1..Len(blocks) /\ d[k] = blocks[k]
               \/ k > Len(blocks) /\ k - Len(blocks) \in 1..1 /\ d[k] = <<new>>[k - Len(blocks)]
      BY <2>2, Joined
    <3> HIDE DEF d
    <3> QED BY <2>2, <3>1
  <2> HIDE DEF d
  <2>6. ASSUME NEW j \in 1..Len(d), d[j].kind = "stored"
        PROVE  j \in 1..Len(blocks) /\ d[j] = blocks[j] /\ d[j].to <= since
    <3>1. j \in 1..Len(blocks) /\ d[j] = blocks[j]
      BY <2>1, <2>5, <2>6
    <3> QED BY <2>6, <3>1 DEF Forgets
  <2>7. ASSUME NEW i \in 1..Len(d), NEW j \in 1..Len(d), j < i,
               d[i].kind = "compressed", d[j].kind = "stored"
        PROVE  d[j].to <= d[i].since
    <3>1. CASE d[i] = new
      BY <2>1, <2>6, <2>7, <3>1
    <3>2. CASE i \in 1..Len(blocks) /\ d[i] = blocks[i]
      BY <2>6, <2>7, <3>2 DEF Forgets
    <3> QED BY <2>5, <3>1, <3>2
  <2>8. Forgets(d, since)
    BY <2>6, <2>7 DEF Forgets
  <2> QED BY <2>3, <2>4, <2>8
<1> QED BY <1>1, <1>2

-----------------------------------------------------------------------------
Counts ==
  /\ {consumed, rest, held, taken, emitted, since} \subseteq Nat
  /\ taken + held + rest = consumed /\ emitted <= taken
  /\ phase \in {"open", "finishing", "ended"}
  /\ phase # "open" => rest = 0
  /\ phase = "ended" => held = 0 /\ emitted = taken

Flags == compressing \in BOOLEAN /\ aligned \in BOOLEAN

\* A compressor that is not compressing is as good as new.
Fresh == ~compressing => aligned /\ since = taken /\ emitted = taken

Sound == Counts /\ Flags /\ Fresh /\ Carries(blocks, 0, emitted) /\ Forgets(blocks, since)

LEMMA SoundAtFirst == DeflateInit => Sound
<1> SUFFICES ASSUME DeflateInit PROVE Sound
  OBVIOUS
<1>1. Carries(blocks, 0, emitted) /\ Forgets(blocks, since)
  BY NothingCarried DEF DeflateInit
<1>2. Counts
  BY DEF DeflateInit, Counts
<1>3. Flags /\ Fresh
  BY DEF DeflateInit, Flags, Fresh
<1> QED BY <1>1, <1>2, <1>3 DEF Sound

LEMMA SoundReleaseCompressed == Sound /\ ReleaseCompressed => Sound'
<1> SUFFICES ASSUME Sound, ReleaseCompressed PROVE Sound'
  OBVIOUS
<1>1. PICK to \in {emitted, taken + held} : Emit(to)
  BY DEF ReleaseCompressed
<1>2. /\ to \in Nat /\ emitted <= to /\ to <= taken + held /\ emitted' = to
      /\ blocks' = PutOut(to) /\ since' = since
  BY <1>1 DEF Sound, Counts, Emit, ReleaseCompressed
<1>3. Carries(blocks', 0, emitted') /\ Forgets(blocks', since')
  BY <1>2, PutsOut DEF Sound, Counts
<1>4. Counts'
  BY <1>2 DEF Sound, Counts, ReleaseCompressed, Due
<1>5. Flags' /\ Fresh'
  BY DEF Sound, Flags, Fresh, ReleaseCompressed
<1> QED BY <1>3, <1>4, <1>5 DEF Sound

LEMMA SoundReleaseStored == Sound /\ ReleaseStored => Sound'
<1> SUFFICES ASSUME Sound, ReleaseStored PROVE Sound'
  OBVIOUS
<1> DEFINE flushed == IF compressing THEN PutOut(taken) ELSE blocks
           stored == StoredBlocks(taken, held)
<1>1. /\ taken \in Nat /\ held \in Nat \ {0} /\ since \in Nat /\ emitted \in Nat
      /\ taken + held \in Nat /\ 0 \in Nat /\ emitted <= taken
  BY DEF Sound, Counts, ReleaseStored, Due
<1>2. compressing \in BOOLEAN /\ aligned \in BOOLEAN /\ (compressing \/ aligned)
  BY DEF Sound, Flags, Fresh
<1>3. ~compressing => since = taken /\ emitted = taken
  BY DEF Sound, Fresh
<1>4. Carries(flushed, 0, taken) /\ Forgets(flushed, since)
  <2>1. CASE compressing
    <3>1. Carries(PutOut(taken), 0, taken) /\ Forgets(PutOut(taken), since)
      BY <1>1, PutsOut DEF Sound
    <3> QED BY <2>1, <3>1
  <2>2. CASE ~compressing
    BY <1>3, <2>2 DEF Sound
  <2> QED BY <2>1, <2>2
<1>5. Carries(stored, taken, taken + held) /\ \A k \in 1..Len(stored) : stored[k].kind = "stored"
  BY <1>1, <1>2, StoredCarries, Zenon
<1>6. since' = taken + held
  <2>1. compressing => since' = taken + held
    BY DEF ReleaseStored, Forgotten
  <2>2. ~compressing => since' = taken + held
    BY <1>3 DEF ReleaseStored
  <2> QED BY <2>1, <2>2
<1>7. blocks' = flushed \o stored /\ emitted' = taken + held
  BY DEF ReleaseStored
<1> HIDE DEF flushed, stored
<1>8. Carries(flushed \o stored, 0, taken + held)
  BY <1>1, <1>4, <1>5, CarriesOn, Zenon
<1>9. Forgets(flushed \o stored, taken + held)
  BY <1>1, <1>4, <1>5, ForgetsStored, Zenon
<1>10. Carries(blocks', 0, emitted') /\ Forgets(blocks', since')
  BY <1>6, <1>7, <1>8, <1>9, Zenon
<1>11. Counts'
  BY <1>1, <1>6, <1>7 DEF Sound, Counts, ReleaseStored
<1>12. Flags' /\ Fresh'
  <2>1. compressing' = FALSE /\ aligned' = (compressing \/ aligned) /\ taken' = taken + held
    BY DEF ReleaseStored
  <2> QED BY <1>2, <1>6, <1>7, <2>1, Zenon DEF Flags, Fresh
<1> QED BY <1>10, <1>11, <1>12 DEF Sound

LEMMA SoundStep == Sound /\ [DeflateNext]_deflater => Sound'
<1> SUFFICES ASSUME Sound, [DeflateNext]_deflater PROVE Sound'
  OBVIOUS
<1>1. CASE (\E n \in 1..MaxInput : Accept(n)) \/ FinishDeflate \/ Gather \/ UNCHANGED deflater
  <2>1. UNCHANGED <<compressing, taken, emitted, since, aligned, blocks>>
    BY <1>1, Zenon DEF Accept, FinishDeflate, Gather, deflater
  <2>2. Counts'
    BY <1>1, ChunkAndBlock DEF Sound, Counts, Accept, FinishDeflate, Gather, deflater
  <2>3. Flags' /\ Fresh' /\ Carries(blocks', 0, emitted') /\ Forgets(blocks', since')
    BY <2>1, Zenon DEF Sound, Flags, Fresh
  <2> QED BY <2>2, <2>3 DEF Sound
<1>2. CASE ReleaseCompressed
  BY <1>2, SoundReleaseCompressed
<1>3. CASE ReleaseStored
  BY <1>3, SoundReleaseStored
<1>4. CASE EndDeflate
  <2>1. emitted' = taken /\ blocks' = PutOut(taken) /\ since' = since /\ taken' = taken
    BY <1>4 DEF EndDeflate, Emit
  <2>2. Carries(blocks', 0, emitted') /\ Forgets(blocks', since')
    BY <2>1, PutsOut DEF Sound, Counts
  <2>3. Counts'
    BY <1>4, <2>1 DEF Sound, Counts, EndDeflate
  <2>4. aligned' = TRUE /\ compressing' = compressing
    BY <1>4 DEF EndDeflate
  <2>5. Flags' /\ Fresh'
    BY <2>1, <2>4, Zenon DEF Sound, Flags, Fresh
  <2> QED BY <2>2, <2>3, <2>5 DEF Sound
<1> QED BY <1>1, <1>2, <1>3, <1>4 DEF DeflateNext, Deflating, Release

LEMMA AlwaysSound == DeflateSpec => []Sound
BY SoundAtFirst, SoundStep, PTL DEF DeflateSpec

LEMMA SoundDecodes == Sound => Decodes
<1> SUFFICES ASSUME Sound PROVE Decodes
  OBVIOUS
<1>1. DOMAIN blocks = 1..Len(blocks) /\ Len(blocks) \in Nat /\ (blocks = <<>> <=> Len(blocks) = 0)
  BY DEF Sound, Carries
<1>2. Carries(blocks, 0, emitted)
  BY DEF Sound
<1>3. phase = "ended" => emitted = consumed
  BY DEF Sound, Counts
<1> QED BY <1>1, <1>2, <1>3 DEF Decodes, Carries, Honest

LEMMA SoundReach == Sound => NoReachBack
<1> SUFFICES ASSUME Sound, NEW i \in DOMAIN blocks, NEW j \in DOMAIN blocks,
                    blocks[i].kind = "compressed", blocks[j].kind = "stored",
                    blocks[i].since <= blocks[j].from, blocks[j].to <= blocks[i].from
             PROVE  FALSE
  BY DEF NoReachBack
<1>1. blocks \in Seq(Block) /\ i \in 1..Len(blocks) /\ j \in 1..Len(blocks)
  BY DEF Sound, Carries
<1>2. /\ blocks[i] \in Block /\ blocks[j] \in Block
      /\ blocks[i].from < blocks[i].to /\ blocks[j].from < blocks[j].to
  BY <1>1 DEF Sound, Carries, Honest
<1>3. /\ blocks[i].from \in Nat /\ blocks[i].to \in Nat /\ blocks[i].since \in Nat
      /\ blocks[j].from \in Nat /\ blocks[j].to \in Nat
  BY <1>2 DEF Block
<1>4. CASE i < j
  <2>1. blocks[i].to <= blocks[j].from
    BY <1>1, <1>4 DEF Sound, Carries
  <2> QED BY <1>2, <1>3, <2>1
<1>5. CASE j < i
  <2>1. blocks[j].to <= blocks[i].since
    BY <1>1, <1>5 DEF Sound, Forgets
  <2> QED BY <1>2, <1>3, <2>1
<1>6. i # j
  OBVIOUS
<1> QED BY <1>1, <1>4, <1>5, <1>6

-----------------------------------------------------------------------------
\* However the chunks fall and whichever are stored, the blocks decode to what
\* was written.
THEOREM DeflateDecodes == DeflateSpec => []Decodes
BY AlwaysSound, SoundDecodes, PTL

\* And no match reaches back across a stored block.
THEOREM DeflateReach == DeflateSpec => []NoReachBack
BY AlwaysSound, SoundReach, PTL

-----------------------------------------------------------------------------
\* Whole blocks of d bytes in n bytes.
LEMMA WholeBlocks ==
  ASSUME NEW n \in Nat, NEW d \in Nat \ {0}
  PROVE  n \div d \in Nat /\ d * (n \div d) <= n /\ n < d * (n \div d) + d
<1>1. d * (n \div d) + (n % d) = n /\ n % d \in 0..(d - 1) /\ n \div d \in Nat
  OBVIOUS
<1> QED BY <1>1

\* Of two lots together there are as many as of each, or one more.
LEMMA BlocksAdd ==
  ASSUME NEW a \in Nat, NEW b \in Nat, NEW d \in Nat \ {0}
  PROVE  a \div d + b \div d <= (a + b) \div d
<1>1. PICK p, q, r : p = a \div d /\ q = b \div d /\ r = (a + b) \div d
  OBVIOUS
<1>2. /\ p \in Nat /\ d * p <= a /\ q \in Nat /\ d * q <= b
      /\ r \in Nat /\ a + b < d * r + d
  <2>1. a + b \in Nat
    OBVIOUS
  <2> QED BY <1>1, <2>1, WholeBlocks
<1>3. CASE p + q > r
  <2>1. r + 1 \in Nat /\ p + q \in Nat /\ r + 1 <= p + q
    BY <1>2, <1>3
  <2>2. (r + 1) * d <= (p + q) * d
    BY <2>1, Monotone
  <2>3. (r + 1) * d = d * r + d /\ (p + q) * d = d * p + d * q
    BY <1>2
  <2>4. d * r \in Nat /\ d * p \in Nat /\ d * q \in Nat
    BY <1>2
  <2> QED BY <1>2, <2>2, <2>3, <2>4
<1> QED BY <1>1, <1>2, <1>3

\* One block more than the whole ones, at most.
LEMMA OneBlockMore ==
  ASSUME NEW n \in Nat \ {0}, NEW d \in Nat \ {0}
  PROVE  /\ (n + d - 1) \div d <= n \div d + 1
         /\ d <= n => 1 <= n \div d
<1>1. PICK m, w : m = (n + d - 1) \div d /\ w = n \div d
  OBVIOUS
<1>2. m \in Nat \ {0} /\ (m - 1) * d < n
  BY <1>1, BlocksNeeded
<1>3. w \in Nat /\ d * w <= n /\ n < d * w + d
  BY <1>1, WholeBlocks
<1>4. d * w \in Nat
  BY <1>3
<1>5. CASE m > w + 1
  <2>1. (w + 1) * d <= (m - 1) * d
    <3>1. w + 1 \in Nat /\ m - 1 \in Nat /\ w + 1 <= m - 1
      BY <1>2, <1>3, <1>5
    <3> QED BY <3>1, Monotone
  <2>2. (w + 1) * d = d * w + d /\ (m - 1) * d \in Int
    BY <1>2, <1>3
  <2> QED BY <1>2, <1>3, <1>4, <2>1, <2>2
<1>6. d <= n => 1 <= w
  <2>1. w = 0 => d * w = 0
    OBVIOUS
  <2> QED BY <1>3, <2>1
<1> QED BY <1>1, <1>2, <1>3, <1>5, <1>6

\* How many stored blocks a chunk makes.
LEMMA StoredLength ==
  ASSUME NEW from \in Nat, NEW n \in Nat \ {0}
  PROVE  Len(StoredBlocks(from, n)) = (n + BlockMax - 1) \div BlockMax
<1>1. PICK m : m = (n + BlockMax - 1) \div BlockMax
  OBVIOUS
<1>2. m \in Nat
  BY <1>1, BlocksNeeded, ChunkAndBlock
<1>3. DOMAIN StoredBlocks(from, n) = 1..m
  BY <1>1 DEF StoredBlocks
<1>4. StoredBlocks(from, n) = [k \in 1..m |-> StoredBlocks(from, n)[k]]
  BY <1>1 DEF StoredBlocks
<1> QED BY <1>1, <1>2, <1>3, <1>4

-----------------------------------------------------------------------------
\* The bytes a chunk may cost before it is released: ten for every whole stored
\* block of what the compressor has taken, of which the next flush is owed six;
\* the last, partial chunk costs one block more, and the end of the stream six.
Owed == IF compressing THEN 6 ELSE 0

Thrifty ==
  /\ overhead \in Nat
  /\ phase = "open" \/ held > 0 => overhead + Owed <= 10 * (taken \div BlockMax)
  /\ phase = "finishing" => overhead + Owed <= 10 * (taken \div BlockMax) + 11
  /\ phase = "ended" => overhead <= 10 * (consumed \div BlockMax) + 17

LEMMA ThriftyStep ==
  ASSUME BlockMax <= Chunk, Sound, Thrifty, [DeflateNext]_deflater
  PROVE  Thrifty'
<1> USE DEF Sound, Counts, Flags
<1>0. /\ consumed \in Nat /\ rest \in Nat /\ held \in Nat /\ taken \in Nat
      /\ taken + held + rest = consumed /\ phase \in {"open", "finishing", "ended"}
      /\ compressing \in BOOLEAN /\ Chunk \in Nat \ {0} /\ BlockMax \in Nat \ {0}
  BY ChunkAndBlock
<1> HIDE DEF Sound, Counts, Flags
<1>1. PICK now : now = 10 * (taken \div BlockMax)
  OBVIOUS
<1>2. now \in Nat
  BY <1>0, <1>1, WholeBlocks
<1>3. ASSUME NEW n \in 1..MaxInput, Accept(n) PROVE Thrifty'
  BY <1>0, <1>3 DEF Thrifty, Accept, Owed
<1>4. CASE FinishDeflate
  BY <1>0, <1>1, <1>2, <1>4 DEF Thrifty, FinishDeflate, Owed
<1>5. CASE Gather
  BY <1>0, <1>1, <1>2, <1>5 DEF Thrifty, Gather, Owed, Sound, Counts
<1>6. CASE Release
  <2>1. /\ Due /\ held' = 0 /\ taken' = taken + held /\ UNCHANGED <<consumed, phase>>
    BY <1>6 DEF Release, ReleaseCompressed, ReleaseStored
  <2>2. /\ held \in Nat \ {0} /\ phase \in {"open", "finishing"}
        /\ phase = "open" => held = Chunk
        /\ overhead + Owed <= now /\ overhead \in Nat
    BY <1>0, <1>1, <2>1 DEF Due, Thrifty, Sound, Counts
  <2>3. PICK more, then : more = held \div BlockMax /\ then = taken' \div BlockMax
    OBVIOUS
  <2>4. more \in Nat /\ then \in Nat /\ now + 10 * more <= 10 * then
    <3>1. taken \div BlockMax + more <= then
      BY <1>0, <2>1, <2>2, <2>3, BlocksAdd
    <3>2. more \in Nat /\ then \in Nat /\ taken \div BlockMax \in Nat
      BY <1>0, <2>1, <2>2, <2>3, WholeBlocks
    <3> QED BY <1>1, <3>1, <3>2
  <2>5. phase = "open" => 1 <= more
    BY <1>0, <2>2, <2>3, OneBlockMore
  <2>7. CASE ReleaseCompressed
    <3>1. overhead' = overhead /\ Owed' = 6
      BY <2>7 DEF ReleaseCompressed, Owed
    <3>2. overhead <= now
      BY <1>2, <2>2 DEF Owed
    <3> QED BY <1>2, <2>1, <2>2, <2>3, <2>4, <2>5, <3>1, <3>2 DEF Thrifty
  <2>8. CASE ReleaseStored
    <3>1. PICK c : c = Len(StoredBlocks(taken, held))
      OBVIOUS
    <3>2. c \in Nat /\ c <= more + 1
      <4>1. c = (held + BlockMax - 1) \div BlockMax
        BY <1>0, <2>2, <3>1, StoredLength
      <4> QED BY <1>0, <2>2, <2>3, <4>1, BlocksNeeded, OneBlockMore
    <3>3. overhead' = overhead + 5 * c + Owed /\ Owed' = 0
      BY <2>8, <3>1 DEF ReleaseStored, Owed
    <3>4. overhead' \in Nat /\ overhead' <= now + 5 * (more + 1)
      <4>1. Owed \in Nat
        BY DEF Owed
      <4> QED BY <1>2, <2>2, <2>4, <3>2, <3>3, <4>1
    <3> QED BY <1>2, <2>1, <2>2, <2>3, <2>4, <2>5, <3>3, <3>4 DEF Thrifty
  <2> QED BY <1>6, <2>7, <2>8 DEF Release
<1>7. CASE EndDeflate
  <2>1. /\ phase = "finishing" /\ phase' = "ended" /\ held = 0 /\ overhead' = overhead + 6
        /\ UNCHANGED <<consumed, held>>
    BY <1>7 DEF EndDeflate
  <2>2. taken = consumed
    BY <1>0, <2>1 DEF Sound, Counts
  <2>3. overhead \in Nat /\ overhead <= now + 11
    BY <1>1, <1>2, <2>1 DEF Thrifty, Owed
  <2> QED BY <1>1, <1>2, <2>1, <2>2, <2>3 DEF Thrifty
<1>8. CASE UNCHANGED deflater
  BY <1>8 DEF deflater, Thrifty, Owed
<1> QED BY <1>3, <1>4, <1>5, <1>6, <1>7, <1>8 DEF DeflateNext, Deflating

\* As long as a chunk is no less than a stored block: what carries no input is at
\* most ten bytes for every whole stored block of the input, and 17.
THEOREM DeflateThrift ==
  ASSUME BlockMax <= Chunk
  PROVE  DeflateSpec =>
           [](/\ overhead \in Nat
              /\ phase = "ended" => overhead <= 10 * (consumed \div BlockMax) + 17)
<1>1. DeflateInit => Thrifty
  <2>1. 0 \div BlockMax \in Nat
    BY ChunkAndBlock, WholeBlocks
  <2> QED BY <2>1 DEF DeflateInit, Thrifty, Owed
<1>2. Sound /\ Thrifty /\ [DeflateNext]_deflater => Thrifty'
  BY ThriftyStep
<1>3. Thrifty => /\ overhead \in Nat
                 /\ phase = "ended" => overhead <= 10 * (consumed \div BlockMax) + 17
  BY DEF Thrifty
<1> QED BY <1>1, <1>2, <1>3, AlwaysSound, PTL DEF DeflateSpec
=============================================================================
