--------------------------- MODULE ZipStreamProofs ---------------------------
(***************************************************************************)
(* What a finished zip's bytes say, for every limit, chunk, size and       *)
(* number of members.  Three invariants, each resting on the one before:   *)
(* Inv, a member being copied is inside what its header promised, whatever *)
(* its source turns out to be; Layout, what lies at which offset; Within,  *)
(* what is still to be written was counted.                                *)
(***************************************************************************)
EXTENDS ZipStream, SequenceTheorems, FiniteSetTheorems, WellFoundedInduction, TLAPS

\* The member being copied: Zip64 was decided from its kind and expected size,
\* and it has not yet yielded more than was expected.
Promised ==
  stage = "copying" =>
    /\ member.kind \in {"stored", "deflated", "copied"}
    /\ member.zip64 = Zip64(member.kind, member.size)
    /\ member.size \in Nat /\ member.yields \in Nat /\ member.packed \in Nat
    /\ member.got \in Nat /\ member.got <= member.yields
    /\ member.kind # "copied" => member.got <= member.size

\* What a member's entry is made of.
Named ==
  stage = "copying" => /\ member.name \in Nat /\ member.at \in Nat
                       /\ member.data \in Nat /\ member.zip64 \in BOOLEAN
                       /\ "got" \in DOMAIN member

Described == [name : Nat, packed : Nat, size : Nat, offset : Nat, crc : Nat, zip64 : BOOLEAN]
Accepted  == [name : Nat, size : Nat, data : Nat, packed : Nat]

Typed ==
  /\ stage \in {"idle", "copying"} => pos \in Nat
  /\ entries \in Seq(Described) /\ accepted \in Seq(Accepted)

Fit(e) == ~e.zip64 => e.packed < U32Limit /\ e.size < U32Limit

\* One entry for each member the caller was told of, each fitting its header.
Told ==
  /\ Len(accepted) = Len(entries)
  /\ \A i \in 1..Len(entries) :
       /\ Fit(entries[i])
       /\ entries[i].size = accepted[i].size /\ entries[i].packed = accepted[i].packed

Inv == Typed /\ Named /\ Promised /\ Told

\* deflate_bound grows with the size, and is never below it.
LEMMA BoundGrows ==
  ASSUME NEW m \in Nat, NEW n \in Nat, m <= n
  PROVE  /\ DeflateBound(m) \in Nat /\ DeflateBound(m) <= DeflateBound(n)
         /\ m + 74 <= DeflateBound(m)
BY SMT DEF DeflateBound

\* What a local header without Zip64 says of the size that was expected.
LEMMA Fitting ==
  ASSUME Inv, stage = "copying", ~member.zip64
  PROVE  /\ member.size < U32Limit
         /\ member.kind # "stored" => DeflateBound(member.size) < U32Limit
<1>1. ~Zip64(member.kind, member.size)
  BY Zenon DEF Inv, Promised
<1>2. /\ ~(member.size >= U32Limit)
      /\ member.kind # "stored" => ~(DeflateBound(member.size) >= U32Limit)
  BY <1>1, Zenon DEF Zip64
<1>3. member.size \in Nat
  BY DEF Inv, Promised
<1> QED BY <1>2, <1>3, BoundGrows, LimitsAreLimits

\* A member is described: its entry and what the caller is told agree, when it
\* fits the header it opened with (end_deflated, and the end of stored).
LEMMA Closing ==
  ASSUME Inv, stage = "copying", NEW packed \in Nat, Close(packed, member.yields),
         packed = IF member.kind = "stored" THEN member.yields ELSE packed,
         ~member.zip64 => packed < U32Limit /\ member.yields < U32Limit,
         pos' \in Nat
  PROVE  Inv'
<1> DEFINE e == Entry(packed, member.yields)
           a == [name |-> member.name, size |-> member.yields, data |-> member.data,
                 packed |-> packed]
<1>1. e \in Described /\ Fit(e) /\ e.size = member.yields /\ e.packed = packed
  BY DEF Inv, Named, Promised, Typed, Entry, Described, Fit
<1>2. a \in Accepted
  BY DEF Inv, Named, Promised, Accepted
<1>3. entries' = Append(entries, e) /\ accepted' = Append(accepted, a)
  BY DEF Close
<1>4. entries' \in Seq(Described) /\ accepted' \in Seq(Accepted)
  BY <1>1, <1>2, <1>3, AppendProperties DEF Inv, Typed
<1>5. Told'
  <2>1. Len(entries') = Len(entries) + 1 /\ Len(accepted') = Len(accepted) + 1
    BY <1>1, <1>2, <1>3 DEF Inv, Typed
  <2>2. \A i \in 1..Len(entries) : entries'[i] = entries[i] /\ accepted'[i] = accepted[i]
    BY <1>1, <1>2, <1>3 DEF Inv, Typed, Told
  <2>3. entries'[Len(entries) + 1] = e /\ accepted'[Len(entries) + 1] = a
    BY <1>1, <1>2, <1>3 DEF Inv, Typed, Told
  <2>4. Len(entries) \in Nat
    BY DEF Inv, Typed
  <2> HIDE DEF e, a
  <2>5. a.size = member.yields /\ a.packed = packed
    BY DEF a
  <2>6. \A i \in 1..Len(entries') : i \in 1..Len(entries) \/ i = Len(entries) + 1
    BY <2>1, <2>4
  <2> QED BY <1>1, <2>1, <2>2, <2>3, <2>5, <2>6 DEF Inv, Told, Fit
<1> QED BY <1>4, <1>5 DEF Inv, Typed, Named, Promised, Close

\* local_header, with what the caller asks for.
LEMMA Opening ==
  ASSUME Inv, NEW kind \in {"stored", "deflated", "copied"}, NEW name \in NameLengths,
         NEW size \in Sizes, NEW yields \in Sizes, NEW packed \in Sizes,
         NEW honest \in BOOLEAN, Open(kind, name, size, yields, packed, honest)
  PROVE  Inv'
<1>1. name \in Nat /\ size \in Nat /\ yields \in Nat /\ packed \in Nat
  BY LimitsAreLimits
<1>2. Zip64(kind, size) \in BOOLEAN
  <2>1. (size >= U32Limit) \in BOOLEAN /\ (DeflateBound(size) >= U32Limit) \in BOOLEAN
    BY <1>1, LimitsAreLimits, SMT DEF DeflateBound
  <2> QED BY <2>1, Zenon DEF Zip64
<1>3. \A z \in BOOLEAN : LocalLength(name, z) \in Nat
  BY <1>1 DEF LocalLength
<1>4. pos \in Nat /\ pos' \in Nat
  BY <1>2, <1>3 DEF Open, Put, Inv, Typed
<1>5. /\ member'.kind = kind /\ member'.name = name /\ member'.size = size
      /\ member'.yields = yields /\ member'.packed = packed /\ member'.got = 0
      /\ member'.zip64 = Zip64(kind, size) /\ member'.at = pos
      /\ member'.data = pos + LocalLength(name, Zip64(kind, size))
  BY DEF Open
<1>6. entries' = entries /\ accepted' = accepted
  BY DEF Open
<1>7. member'.data \in Nat
  BY <1>2, <1>3, <1>4, <1>5
<1>8. Named'
  <2>1. "got" \in DOMAIN member'
    BY DEF Open
  <2> QED BY <1>1, <1>2, <1>4, <1>5, <1>7, <2>1 DEF Named
<1>9. Promised'
  BY <1>1, <1>5 DEF Promised, Zip64, DeflateBound
<1>10. Typed'
  BY <1>4, <1>6 DEF Inv, Typed
<1>11. Told'
  BY <1>6 DEF Inv, Told, Fit
<1> QED BY <1>8, <1>9, <1>10, <1>11 DEF Inv

\* One read: never past what was expected, or the member is given up.
LEMMA Copying == ASSUME Inv, Copy PROVE Inv'
<1> DEFINE have == member.yields - member.got
           want == IF member.kind = "stored" THEN Want(member.size - member.got) ELSE Chunk
           n    == IF have < want THEN have ELSE want
<1>1. /\ stage = "copying" /\ member.kind # "copied" /\ n > 0
      /\ member' = [member EXCEPT !.got = @ + n]
      /\ entries' = entries /\ accepted' = accepted
  BY DEF Copy
<1>2. /\ member.size \in Nat /\ member.got \in Nat /\ member.yields \in Nat
      /\ member.got <= member.yields /\ member.got <= member.size
  BY <1>1 DEF Inv, Promised
<1>3. /\ n \in Nat /\ member.got + n <= member.yields
      /\ member.kind = "stored" => member.got + n <= member.size
  BY <1>2, LimitsAreLimits DEF Want
<1>4. /\ pos' \in Nat
      /\ stage' = "copying" => member.got + n <= member.size
  BY <1>2, <1>3 DEF Copy, Inv, Typed, Promised
<1> HIDE DEF n
<1>5. /\ member'.kind = member.kind /\ member'.zip64 = member.zip64
      /\ member'.size = member.size /\ member'.yields = member.yields
      /\ member'.packed = member.packed /\ member'.name = member.name
      /\ member'.at = member.at /\ member'.data = member.data
  BY <1>1
<1>6. member'.got = member.got + n /\ "got" \in DOMAIN member'
  BY <1>1 DEF Inv, Named
<1>7. Typed' /\ Told'
  BY <1>1, <1>4 DEF Inv, Typed, Told, Fit
<1>8. Named'
  BY <1>1, <1>5, <1>6 DEF Inv, Named
<1>9. Promised'
  BY <1>1, <1>2, <1>3, <1>4, <1>5, <1>6 DEF Inv, Promised
<1> QED BY <1>7, <1>8, <1>9 DEF Inv

\* The two ends of a deflated member: its DEFLATE data fits what was promised.
LEMMA Describing ==
  ASSUME Inv, stage = "copying", NEW packed \in Nat, member.kind # "stored",
         ~member.zip64 => packed < U32Limit /\ member.yields < U32Limit,
         Describe(packed, member.yields)
  PROVE  Inv'
<1>1. DescriptorLength(member.zip64) \in Nat
  BY DEF DescriptorLength
<1>2. pos' \in Nat
  BY <1>1 DEF Describe, Inv, Typed
<1>3. Close(packed, member.yields)
  BY DEF Describe
<1> QED BY <1>2, <1>3, Closing

LEMMA StepKeepsInv == Inv /\ [Next]_vars => Inv'
<1> SUFFICES ASSUME Inv, [Next]_vars PROVE Inv'
  OBVIOUS
<1> USE LimitsAreLimits
<1>1. CASE Opens
  BY <1>1, Opening DEF Opens
<1>2. CASE Copy
  BY <1>2, Copying
<1>3. CASE Refuse
  BY <1>3 DEF Refuse, Inv, Typed, Named, Promised, Told, Fit
<1>4. CASE CloseStored
  <2>1. CASE Close(member.size, member.size) /\ pos' = pos /\ member.size = member.yields
                /\ stage = "copying" /\ member.kind = "stored"
    <3>1. member.size \in Nat /\ pos' \in Nat
      BY <2>1 DEF Inv, Typed, Promised
    <3>2. ~member.zip64 => member.size < U32Limit
      BY <2>1, Fitting
    <3> QED BY <2>1, <3>1, <3>2, Closing
  <2>2. \/ Refuse
        \/ /\ Close(member.size, member.size) /\ pos' = pos /\ member.size = member.yields
           /\ stage = "copying" /\ member.kind = "stored"
    BY <1>4 DEF CloseStored, Inv, Promised
  <2> QED BY <1>3, <2>1, <2>2
<1>5. CASE CloseDeflated
  <2>1. stage = "copying" /\ member.kind = "deflated" /\ member.got = member.yields
    BY <1>5 DEF CloseDeflated
  <2>2. PICK packed \in {2, DeflateBound(member.yields)} : Describe(packed, member.yields)
    BY <1>5, <2>1 DEF CloseDeflated
  <2>3. member.yields \in Nat /\ member.size \in Nat /\ member.yields <= member.size
    BY <2>1 DEF Inv, Promised
  <2>4. /\ packed \in Nat /\ packed <= DeflateBound(member.size)
        /\ member.yields + 74 <= DeflateBound(member.size)
        /\ DeflateBound(member.size) \in Nat
    BY <2>3, BoundGrows
  <2>5. ~member.zip64 => DeflateBound(member.size) < U32Limit
    BY <2>1, Fitting
  <2> QED BY <2>1, <2>2, <2>3, <2>4, <2>5, Describing
<1>6. CASE CloseCopied
  <2>1. stage = "copying" /\ member.kind = "copied"
    BY <1>6 DEF CloseCopied
  <2>2. /\ member.yields \in Nat /\ member.size \in Nat /\ member.packed \in Nat
        /\ member.zip64 = Zip64("copied", member.size)
    BY <2>1 DEF Inv, Promised
  <2>3. CASE /\ Describe(member.packed, member.yields)
             /\ member.yields <= member.size
             /\ ~member.zip64 => member.packed < U32Limit
    <3>1. ~member.zip64 => member.yields < U32Limit
      BY <2>1, <2>2, <2>3, Fitting
    <3> QED BY <2>1, <2>2, <2>3, <3>1, Describing
  <2> QED BY <1>3, <1>6, <2>2, <2>3 DEF CloseCopied
<1>7. CASE Finish
  BY <1>7 DEF Finish, Inv, Typed, Named, Promised, Told, Fit
<1>8. CASE Central
  BY <1>8 DEF Central, Inv, Typed, Named, Promised, Told, Fit
<1>9. CASE Ending
  BY <1>9 DEF Ending, EndLength, End64Length, LocatorLength, Inv, Typed, Named, Promised, Told, Fit
<1>10. CASE UNCHANGED vars
  BY <1>10 DEF vars, Inv, Typed, Named, Promised, Told, Fit
<1>11. Fails => Refuse
  BY DEF Fails
<1> QED BY <1>1, <1>2, <1>3, <1>4, <1>5, <1>6, <1>7, <1>8, <1>9, <1>10, <1>11 DEF Next

\* Whatever the sizes and the sources: no member's local header promises 32-bit
\* sizes that its descriptor would have to exceed, and every member is described
\* as its source turned out to be (deflate_bound, deflated_from, stored).
THEOREM DescribedWithinPromise == Spec => [](DescriptorsFit /\ DescribedAsItWas)
<1>1. Init => Inv
  BY DEF Init, Inv, Typed, Named, Promised, Told, Fit
<1>2. Inv => DescriptorsFit /\ DescribedAsItWas
  <2>1. entries \in Seq(Described) /\ accepted \in Seq(Accepted)
        => DOMAIN entries = 1..Len(entries) /\ DOMAIN accepted = 1..Len(accepted)
    OBVIOUS
  <2> QED BY <2>1 DEF Inv, Typed, Told, Fit, DescriptorsFit, DescribedAsItWas
<1> QED BY <1>1, <1>2, StepKeepsInv, PTL DEF Spec

\* The second half by itself: a member that was cut short of its source's end,
\* or grew past what it announced, is never described (stored, deflated_from).
THEOREM DescribedTruly == Spec => []DescribedAsItWas
BY DescribedWithinPromise, PTL

-----------------------------------------------------------------------------
(***************************************************************************)
(* What the bytes themselves say, kept at every step: Laid, the members    *)
(* described; Heading, the one being copied; Listed, the headers of the    *)
(* directory, one after the other; Unended and Pointed, the end records.   *)
(***************************************************************************)

\* A name's length is written in 16 bits without a check (name.len() as u16).
NamesFit == \A n \in NameLengths : n <= U16Limit

\* pos is the offset of the next byte, until the writer fails and after it.
Positions ==
  /\ pos \in Nat /\ length = pos /\ cdStart \in Nat
  /\ DOMAIN entries = 1..Len(entries)

\* The bytes from a local header on are those of the i-th member, whose entry
\* is e and which the caller knows as m.
Leading(e, i, m) ==
  \E l \in At(e.offset, "local") :
    LET data == e.offset + LocalLength(l.nlen, l.zip64) IN
    /\ l.nlen = e.name /\ e.name = m.name /\ U16(e.name) = e.name
    /\ \E d \in At(data, "data") : d.length = e.packed /\ d.crc = i
    /\ IF l.descriptor
       THEN \E d \in At(data + e.packed, "descriptor") :
              /\ d.wide = l.zip64 /\ d.crc = i
              /\ d.packed = e.packed /\ d.size = e.size
       ELSE l.crc = i /\ e.size = IF l.zip64 THEN l.wide ELSE l.size

Laid ==
  \A i \in 1..Len(entries) : \A e, m :
    e = entries[i] /\ m = accepted[i] => e.crc = i /\ Leading(e, i, m)

\* The local header of the member being copied.
Heading ==
  stage = "copying" =>
    /\ U16(member.name) = member.name
    /\ member.data = member.at + LocalLength(member.name, member.zip64)
    /\ \E l \in At(member.at, "local") :
         /\ l.nlen = member.name /\ l.zip64 = member.zip64
         /\ IF member.kind = "stored"
            THEN /\ ~l.descriptor /\ l.crc = Len(entries) + 1
                 /\ member.size = IF l.zip64 THEN l.wide ELSE l.size
            ELSE l.descriptor

Centrals == {i \in items : i.kind = "central"}

\* The k-th header of the directory, at this offset, and how long it is.
Header(k, at) ==
  [at |-> at, kind |-> "central", nlen |-> U16(entries[k].name), crc |-> entries[k].crc,
   packed |-> Clip(entries[k].packed), size |-> Clip(entries[k].size),
   offset |-> Clip(entries[k].offset), extra |-> Extra(entries[k])]

HeaderLength(k) == 46 + entries[k].name + ExtraLength(Extra(entries[k]))

\* The directory is the first n headers; w says where each one ends.
Lists(w, n) ==
  /\ w \in [0..n -> Nat] /\ w[0] = cdStart
  /\ \A j, k \in 0..n : j < k => w[j] < w[k]
  /\ \A k \in 1..n : w[k] = w[k - 1] + HeaderLength(k)
  /\ Centrals = {Header(k, w[k - 1]) : k \in 1..n}

Listed ==
  /\ IsFiniteSet(Centrals)
  /\ stage \in {"idle", "copying"} => Centrals = {}
  /\ stage = "central" =>
       Written \in 0..Len(entries) /\ \E w : Lists(w, Written) /\ w[Written] = pos
  /\ stage = "done" => \E w : Lists(w, Len(entries))

\* There is no end record to find before the end.
Unended ==
  stage \in {"idle", "copying", "central"} =>
    \A i \in items : i.kind \notin {"end", "end64", "locator"}

\* The reader finds the directory.
Pointed == stage = "done" => Directory.count = Len(entries) /\ Directory.start = cdStart

Layout == Positions /\ Laid /\ Heading /\ Listed /\ Unended /\ Pointed

-----------------------------------------------------------------------------
LEMMA U16Fits == ASSUME NEW n \in Nat, n <= U16Limit PROVE U16(n) = n
<1>1. U16Limit \in Nat
  BY LimitsAreLimits
<1> QED BY <1>1 DEF U16

LEMMA U32Fits == ASSUME NEW n \in Nat, n < U32Limit PROVE U32(n) = n
<1>1. U32Limit \in Nat
  BY LimitsAreLimits
<1> QED BY <1>1 DEF U32

LEMMA Clips ==
  ASSUME NEW n \in Nat
  PROVE  /\ n >= U32Limit => Clip(n) = U32Limit
         /\ n < U32Limit => Clip(n) = n /\ Clip(n) # U32Limit
<1>1. U32Limit \in Nat
  BY LimitsAreLimits
<1>2. CASE n >= U32Limit
  BY <1>1, <1>2 DEF Clip
<1>3. CASE n < U32Limit
  BY <1>1, <1>3, U32Fits DEF Clip
<1> QED BY <1>1, <1>2, <1>3

\* A header's fields are read as they were written, whichever are in the extra field.
LEMMA FieldsRead ==
  ASSUME NEW e \in Described, NEW c,
         c.size = Clip(e.size), c.packed = Clip(e.packed), c.offset = Clip(e.offset),
         c.extra = Extra(e)
  PROVE  /\ Field(c, "size", {}) = e.size
         /\ Field(c, "packed", {"size"}) = e.packed
         /\ Field(c, "offset", {"size", "packed"}) = e.offset
<1> DEFINE a == e.size >= U32Limit
           b == e.packed >= U32Limit
           o == e.offset >= U32Limit
           A == IF a THEN <<e.size>> ELSE <<>>
           B == IF b THEN <<e.packed>> ELSE <<>>
           O == IF o THEN <<e.offset>> ELSE <<>>
<1>1. e.size \in Nat /\ e.packed \in Nat /\ e.offset \in Nat /\ U32Limit \in Nat
  BY LimitsAreLimits DEF Described
<1>2. /\ c.size = U32Limit <=> a
      /\ c.packed = U32Limit <=> b
      /\ c.offset = U32Limit <=> o
      /\ ~a => c.size = e.size
      /\ ~b => c.packed = e.packed
      /\ ~o => c.offset = e.offset
  BY <1>1, Clips
<1>3. c.extra = A \o B \o O
  BY DEF Extra
<1>4. /\ Cardinality({f \in {} : c[f] = U32Limit}) = 0
      /\ Cardinality({f \in {"size"} : c[f] = U32Limit}) = IF a THEN 1 ELSE 0
      /\ Cardinality({f \in {"size", "packed"} : c[f] = U32Limit}) =
           (IF a THEN 1 ELSE 0) + (IF b THEN 1 ELSE 0)
  <2>1. {f \in {} : c[f] = U32Limit} = {}
    OBVIOUS
  <2>2. {f \in {"size"} : c[f] = U32Limit} = IF a THEN {"size"} ELSE {}
    BY <1>2
  <2>3. {f \in {"size", "packed"} : c[f] = U32Limit} =
          IF a THEN IF b THEN {"size", "packed"} ELSE {"size"}
               ELSE IF b THEN {"packed"} ELSE {}
    BY <1>2
  <2>4. Cardinality({}) = 0 /\ Cardinality({"size"}) = 1 /\ Cardinality({"packed"}) = 1
    BY FS_EmptySet, FS_Singleton
  <2>5. Cardinality({"size", "packed"}) = 2
    <3>1. IsFiniteSet({"size"}) /\ "packed" \notin {"size"}
      BY FS_Singleton
    <3>2. Cardinality({"size"} \cup {"packed"}) = Cardinality({"size"}) + 1
      BY <3>1, FS_AddElement, Zenon
    <3>3. {"size"} \cup {"packed"} = {"size", "packed"}
      OBVIOUS
    <3> QED BY <2>4, <3>2, <3>3
  <2> QED BY <2>1, <2>2, <2>3, <2>4, <2>5
<1> HIDE DEF a, b, o
<1>5. Field(c, "size", {}) = e.size
  <2>1. a => c.extra # <<>> /\ 1 \in DOMAIN c.extra /\ c.extra[1] = e.size
    BY <1>1, <1>3
  <2> QED BY <1>2, <1>4, <2>1 DEF Field
<1>6. Field(c, "packed", {"size"}) = e.packed
  <2>1. b => LET k == 1 + (IF a THEN 1 ELSE 0) IN
             c.extra # <<>> /\ k \in DOMAIN c.extra /\ c.extra[k] = e.packed
    BY <1>1, <1>3
  <2> QED BY <1>2, <1>4, <2>1 DEF Field
<1>7. Field(c, "offset", {"size", "packed"}) = e.offset
  <2>1. o => LET k == 1 + ((IF a THEN 1 ELSE 0) + (IF b THEN 1 ELSE 0)) IN
             c.extra # <<>> /\ k \in DOMAIN c.extra /\ c.extra[k] = e.offset
    BY <1>1, <1>3
  <2> QED BY <1>2, <1>4, <2>1 DEF Field
<1> QED BY <1>5, <1>6, <1>7

\* What lies in the output stays there.
LEMMA StaysLaid ==
  ASSUME NEW e, NEW i, NEW m, Leading(e, i, m), items \subseteq items'
  PROVE  Leading(e, i, m)'
BY ZenonT(40) DEF Leading, At

\* The members described so far are where they were.
LEMMA AllStayLaid ==
  ASSUME Laid, items \subseteq items', UNCHANGED <<entries, accepted>>
  PROVE  Laid'
<1> SUFFICES ASSUME NEW i \in 1..Len(entries'), NEW e, NEW m, e = entries'[i], m = accepted'[i]
             PROVE  e.crc = i /\ Leading(e, i, m)'
  BY DEF Laid
<1>1. e = entries[i] /\ m = accepted[i] /\ i \in 1..Len(entries)
  OBVIOUS
<1>2. e.crc = i /\ Leading(e, i, m)
  BY <1>1 DEF Laid
<1> QED BY <1>2, StaysLaid

\* One more is described.
LEMMA LaysOne ==
  ASSUME Inv, Laid, items \subseteq items', NEW e \in Described, NEW m \in Accepted, NEW n,
         n = Len(entries) + 1, e.crc = n, Leading(e, n, m)',
         entries' = Append(entries, e), accepted' = Append(accepted, m)
  PROVE  Laid'
<1>1. /\ Len(entries) \in Nat /\ Len(entries') = Len(entries) + 1
      /\ \A i \in 1..Len(entries) : entries'[i] = entries[i] /\ accepted'[i] = accepted[i]
      /\ entries'[n] = e /\ accepted'[n] = m
  BY DEF Inv, Typed, Told
<1> SUFFICES ASSUME NEW i \in 1..Len(entries'), NEW f, NEW o, f = entries'[i], o = accepted'[i]
             PROVE  f.crc = i /\ Leading(f, i, o)'
  BY DEF Laid
<1>2. CASE i \in 1..Len(entries)
  <2>1. f = entries[i] /\ o = accepted[i]
    BY <1>1, <1>2
  <2>2. f.crc = i /\ Leading(f, i, o)
    BY <1>2, <2>1 DEF Laid
  <2> QED BY <2>2, StaysLaid
<1>3. CASE i = n
  <2>1. f = e /\ o = m
    BY <1>1, <1>3
  <2> QED BY <1>3, <2>1, Zenon
<1>4. i \in 1..Len(entries) \/ i = n
  BY <1>1
<1> QED BY <1>2, <1>3, <1>4, Zenon

\* A member is opened.
LEMMA OpensLayout ==
  ASSUME NamesFit, Inv, Layout, NEW kind \in {"stored", "deflated", "copied"},
         NEW name \in NameLengths, NEW size \in Sizes, NEW yields \in Sizes,
         NEW packed \in Sizes, NEW honest \in BOOLEAN,
         Open(kind, name, size, yields, packed, honest)
  PROVE  Layout'
<1> DEFINE zip64 == Zip64(kind, size)
           sized == kind = "stored"
           field == IF ~sized THEN 0 ELSE size
           l == [at |-> pos, kind |-> "local", name |-> name, nlen |-> U16(name),
                 zip64 |-> zip64, descriptor |-> ~sized,
                 crc |-> IF sized THEN Len(entries) + 1 ELSE 0,
                 size |-> IF zip64 THEN U32Limit ELSE U32(field), wide |-> field]
<1>1. name \in Nat /\ size \in Nat /\ U16(name) = name
  BY LimitsAreLimits, U16Fits DEF NamesFit
<1>2. /\ stage = "idle" /\ stage' = "copying"
      /\ items' = items \cup {l} /\ UNCHANGED <<entries, cdStart, accepted>>
      /\ pos' = pos + LocalLength(name, zip64) /\ length' = length + LocalLength(name, zip64)
      /\ member'.kind = kind /\ member'.name = name /\ member'.size = size
      /\ member'.zip64 = zip64 /\ member'.at = pos
      /\ member'.data = pos + LocalLength(name, zip64)
  BY DEF Open, Put
<1>3. LocalLength(name, zip64) \in Nat
  BY <1>1 DEF LocalLength
<1>4. Positions'
  BY <1>2, <1>3 DEF Layout, Positions
<1>5. Laid'
  BY <1>2, AllStayLaid DEF Layout
<1>6. Heading'
  <2>1. PICK b, at : b = l /\ at = pos
    OBVIOUS
  <2>2. sized => size = IF zip64 THEN b.wide ELSE b.size
    <3>1. CASE sized /\ ~zip64
      <4>1. ~(size >= U32Limit)
        BY <3>1, Zenon DEF Zip64
      <4>2. U32(size) = size
        BY <1>1, <4>1, U32Fits, LimitsAreLimits
      <4> QED BY <2>1, <3>1, <4>2
    <3> QED BY <2>1, <3>1
  <2>3. /\ b.nlen = name /\ b.zip64 = zip64 /\ b.at = at /\ b.kind = "local"
        /\ b.descriptor = ~sized
        /\ sized => b.crc = Len(entries') + 1
    BY <1>1, <1>2, <2>1
  <2>4. b \in At(at, "local")'
    BY <1>2, <2>1, <2>3 DEF At
  <2> HIDE DEF l, zip64
  <2>5. member'.at = at /\ b \in At(member.at, "local")'
    BY <1>2, <2>1, <2>4 DEF At
  <2>6. /\ U16(member'.name) = member'.name
        /\ member'.data = member'.at + LocalLength(member'.name, member'.zip64)
    BY <1>1, <1>2
  <2> QED BY <1>2, <2>2, <2>3, <2>5, <2>6 DEF Heading
<1>7. Centrals' = Centrals
  BY <1>2 DEF Centrals
<1>8. Listed'
  BY <1>2, <1>7 DEF Layout, Listed
<1>9. Unended'
  BY <1>2 DEF Layout, Unended
<1>10. Pointed'
  BY <1>2 DEF Pointed
<1> QED BY <1>4, <1>5, <1>6, <1>8, <1>9, <1>10 DEF Layout

\* A read of its source.
LEMMA CopyLayout == ASSUME Inv, Inv', Layout, Copy PROVE Layout'
<1>1. /\ stage = "copying" /\ stage' \in {"copying", "failed"}
      /\ UNCHANGED <<items, entries, cdStart, accepted>>
  BY DEF Copy
<1>2. stage' = "copying" =>
        /\ member'.name = member.name /\ member'.data = member.data
        /\ member'.at = member.at /\ member'.zip64 = member.zip64
        /\ member'.kind = member.kind /\ member'.size = member.size
  BY DEF Copy
<1>3. Positions'
  <2>1. /\ member.got \in Nat /\ member.yields \in Nat /\ member.size \in Nat
        /\ member.kind # "copied" => member.got <= member.size
        /\ member.got <= member.yields /\ Chunk \in Nat
    BY <1>1, LimitsAreLimits DEF Inv, Promised
  <2>2. \/ pos' = pos /\ length' = length
        \/ \E n \in Nat : pos' = pos + n /\ length' = length + n
    BY <2>1 DEF Copy, Want
  <2> QED BY <1>1, <2>2 DEF Layout, Positions
<1>4. Laid'
  BY <1>1, AllStayLaid DEF Layout
<1>5. Heading'
  BY <1>1, <1>2 DEF Layout, Heading, At
<1>6. Listed' /\ Unended' /\ Pointed'
  BY <1>1 DEF Layout, Listed, Unended, Pointed, Centrals
<1> QED BY <1>3, <1>4, <1>5, <1>6 DEF Layout

\* The member is described: what Close leaves of the layout.
LEMMA ClosedLayout ==
  ASSUME Inv, Layout, stage = "copying", NEW packed, NEW size, Close(packed, size),
         pos' \in Nat, length' = pos', items \subseteq items',
         \A i \in items' : i \in items \/ i.kind \in {"data", "descriptor"},
         entries' \in Seq(Described), Laid'
  PROVE  Layout'
<1>1. stage' = "idle" /\ cdStart' = cdStart
  BY DEF Close
<1>2. Positions'
  BY <1>1 DEF Layout, Positions
<1>3. Centrals' = {}
  <2>1. Centrals = {}
    BY DEF Layout, Listed
  <2> QED BY <2>1 DEF Centrals
<1>4. Listed'
  BY <1>1, <1>3, FS_EmptySet DEF Listed
<1>5. Heading' /\ Pointed'
  BY <1>1 DEF Heading, Pointed
<1>6. Unended'
  BY DEF Layout, Unended
<1> QED BY <1>2, <1>4, <1>5, <1>6 DEF Layout

\* A stored member: its header said how long it is.
LEMMA StoredLayout ==
  ASSUME Inv, Inv', Layout, stage = "copying", member.kind = "stored",
         member.size = member.yields, Close(member.size, member.size),
         items' = items \cup {Data(member.size)}, UNCHANGED <<pos, length>>
  PROVE  Layout'
<1>1. PICK e, m, n, d :
        /\ e = Entry(member.size, member.size) /\ n = Len(entries) + 1
        /\ m = [name |-> member.name, size |-> member.yields, data |-> member.data,
                packed |-> member.yields]
        /\ d = Data(member.size)
  OBVIOUS
<1>2. /\ member.name \in Nat /\ member.at \in Nat /\ member.data \in Nat
      /\ member.zip64 \in BOOLEAN /\ member.size \in Nat /\ member.yields \in Nat
      /\ Len(entries) \in Nat
  BY DEF Inv, Named, Promised, Typed
<1>3. e \in Described /\ m \in Accepted /\ e.crc = n
  BY <1>1, <1>2 DEF Entry, Described, Accepted
<1>4. entries' = Append(entries, e) /\ accepted' = Append(accepted, m)
  BY <1>1 DEF Close
<1>5. PICK l \in At(member.at, "local") :
        /\ l.nlen = member.name /\ l.zip64 = member.zip64
        /\ ~l.descriptor /\ l.crc = Len(entries) + 1
        /\ member.size = IF l.zip64 THEN l.wide ELSE l.size
  BY DEF Layout, Heading
<1>6. /\ U16(member.name) = member.name
      /\ member.data = member.at + LocalLength(member.name, member.zip64)
  BY DEF Layout, Heading
<1>7. Leading(e, n, m)'
  <2>1. /\ e.offset = member.at /\ e.name = member.name /\ m.name = member.name
        /\ e.packed = member.size /\ e.size = member.size
    BY <1>1 DEF Entry
  <2>2. l \in At(e.offset, "local")'
    BY <1>5, <2>1 DEF At
  <2>3. d.at = member.data /\ d.kind = "data" /\ d.length = member.size /\ d.crc = n
    BY <1>1 DEF Data
  <2>4. e.offset + LocalLength(l.nlen, l.zip64) = d.at
    BY <1>5, <1>6, <2>1, <2>3
  <2>5. d \in At(e.offset + LocalLength(l.nlen, l.zip64), "data")'
    BY <1>1, <2>3, <2>4 DEF At
  <2>6. l.nlen = e.name /\ e.name = m.name /\ U16(e.name) = e.name
    BY <1>5, <1>6, <2>1
  <2>7. l.crc = n /\ e.size = (IF l.zip64 THEN l.wide ELSE l.size)
    BY <1>1, <1>5, <2>1
  <2>8. d.length = e.packed
    BY <2>1, <2>3
  <2> QED BY <1>5, <2>2, <2>3, <2>5, <2>6, <2>7, <2>8, Zenon DEF Leading
<1>8. Laid'
  BY <1>1, <1>3, <1>4, <1>7, LaysOne DEF Layout
<1>9. \A i \in items' : i \in items \/ i.kind \in {"data", "descriptor"}
  BY DEF Data
<1>10. pos' \in Nat /\ length' = pos' /\ entries' \in Seq(Described)
  BY DEF Layout, Positions, Inv, Typed
<1> QED BY <1>8, <1>9, <1>10, ClosedLayout

\* A deflated one: its descriptor does, at the width its header gave it.
LEMMA DescribedLayout ==
  ASSUME Inv, Inv', Layout, stage = "copying", member.kind # "stored",
         NEW packed \in Nat, Describe(packed, member.yields)
  PROVE  Layout'
<1> DEFINE size == member.yields
           D == [at |-> member.data + packed, kind |-> "descriptor", wide |-> member.zip64,
                 crc |-> Len(entries) + 1,
                 packed |-> IF member.zip64 THEN packed ELSE U32(packed),
                 size |-> IF member.zip64 THEN size ELSE U32(size)]
<1>1. PICK e, m, n, d, f :
        /\ e = Entry(packed, size) /\ n = Len(entries) + 1
        /\ m = [name |-> member.name, size |-> member.yields, data |-> member.data,
                packed |-> packed]
        /\ d = Data(packed) /\ f = D
  OBVIOUS
<1>2. /\ member.name \in Nat /\ member.at \in Nat /\ member.data \in Nat
      /\ member.zip64 \in BOOLEAN /\ member.yields \in Nat
      /\ Len(entries) \in Nat /\ Len(accepted) = Len(entries)
  BY DEF Inv, Named, Promised, Typed, Told
<1>3. e \in Described /\ m \in Accepted /\ e.crc = n
  BY <1>1, <1>2 DEF Entry, Described, Accepted
<1>4. /\ entries' = Append(entries, e) /\ accepted' = Append(accepted, m)
      /\ Close(packed, size)
      /\ items' = items \cup {d, f}
  BY <1>1 DEF Describe, Close
<1>5. PICK l \in At(member.at, "local") :
        l.nlen = member.name /\ l.zip64 = member.zip64 /\ l.descriptor
  BY DEF Layout, Heading
<1>6. /\ U16(member.name) = member.name
      /\ member.data = member.at + LocalLength(member.name, member.zip64)
  BY DEF Layout, Heading
<1>7. ~member.zip64 => U32(packed) = packed /\ U32(size) = size
  <2>1. entries'[Len(entries) + 1] = e /\ Len(entries') = Len(entries) + 1
    BY <1>3, <1>4 DEF Inv, Typed
  <2>2. Fit(e)
    BY <1>2, <2>1 DEF Inv, Told
  <2>3. ~member.zip64 => packed < U32Limit /\ size < U32Limit
    BY <1>1, <2>2 DEF Fit, Entry
  <2> QED BY <1>2, <2>3, U32Fits
<1>8. Leading(e, n, m)'
  <2>1. /\ e.offset = member.at /\ e.name = member.name /\ m.name = member.name
        /\ e.packed = packed /\ e.size = size
    BY <1>1 DEF Entry
  <2>2. l \in At(e.offset, "local")'
    BY <1>4, <1>5, <2>1 DEF At
  <2>3. d.at = member.data /\ d.kind = "data" /\ d.length = packed /\ d.crc = n
    BY <1>1 DEF Data
  <2>4. /\ f.at = member.data + packed /\ f.kind = "descriptor" /\ f.wide = member.zip64
        /\ f.crc = n
    BY <1>1
  <2>5. f.packed = packed /\ f.size = size
    BY <1>1, <1>7
  <2>6. e.offset + LocalLength(l.nlen, l.zip64) = member.data
    BY <1>5, <1>6, <2>1
  <2>7. d \in At(e.offset + LocalLength(l.nlen, l.zip64), "data")'
    BY <1>4, <2>3, <2>6 DEF At
  <2>8. f \in At(e.offset + LocalLength(l.nlen, l.zip64) + e.packed, "descriptor")'
    BY <1>4, <2>1, <2>4, <2>6 DEF At
  <2>9. l.nlen = e.name /\ e.name = m.name /\ U16(e.name) = e.name
    BY <1>5, <1>6, <2>1
  <2>10. d.length = e.packed /\ f.wide = l.zip64 /\ f.packed = e.packed /\ f.size = e.size
    BY <1>5, <2>1, <2>3, <2>4, <2>5
  <2> QED BY <1>5, <2>2, <2>3, <2>4, <2>7, <2>8, <2>9, <2>10, Zenon DEF Leading
<1>9. Laid'
  BY <1>1, <1>3, <1>4, <1>8, LaysOne DEF Layout
<1>10. \A i \in items' : i \in items \/ i.kind \in {"data", "descriptor"}
  BY <1>1, <1>4 DEF Data
<1>11. pos' \in Nat /\ length' = pos' /\ entries' \in Seq(Described)
  BY DEF Describe, DescriptorLength, Layout, Positions, Inv, Typed
<1> QED BY <1>4, <1>9, <1>10, <1>11, ClosedLayout

\* The writer gives up.
LEMMA RefuseLayout == ASSUME Layout, Refuse PROVE Layout'
<1>1. stage' = "failed" /\ UNCHANGED <<member, pos, length, items, entries, cdStart, accepted>>
  BY DEF Refuse
<1>2. Laid'
  BY <1>1, AllStayLaid DEF Layout
<1> QED BY <1>1, <1>2 DEF Layout, Positions, Heading, Listed, Unended, Pointed, Centrals

\* finish: the directory begins where the last member ends.
LEMMA FinishLayout == ASSUME Inv, Layout, Finish PROVE Layout'
<1>1. /\ stage = "idle" /\ stage' = "central" /\ cdStart' = pos
      /\ UNCHANGED <<member, pos, length, items, entries, accepted>>
  BY DEF Finish
<1>2. Laid'
  BY <1>1, AllStayLaid DEF Layout
<1>3. Positions' /\ Heading' /\ Unended' /\ Pointed'
  BY <1>1 DEF Layout, Positions, Heading, Unended, Pointed
<1>4. Centrals' = {}
  BY <1>1 DEF Layout, Listed, Centrals
<1>5. Written' = 0
  BY <1>4, FS_EmptySet DEF Written, Centrals
<1>6. PICK w : w = [k \in 0..0 |-> pos]
  OBVIOUS
<1>7. Lists(w, 0)'
  <2>1. w \in [0..0 -> Nat] /\ w[0] = cdStart'
    BY <1>1, <1>6 DEF Layout, Positions
  <2>2. \A j, k \in 0..0 : j < k => w[j] < w[k]
    OBVIOUS
  <2>3. 1..0 = {}
    OBVIOUS
  <2>4. {Header(k, w[k - 1])' : k \in 1..0} = {}
    BY <2>3
  <2> QED BY <1>4, <2>1, <2>2, <2>3, <2>4 DEF Lists
<1>8. w[0] = pos'
  BY <1>1, <1>6
<1>9. Len(entries') \in Nat
  BY <1>1 DEF Inv, Typed
<1>10. Listed'
  <2>1. IsFiniteSet(Centrals') /\ Written' \in 0..Len(entries')
    BY <1>4, <1>5, <1>9, FS_EmptySet
  <2>2. w[Written'] = pos'
    BY <1>5, <1>8
  <2>3. \E v : Lists(v, Written)' /\ v[Written'] = pos'
    BY <1>5, <1>7, <2>2
  <2> QED BY <1>1, <2>1, <2>3 DEF Listed
<1> QED BY <1>2, <1>3, <1>10 DEF Layout

\* One more header: it lies after all the others, so it is a new item.
LEMMA CentralAdds ==
  ASSUME Inv, Layout, Central
  PROVE  Written' = Written + 1 /\ IsFiniteSet(Centrals)'
<1>1. PICK n, w : n = Written /\ n \in 0..Len(entries) /\ Lists(w, n) /\ w[n] = pos
  BY DEF Central, Layout, Listed
<1>2. PICK c : c = Header(n + 1, pos)
  OBVIOUS
<1>3. items' = items \cup {c} /\ n \in Nat
  BY <1>1, <1>2 DEF Central, Put, Header
<1>4. c.kind = "central" /\ c.at = pos
  BY <1>2 DEF Header
<1>5. Centrals' = Centrals \cup {c}
  BY <1>3, <1>4 DEF Centrals
<1>6. /\ w \in [0..n -> Nat]
      /\ \A j, k \in 0..n : j < k => w[j] < w[k]
      /\ Centrals = {Header(k, w[k - 1]) : k \in 1..n}
  BY <1>1 DEF Lists
<1>7. c \notin Centrals
  <2>1. \A k \in 1..n : w[k - 1] < w[n] /\ w[k - 1] \in Nat
    BY <1>3, <1>6
  <2>2. \A k \in 1..n : Header(k, w[k - 1]).at = w[k - 1]
    BY DEF Header
  <2>3. \A b \in Centrals : b.at < pos
    BY <1>1, <1>6, <2>1, <2>2
  <2>4. pos \in Nat
    BY DEF Layout, Positions
  <2> QED BY <1>4, <2>3, <2>4
<1>8. IsFiniteSet(Centrals) /\ Written = Cardinality(Centrals)
  BY DEF Layout, Listed, Written, Centrals
<1>9. /\ IsFiniteSet(Centrals \cup {c})
      /\ Cardinality(Centrals \cup {c}) = Cardinality(Centrals) + 1
  BY <1>7, <1>8, FS_AddElement, Zenon
<1>10. Written' = Cardinality(Centrals')
  BY DEF Written, Centrals
<1> QED BY <1>5, <1>8, <1>9, <1>10

\* It is where the reader will look for it.
LEMMA CentralLayout == ASSUME Inv, Layout, Central PROVE Layout'
<1>1. PICK n, w : n = Written /\ n \in 0..Len(entries) /\ Lists(w, n) /\ w[n] = pos
  BY DEF Central, Layout, Listed
<1>2. PICK c, e : c = Header(n + 1, pos) /\ e = entries[n + 1]
  OBVIOUS
<1>3. Len(entries) \in Nat /\ n \in Nat /\ n < Len(entries)
  BY <1>1 DEF Central, Inv, Typed
<1>4. e \in Described
  BY <1>2, <1>3 DEF Inv, Typed
<1>5. /\ stage = "central" /\ stage' = "central"
      /\ UNCHANGED <<member, entries, cdStart, accepted>>
  BY DEF Central
<1>6. /\ items' = items \cup {c}
      /\ pos' = pos + HeaderLength(n + 1) /\ length' = length + HeaderLength(n + 1)
  BY <1>1, <1>2 DEF Central, Put, Header, HeaderLength
<1>7. HeaderLength(n + 1) \in Nat /\ HeaderLength(n + 1) > 0
  <2>1. ExtraLength(Extra(e)) \in Nat
    BY DEF ExtraLength, Extra
  <2> QED BY <1>2, <1>4, <2>1 DEF HeaderLength, Described
<1>8. Positions'
  BY <1>5, <1>6, <1>7 DEF Layout, Positions
<1>9. Laid'
  BY <1>5, <1>6, AllStayLaid DEF Layout
<1>10. Heading' /\ Pointed'
  BY <1>5 DEF Heading, Pointed
<1>11. c.kind = "central" /\ c.at = pos
  BY <1>2 DEF Header
<1>12. Unended'
  BY <1>5, <1>6, <1>11 DEF Layout, Unended
<1>13. Centrals' = Centrals \cup {c}
  BY <1>6, <1>11 DEF Centrals
<1>14. /\ w \in [0..n -> Nat] /\ w[0] = cdStart
       /\ \A j, k \in 0..n : j < k => w[j] < w[k]
       /\ \A k \in 1..n : w[k] = w[k - 1] + HeaderLength(k)
       /\ Centrals = {Header(k, w[k - 1]) : k \in 1..n}
  BY <1>1 DEF Lists
<1>15. Written' = n + 1 /\ IsFiniteSet(Centrals)'
  BY <1>1, CentralAdds
<1>16. PICK v : v = [k \in 0..n + 1 |-> IF k = n + 1 THEN pos + HeaderLength(n + 1) ELSE w[k]]
  OBVIOUS
<1>17. /\ \A k \in 0..n : v[k] = w[k]
       /\ v[n + 1] = pos'
       /\ \A k \in 0..n + 1 : v[k] \in Nat
  BY <1>3, <1>6, <1>8, <1>14, <1>16 DEF Positions
<1>18. \A k : HeaderLength(k)' = HeaderLength(k)
  BY <1>5 DEF HeaderLength, Extra, ExtraLength
<1>19. \A k, at : Header(k, at)' = Header(k, at)
  BY <1>5 DEF Header, Extra, Clip
<1>20. v \in [0..n + 1 -> Nat] /\ v[0] = cdStart'
  BY <1>3, <1>5, <1>14, <1>16, <1>17
<1>21. \A j, k \in 0..n + 1 : j < k => v[j] < v[k]
  <2> SUFFICES ASSUME NEW j \in 0..n + 1, NEW k \in 0..n + 1, j < k PROVE v[j] < v[k]
    OBVIOUS
  <2>1. CASE k \in 0..n
    BY <1>3, <1>14, <1>17, <2>1
  <2>2. CASE k = n + 1
    <3>1. j \in 0..n
      BY <1>3, <2>2
    <3>2. w[j] <= w[n]
      BY <1>3, <1>14, <3>1
    <3>3. w[j] \in Nat /\ w[n] \in Nat
      BY <1>3, <1>14, <3>1
    <3>4. v[k] = w[n] + HeaderLength(n + 1)
      BY <1>1, <1>6, <1>17, <2>2
    <3> QED BY <1>7, <1>17, <3>1, <3>2, <3>3, <3>4
  <2> QED BY <1>3, <2>1, <2>2
<1>22. \A k \in 1..n + 1 : v[k] = v[k - 1] + HeaderLength(k)
  <2> SUFFICES ASSUME NEW k \in 1..n + 1 PROVE v[k] = v[k - 1] + HeaderLength(k)
    OBVIOUS
  <2>1. CASE k \in 1..n
    <3>1. v[k] = w[k] /\ v[k - 1] = w[k - 1]
      BY <1>3, <1>17, <2>1
    <3> QED BY <1>14, <2>1, <3>1
  <2>2. CASE k = n + 1
    <3>1. k - 1 = n /\ v[k - 1] = pos
      BY <1>1, <1>3, <1>17, <2>2
    <3> QED BY <1>6, <1>17, <2>2, <3>1
  <2> QED BY <1>3, <2>1, <2>2
<1>23. Centrals' = {Header(k, v[k - 1]) : k \in 1..n + 1}
  <2>1. \A k \in 1..n : v[k - 1] = w[k - 1]
    BY <1>3, <1>17
  <2>2. v[(n + 1) - 1] = pos
    BY <1>1, <1>3, <1>17
  <2>3. 1..n + 1 = (1..n) \cup {n + 1}
    BY <1>3
  <2>4. c = Header(n + 1, v[(n + 1) - 1])
    BY <1>2, <2>2
  <2>5. Centrals = {Header(k, v[k - 1]) : k \in 1..n}
    BY <1>14, <2>1
  <2> HIDE DEF Header
  <2> QED BY <1>13, <2>3, <2>4, <2>5
<1>24. Lists(v, n + 1)'
  BY <1>18, <1>19, <1>20, <1>21, <1>22, <1>23 DEF Lists
<1>25. Listed'
  <2>1. Written' \in 0..Len(entries')
    BY <1>3, <1>5, <1>15
  <2>2. \E u : Lists(u, Written)' /\ u[Written'] = pos'
    BY <1>15, <1>17, <1>24
  <2> QED BY <1>5, <1>15, <2>1, <2>2 DEF Listed
<1> QED BY <1>8, <1>9, <1>10, <1>12, <1>25 DEF Layout

\* The end records: the reader finds the last one, and through it the first header.
LEMMA EndingLayout == ASSUME Inv, Layout, Ending PROVE Layout'
<1> DEFINE count == Len(entries)
           size  == pos - cdStart
           wide  == NeedsEnd64(count, cdStart, size)
           at    == IF wide THEN pos + End64Length + LocatorLength ELSE pos
           clip(v) == IF wide /\ v >= U32Limit THEN U32Limit ELSE U32(v)
           End   == [at |-> at, kind |-> "end", start |-> clip(cdStart),
                     count |-> IF wide THEN U16Limit ELSE U16(count)]
           End64 == [at |-> pos, kind |-> "end64", count |-> count, start |-> cdStart]
           Loc   == [at |-> pos + End64Length, kind |-> "locator", end64 |-> pos]
<1>1. PICK x, y, z, last : x = End /\ y = End64 /\ z = Loc /\ last = at
  OBVIOUS
<1>2. /\ x.at = last /\ x.kind = "end"
      /\ y.at = pos /\ y.kind = "end64" /\ y.count = count /\ y.start = cdStart
      /\ z.at = pos + 56 /\ z.kind = "locator" /\ z.end64 = pos
  BY <1>1 DEF End64Length
<1>3. /\ stage = "central" /\ Written = count /\ stage' = "done"
      /\ items' = items \cup {x} \cup (IF wide THEN {y, z} ELSE {})
      /\ pos' = last + 22 /\ length' = last + 22 - pos + length
      /\ UNCHANGED <<member, entries, cdStart, accepted>>
  BY <1>1 DEF Ending, EndLength
<1>4. /\ count \in Nat /\ pos \in Nat /\ cdStart \in Nat /\ length = pos
      /\ DOMAIN entries = 1..Len(entries)
  BY DEF Layout, Positions, Inv, Typed
<1>5. last = (IF wide THEN pos + 76 ELSE pos) /\ last \in Nat
  BY <1>1, <1>4 DEF End64Length, LocatorLength
<1>6. ~wide => x.count = count /\ x.start = cdStart
  <2> SUFFICES ASSUME ~wide PROVE x.count = count /\ x.start = cdStart
    OBVIOUS
  <2>1. ~(count >= U16Limit) /\ ~(cdStart >= U32Limit)
    BY Zenon DEF NeedsEnd64
  <2>2. U16(count) = count /\ U32(cdStart) = cdStart
    BY <1>4, <2>1, U16Fits, U32Fits, LimitsAreLimits
  <2> QED BY <1>1, <2>2
<1>7. length' = pos' /\ pos' \in Nat
  BY <1>3, <1>4, <1>5
<1>8. Positions'
  BY <1>3, <1>4, <1>7 DEF Positions
<1> HIDE DEF count, size, wide, at, clip, End, End64, Loc
<1>9. items \subseteq items'
  BY <1>3
<1>10. Laid'
  BY <1>3, <1>9, AllStayLaid DEF Layout
<1>11. Heading' /\ Unended'
  BY <1>3 DEF Heading, Unended
<1>12. Centrals' = Centrals
  <2>1. x.kind # "central" /\ y.kind # "central" /\ z.kind # "central"
    BY <1>2
  <2>2. \A i \in items' : i \in items \/ i = x \/ i = y \/ i = z
    BY <1>3
  <2> QED BY <1>9, <2>1, <2>2 DEF Centrals
<1>13. PICK w : Lists(w, count)
  BY <1>3 DEF Layout, Listed
<1>14. Lists(w, count)'
  <2>1. \A k : HeaderLength(k)' = HeaderLength(k)
    BY <1>3 DEF HeaderLength, Extra, ExtraLength
  <2>2. \A k, a : Header(k, a)' = Header(k, a)
    BY <1>3 DEF Header, Extra, Clip
  <2>3. count' = count
    BY <1>3 DEF count
  <2> QED BY <1>3, <1>12, <1>13, <2>1, <2>2, <2>3 DEF Lists
<1>15. Listed'
  BY <1>3, <1>12, <1>14 DEF Layout, Listed, count
<1>16. \A i \in items : i.kind \notin {"end", "end64", "locator"}
  BY <1>3 DEF Layout, Unended
<1>17. \A i \in items' : /\ i.kind = "end" => i = x
                         /\ i.kind = "locator" => i = z /\ wide
                         /\ i.kind = "end64" => i = y
  BY <1>2, <1>3, <1>16
<1>18. x \in items' /\ (wide => y \in items' /\ z \in items')
  BY <1>3
<1>19. Directory' = IF wide THEN y ELSE x
  <2>1. length' - EndLength = last
    BY <1>3, <1>4, <1>5 DEF EndLength
  <2>2. The(length - EndLength, "end")' = x
    <3>1. At(length - EndLength, "end")' = {x}
      BY <1>2, <1>17, <1>18, <2>1 DEF At
    <3> QED BY <3>1 DEF The
  <2>3. CASE ~wide
    <3>1. At(length - EndLength - LocatorLength, "locator")' = {}
      BY <1>17, <2>3 DEF At
    <3> QED BY <2>2, <2>3, <3>1 DEF Directory
  <2>4. CASE wide
    <3>1. length' - EndLength - LocatorLength = pos + 56
      BY <1>3, <1>4, <1>5, <2>4 DEF EndLength, LocatorLength
    <3>2. {i \in items' : i.at = length' - EndLength - LocatorLength /\ i.kind = "locator"} = {z}
      BY <1>2, <1>17, <1>18, <2>4, <3>1
    <3>3. {i \in items' : i.at = z.end64 /\ i.kind = "end64"} = {y}
      BY <1>2, <1>17, <1>18, <2>4
    <3>4. (CHOOSE l \in {z} : TRUE) = z /\ (CHOOSE l \in {y} : TRUE) = y /\ {z} # {}
      OBVIOUS
    <3> QED BY <2>4, <3>2, <3>3, <3>4 DEF Directory, The, At
  <2> QED BY <2>3, <2>4
<1>20. Pointed'
  BY <1>2, <1>3, <1>6, <1>19 DEF Pointed, count
<1> QED BY <1>8, <1>10, <1>11, <1>15, <1>20 DEF Layout

\* Induction on the natural numbers, by way of a least counterexample.
LEMMA Least ==
  ASSUME NEW T, T \subseteq Nat, T # {}
  PROVE  \E n \in T : \A m \in T : n <= m
<1> DEFINE R == OpToRel(<, Nat)
<1>1. IsWellFoundedOn(R, Nat)
  BY NatLessThanWellFounded
<1>2. \A x, y \in Nat : x < y => <<x, y>> \in R
  BY DEF OpToRel
<1> HIDE DEF R
<1>3. PICK n \in T : \A y \in T : ~(<<y, n>> \in R)
  BY <1>1, WFMin, Zenon
<1>4. ASSUME NEW m \in T PROVE n <= m
  <2>1. n \in Nat /\ m \in Nat
    BY T \subseteq Nat
  <2>2. ~(m < n)
    BY <1>2, <1>3, <2>1
  <2> QED BY <2>1, <2>2
<1> QED BY <1>4

\* Where the reader looks for each header: the sum of the lengths it has read.
Where[i \in 0..Len(accepted)] ==
  IF i = 0 THEN Directory.start
  ELSE LET c == The(Where[i - 1], "central")
       IN Where[i - 1] + 46 + c.nlen + ExtraLength(c.extra)

\* It is where they were written.
LEMMA Followed ==
  ASSUME NEW w, NEW n \in Nat, n = Len(accepted), w \in [0..n -> Nat],
         w[0] = Directory.start,
         \A i \in 1..n : LET c == The(w[i - 1], "central")
                         IN w[i] = w[i - 1] + 46 + c.nlen + ExtraLength(c.extra)
  PROVE  \A i \in 0..n : Where[i] = w[i]
<1> DEFINE Hop(f, i) == IF i = 0 THEN Directory.start
                        ELSE LET c == The(f[i - 1], "central")
                             IN f[i - 1] + 46 + c.nlen + ExtraLength(c.extra)
<1>1. \A i \in 0..n : w[i] = Hop(w, i)
  OBVIOUS
<1>2. w = [i \in 0..n |-> Hop(w, i)]
  BY <1>1
<1>3. Where = [i \in 0..n |-> Hop(Where, i)]
  BY <1>2, Zenon DEF Where
<1>4. \A i \in 0..n : Where[i] = Hop(Where, i)
  BY <1>3, Zenon
<1> DEFINE T == {i \in 0..n : Where[i] # w[i]}
<1>5. ASSUME T # {} PROVE FALSE
  <2>1. PICK i \in T : \A j \in T : i <= j
    <3>1. T \subseteq Nat
      OBVIOUS
    <3> QED BY <1>5, <3>1, Least, Zenon
  <2>2. i \in 0..n /\ Where[i] # w[i]
    BY <2>1
  <2>3. i # 0
    BY <1>1, <1>4, <2>2
  <2>4. i - 1 \in 0..n /\ i - 1 \notin T
    BY <2>1, <2>2, <2>3
  <2>5. Where[i - 1] = w[i - 1]
    BY <2>4
  <2>6. Hop(Where, i) = Hop(w, i)
    BY <2>3, <2>5
  <2> QED BY <1>1, <1>4, <2>2, <2>6
<1> QED BY <1>5

\* The layout of a finished zip is what the reader needs.
LEMMA LayoutReadsBack == Inv /\ Layout => ReadsBack
<1> SUFFICES ASSUME Inv, Layout, stage = "done" PROVE ReadsBack
  BY DEF ReadsBack
<1>1. PICK w, n : n = Len(entries) /\ Lists(w, n)
  BY DEF Layout, Listed
<1>2. /\ n \in Nat /\ Len(accepted) = n /\ DOMAIN accepted = 1..n
      /\ Directory.count = n /\ Directory.start = cdStart
      /\ \A k \in 1..n : entries[k] \in Described
  BY <1>1 DEF Inv, Typed, Told, Layout, Pointed
<1>3. /\ w \in [0..n -> Nat] /\ w[0] = cdStart
      /\ \A j, k \in 0..n : j < k => w[j] < w[k]
      /\ \A k \in 1..n : w[k] = w[k - 1] + HeaderLength(k)
      /\ Centrals = {Header(k, w[k - 1]) : k \in 1..n}
  BY <1>1 DEF Lists
<1>4. ASSUME NEW k \in 1..n
      PROVE  /\ At(w[k - 1], "central") = {Header(k, w[k - 1])}
             /\ The(w[k - 1], "central") = Header(k, w[k - 1])
  <2>1. \A j \in 1..n : j # k => w[j - 1] # w[k - 1]
    <3> SUFFICES ASSUME NEW j \in 1..n, j # k PROVE w[j - 1] # w[k - 1]
      OBVIOUS
    <3>1. j - 1 \in 0..n /\ k - 1 \in 0..n /\ (j - 1 < k - 1 \/ k - 1 < j - 1)
      BY <1>2
    <3>2. w[j - 1] < w[k - 1] \/ w[k - 1] < w[j - 1]
      BY <1>3, <3>1
    <3>3. w[j - 1] \in Nat /\ w[k - 1] \in Nat
      BY <1>3, <3>1
    <3> QED BY <3>2, <3>3
  <2>2. \A j : Header(j, w[j - 1]).at = w[j - 1]
    BY DEF Header
  <2>3. At(w[k - 1], "central") = {i \in Centrals : i.at = w[k - 1]}
    BY DEF At, Centrals
  <2>4. At(w[k - 1], "central") = {Header(k, w[k - 1])}
    BY <1>3, <2>1, <2>2, <2>3
  <2> QED BY <2>4 DEF The
<1>5. ASSUME NEW k \in 1..n
      PROVE  Leads(Header(k, w[k - 1]), accepted[k]) /\ U16(entries[k].name) = entries[k].name
  <2>1. PICK e, m, c : e = entries[k] /\ m = accepted[k] /\ c = Header(k, w[k - 1])
    OBVIOUS
  <2>2. e.crc = k /\ Leading(e, k, m)
    BY <1>1, <2>1 DEF Layout, Laid
  <2>3. e \in Described /\ e.size = m.size /\ e.packed = m.packed
    BY <1>1, <1>2, <2>1 DEF Inv, Told
  <2>4. /\ c.size = Clip(e.size) /\ c.packed = Clip(e.packed) /\ c.offset = Clip(e.offset)
        /\ c.extra = Extra(e) /\ c.nlen = U16(e.name) /\ c.crc = k
    BY <2>1, <2>2 DEF Header
  <2>5. /\ Field(c, "size", {}) = e.size
        /\ Field(c, "packed", {"size"}) = e.packed
        /\ Field(c, "offset", {"size", "packed"}) = e.offset
    BY <2>3, <2>4, FieldsRead
  <2>6. PICK l \in At(e.offset, "local") :
          LET data == e.offset + LocalLength(l.nlen, l.zip64) IN
          /\ l.nlen = e.name /\ e.name = m.name /\ U16(e.name) = e.name
          /\ \E d \in At(data, "data") : d.length = e.packed /\ d.crc = k
          /\ IF l.descriptor
             THEN \E d \in At(data + e.packed, "descriptor") :
                    /\ d.wide = l.zip64 /\ d.crc = k
                    /\ d.packed = e.packed /\ d.size = e.size
             ELSE l.crc = k /\ e.size = IF l.zip64 THEN l.wide ELSE l.size
    BY <2>2, Zenon DEF Leading
  <2>7. Leads(c, m)
    BY <2>3, <2>4, <2>5, <2>6, Zenon DEF Leads
  <2> QED BY <2>1, <2>6, <2>7
<1>6. \A i \in 1..n : LET c == The(w[i - 1], "central")
                      IN w[i] = w[i - 1] + 46 + c.nlen + ExtraLength(c.extra)
  <2> SUFFICES ASSUME NEW i \in 1..n
               PROVE  w[i] = w[i - 1] + 46 + The(w[i - 1], "central").nlen
                             + ExtraLength(The(w[i - 1], "central").extra)
    OBVIOUS
  <2>1. PICK c : c = Header(i, w[i - 1])
    OBVIOUS
  <2>2. c.nlen = entries[i].name /\ c.extra = Extra(entries[i])
    BY <1>5, <2>1 DEF Header
  <2>3. w[i] = w[i - 1] + (46 + entries[i].name + ExtraLength(Extra(entries[i])))
    BY <1>3 DEF HeaderLength
  <2>4. /\ entries[i].name \in Nat /\ ExtraLength(Extra(entries[i])) \in Nat
        /\ w[i - 1] \in Nat
    BY <1>2, <1>3 DEF Described, ExtraLength, Extra
  <2>5. The(w[i - 1], "central") = c
    BY <1>4, <2>1
  <2> QED BY <2>2, <2>3, <2>4, <2>5
<1>7. \A i \in 0..n : Where[i] = w[i]
  BY <1>2, <1>3, <1>6, Followed
<1>8. \A i \in DOMAIN accepted :
        /\ At(Where[i - 1], "central") # {}
        /\ Leads(The(Where[i - 1], "central"), accepted[i])
  <2> SUFFICES ASSUME NEW i \in 1..n
               PROVE  /\ At(Where[i - 1], "central") # {}
                      /\ Leads(The(Where[i - 1], "central"), accepted[i])
    BY <1>2
  <2>1. Where[i - 1] = w[i - 1]
    BY <1>2, <1>7
  <2>2. At(Where[i - 1], "central") = {Header(i, w[i - 1])}
        /\ The(Where[i - 1], "central") = Header(i, w[i - 1])
    BY <1>4, <2>1
  <2>3. Leads(Header(i, w[i - 1]), accepted[i])
    BY <1>5
  <2> QED BY <2>2, <2>3
<1> QED BY <1>2, <1>8 DEF ReadsBack, Where

\* Every step keeps the layout.
LEMMA StepKeepsLayout == NamesFit /\ Inv /\ Inv' /\ Layout /\ [Next]_vars => Layout'
<1> SUFFICES ASSUME NamesFit, Inv, Inv', Layout, [Next]_vars PROVE Layout'
  OBVIOUS
<1>1. CASE Opens
  BY <1>1, OpensLayout DEF Opens
<1>2. CASE Copy
  BY <1>2, CopyLayout
<1>3. CASE CloseStored
  <2>1. \/ Refuse
        \/ /\ stage = "copying" /\ member.kind = "stored" /\ member.size = member.yields
           /\ Close(member.size, member.size)
           /\ items' = items \cup {Data(member.size)} /\ UNCHANGED <<pos, length>>
    BY <1>3 DEF CloseStored, Inv, Promised
  <2> QED BY <2>1, StoredLayout, RefuseLayout
<1>4. CASE CloseDeflated
  <2>1. stage = "copying" /\ member.kind = "deflated" /\ member.got = member.yields
    BY <1>4 DEF CloseDeflated
  <2>2. PICK packed \in {2, DeflateBound(member.yields)} : Describe(packed, member.yields)
    BY <1>4, <2>1 DEF CloseDeflated
  <2>3. packed \in Nat
    BY <2>1, BoundGrows DEF Inv, Promised
  <2> QED BY <2>1, <2>2, <2>3, DescribedLayout
<1>5. CASE CloseCopied
  <2>1. stage = "copying" /\ member.kind = "copied" /\ member.packed \in Nat
    BY <1>5 DEF CloseCopied, Inv, Promised
  <2>2. Refuse \/ Describe(member.packed, member.yields)
    BY <1>5 DEF CloseCopied
  <2> QED BY <2>1, <2>2, DescribedLayout, RefuseLayout
<1>6. CASE Finish
  BY <1>6, FinishLayout
<1>7. CASE Central
  BY <1>7, CentralLayout
<1>8. CASE Ending
  BY <1>8, EndingLayout
<1>9. CASE Fails
  BY <1>9, RefuseLayout DEF Fails
<1>10. CASE UNCHANGED vars
  <2>1. Laid'
    BY <1>10, AllStayLaid DEF Layout, vars
  <2>2. UNCHANGED <<stage, member, pos, length, items, entries, cdStart, accepted>>
    BY <1>10 DEF vars
  <2>3. Positions' /\ Heading' /\ Unended'
    BY <2>2 DEF Layout, Positions, Heading, At, Unended
  <2>4. Centrals' = Centrals /\ Written' = Written
    BY <2>2 DEF Centrals, Written
  <2>5. \A w, n : Lists(w, n)' = Lists(w, n)
    BY <2>2 DEF Lists, Centrals, Header, HeaderLength, Extra, ExtraLength, Clip
  <2>6. Listed'
    BY <2>2, <2>4, <2>5 DEF Layout, Listed
  <2>7. Pointed'
    BY <2>2 DEF Layout, Pointed, Directory, The, At
  <2> QED BY <2>1, <2>3, <2>6, <2>7 DEF Layout
<1> QED BY <1>1, <1>2, <1>3, <1>4, <1>5, <1>6, <1>7, <1>8, <1>9, <1>10 DEF Next

\* Nothing is laid out yet.
LEMMA InitLays == Init => Inv /\ Layout
<1> SUFFICES ASSUME Init PROVE Inv /\ Layout
  OBVIOUS
<1>1. Inv
  BY DEF Init, Inv, Typed, Named, Promised, Told, Fit
<1>2. Centrals = {}
  BY DEF Init, Centrals
<1>3. Layout
  BY <1>2, FS_EmptySet DEF Init, Layout, Positions, Laid, Heading, Listed, Unended, Pointed
<1> QED BY <1>1, <1>3

\* Every member the caller was told of is found again by a reader that has the
\* bytes alone, with its name, size and CRC (finish, end_deflated), as long as
\* no name is longer than the 16 bits its length is written in.
THEOREM ReadsBackFromBytes == NamesFit => (Spec => []ReadsBack)
<1>1. Init => Inv /\ Layout
  BY InitLays
<1>2. NamesFit /\ Inv /\ Layout /\ [Next]_vars => (Inv /\ Layout)'
  BY StepKeepsInv, StepKeepsLayout
<1>3. Inv /\ Layout => ReadsBack
  BY LayoutReadsBack
<1>4. ASSUME NamesFit PROVE Spec => []ReadsBack
  <2>1. Inv /\ Layout /\ [Next]_vars => (Inv /\ Layout)'
    BY <1>2, <1>4
  <2> QED BY <1>1, <1>3, <2>1, PTL DEF Spec
<1> QED BY <1>4

-----------------------------------------------------------------------------
(***************************************************************************)
(* How long the zip can get.  A member costs its headers, at most          *)
(* Headroom, and what the compressor makes of its bytes, at most ten more  *)
(* for every 65535 of them; so what is left to write never takes the       *)
(* output past Reach of what was counted for the members.                  *)
(***************************************************************************)

\* The allowances are enough: Headroom for the headers of a member with the
\* longest name, twice, and the compressor's 74 bytes; Slack for the blocks of
\* all that 32 bits can count, and the end records.
Ample(longest) ==
  /\ \A n \in NameLengths : n <= longest
  /\ 222 + 2 * longest <= Headroom
  /\ 10 * (U32Limit \div 65535) + 98 <= Slack

Reach(n) == n + 10 * (n \div 65535)

\* A member's header in the directory, at its longest.
Most(longest) == 74 + longest

\* What a member being copied still adds before its header in the directory.
Rest ==
  CASE member.kind = "stored"   -> member.size - member.got
    [] member.kind = "deflated" -> DeflateBound(member.size) + 24
    [] member.kind = "copied"   -> member.packed + 24

\* n headers still to be written fit.
Fits(longest, n) == length + n * Most(longest) <= Reach(counted - Slack)

Within(longest) ==
  /\ counted \in Nat /\ Slack <= counted /\ length \in Nat
  /\ \A i \in 1..Len(entries) : entries[i].name <= longest
  /\ stage = "copying" => member.name <= longest
  /\ stage = "idle" => Fits(longest, Len(entries))
  /\ stage = "copying" =>
       length + Rest + (Len(entries) + 1) * Most(longest) <= Reach(counted - Slack)
  /\ stage = "central" =>
       Written \in 0..Len(entries) /\ Fits(longest, Len(entries) - Written)
  /\ stage = "done" => length <= Reach(counted - Slack) + 98

\* Members counted together reach as far as each by itself, or further.
LEMMA ReachGrows ==
  ASSUME NEW a \in Nat, NEW b \in Nat
  PROVE  /\ Reach(a) \in Nat /\ Reach(a) + Reach(b) <= Reach(a + b)
         /\ a <= b => Reach(a) <= Reach(b)
         /\ DeflateBound(a) = Reach(a) + 74 /\ a <= Reach(a)
BY SMT DEF Reach, DeflateBound

\* Multiplication, as far as it is needed.
LEMMA OneMore ==
  ASSUME NEW n \in Nat, NEW k \in Nat
  PROVE  n * k \in Nat /\ (n + 1) * k = n * k + k
BY SMT

LEMMA EntriesCount == ASSUME Inv PROVE Len(entries) \in Nat
<1>1. entries \in Seq(Described)
  BY DEF Inv, Typed
<1> QED BY <1>1

\* What is counted for a member covers all it will add.
LEMMA OpensWithin ==
  ASSUME NEW longest \in Nat, Ample(longest), Inv, Layout, Within(longest),
         NEW kind \in {"stored", "deflated", "copied"}, NEW name \in NameLengths,
         NEW size \in Sizes, NEW yields \in Sizes, NEW packed \in Sizes,
         NEW honest \in BOOLEAN, Open(kind, name, size, yields, packed, honest)
  PROVE  Within(longest)'
<1>1. /\ name \in Nat /\ size \in Nat /\ packed \in Nat /\ name <= longest
      /\ Headroom \in Nat /\ Slack \in Nat /\ 222 + 2 * longest <= Headroom
  BY LimitsAreLimits DEF Ample
<1>2. /\ stage = "idle" /\ stage' = "copying" /\ entries' = entries
      /\ member'.kind = kind /\ member'.size = size /\ member'.packed = packed
      /\ member'.got = 0 /\ member'.name = name
      /\ length' = length + LocalLength(name, Zip64(kind, size))
      /\ counted' = counted + Counted(kind, size, packed)
  BY DEF Open, Put
<1>3. /\ LocalLength(name, Zip64(kind, size)) \in Nat
      /\ LocalLength(name, Zip64(kind, size)) <= 50 + longest
  BY <1>1 DEF LocalLength
<1>4. PICK n, c, R, K, add :
        /\ n = Len(entries) /\ c = counted - Slack /\ R = Counted(kind, size, packed)
        /\ K = Most(longest) /\ add = LocalLength(name, Zip64(kind, size))
  OBVIOUS
<1>5. n \in Nat /\ c \in Nat /\ K \in Nat /\ counted \in Nat /\ length \in Nat
  <2>1. counted \in Nat /\ Slack <= counted /\ length \in Nat
    BY DEF Within
  <2>2. n \in Nat
    BY <1>4, EntriesCount
  <2>3. longest \in Nat /\ K = 74 + longest
    BY <1>4 DEF Most
  <2>4. c \in Nat
    BY <1>1, <1>4, <2>1
  <2> QED BY <2>1, <2>2, <2>3, <2>4
<1>6. /\ R \in Nat
      /\ kind \in {"stored", "deflated"} => R = size + Headroom
      /\ kind = "copied" => R >= size + Headroom /\ R >= packed + Headroom
  BY <1>1, <1>4 DEF Counted, Bigger
<1>7. counted' - Slack = c + R
  BY <1>1, <1>2, <1>4, <1>5, <1>6, SMTT(30)
<1>8. PICK rest : rest = CASE kind = "stored"   -> size
                           [] kind = "deflated" -> DeflateBound(size) + 24
                           [] kind = "copied"   -> packed + 24
  OBVIOUS
<1>9. Rest' = rest
  BY <1>1, <1>2, <1>8 DEF Rest
<1>10. add \in Nat /\ rest \in Nat /\ add + rest + K <= Reach(R)
  <2>1. add \in Nat /\ add <= 50 + longest /\ K = 74 + longest
    BY <1>3, <1>4 DEF Most
  <2>2. CASE kind = "stored"
    BY <1>1, <1>6, <1>8, <2>1, <2>2, ReachGrows
  <2>3. CASE kind = "deflated"
    <3>1. rest = Reach(size) + 98 /\ Reach(size) \in Nat
      BY <1>1, <1>8, <2>3, ReachGrows
    <3>2. Reach(size) + Reach(Headroom) <= Reach(R) /\ Headroom <= Reach(Headroom)
          /\ Reach(Headroom) \in Nat /\ Reach(R) \in Nat
      BY <1>1, <1>6, <2>3, ReachGrows
    <3> QED BY <1>1, <2>1, <3>1, <3>2
  <2>4. CASE kind = "copied"
    <3>1. R <= Reach(R) /\ Reach(R) \in Nat
      BY <1>6, ReachGrows
    <3> QED BY <1>1, <1>6, <1>8, <2>1, <2>4, <3>1
  <2> QED BY <2>2, <2>3, <2>4
<1>11. length + n * K <= Reach(c)
  BY <1>2, <1>4 DEF Within, Fits
<1>12. n * K \in Nat /\ (n + 1) * K = n * K + K
  BY <1>5, OneMore
<1>13. /\ Reach(c) + Reach(R) <= Reach(c + R)
       /\ Reach(c) \in Nat /\ Reach(R) \in Nat /\ Reach(c + R) \in Nat
  <2>1. c + R \in Nat
    BY <1>5, <1>6
  <2> QED BY <1>5, <1>6, <2>1, ReachGrows, Zenon
<1>14. length' = length + add /\ length' \in Nat
  <2>1. length' = length + add
    BY <1>2, <1>4, Zenon
  <2> QED BY <1>5, <1>10, <2>1
<1>15. length' + rest + (n + 1) * K <= Reach(c + R)
  BY <1>5, <1>10, <1>11, <1>12, <1>13, <1>14
<1>16. length' + Rest' + (Len(entries') + 1) * Most(longest) <= Reach(counted' - Slack)
  BY <1>2, <1>4, <1>7, <1>9, <1>15
<1>17. \A i \in 1..Len(entries') : entries'[i].name <= longest
  BY <1>2 DEF Within
<1>18. counted' \in Nat /\ Slack <= counted'
  <2>1. counted' = counted + R
    BY <1>2, <1>4, Zenon
  <2>2. Slack <= counted
    BY DEF Within
  <2> QED BY <1>1, <1>5, <1>6, <2>1, <2>2
<1> QED BY <1>1, <1>2, <1>14, <1>16, <1>17, <1>18 DEF Within

\* What a read adds to the output, the rest loses.
LEMMA CopyWithin ==
  ASSUME NEW longest \in Nat, Inv, Within(longest), Copy
  PROVE  Within(longest)'
<1>1. /\ stage = "copying" /\ stage' \in {"copying", "failed"} /\ member.kind # "copied"
      /\ UNCHANGED <<entries, counted>>
  BY DEF Copy
<1>2. /\ member.got \in Nat /\ member.yields \in Nat /\ member.size \in Nat
      /\ member.got <= member.yields /\ Chunk \in Nat
      /\ member.kind \in {"stored", "deflated"} /\ member.got <= member.size
  BY <1>1, LimitsAreLimits DEF Inv, Promised
<1>3. PICK n \in Nat :
        /\ member' = [member EXCEPT !.got = @ + n]
        /\ length' = IF member.kind = "stored" THEN length + n ELSE length
  BY <1>1, <1>2 DEF Copy, Want
<1>4. /\ member'.kind = member.kind /\ member'.size = member.size
      /\ member'.packed = member.packed /\ member'.name = member.name
      /\ member'.got = member.got + n
  BY <1>3 DEF Inv, Named
<1>5. length' + Rest' = length + Rest /\ length' \in Nat
  <2>1. length \in Nat
    BY DEF Within
  <2>2. CASE member.kind = "stored"
    <3>1. Rest = member.size - member.got /\ Rest' = member.size - (member.got + n)
      BY <1>4, <2>2 DEF Rest
    <3> QED BY <1>2, <1>3, <2>1, <2>2, <3>1
  <2>3. CASE member.kind = "deflated"
    <3>1. Rest' = Rest
      BY <1>4, <2>3 DEF Rest
    <3> QED BY <1>3, <2>1, <2>3, <3>1
  <2> QED BY <1>2, <2>2, <2>3
<1> QED BY <1>1, <1>4, <1>5 DEF Within

\* A member's last bytes are no more than the rest allowed.
LEMMA ClosedWithin ==
  ASSUME NEW longest \in Nat, Inv, Within(longest), stage = "copying",
         NEW packed, NEW size, Close(packed, size), NEW used \in Nat,
         length' = length + used, used <= Rest, Rest \in Nat,
         Entry(packed, size) \in Described
  PROVE  Within(longest)'
<1>1. /\ stage' = "idle" /\ entries' = Append(entries, Entry(packed, size))
      /\ counted' = counted
  BY DEF Close
<1>2. Entry(packed, size).name = member.name
  BY DEF Entry
<1>3. PICK n, K, R : n = Len(entries) /\ K = Most(longest) /\ R = Reach(counted - Slack)
  OBVIOUS
<1>4. n \in Nat /\ K \in Nat /\ length \in Nat
  BY <1>3 DEF Inv, Typed, Most, Within
<1>5. (n + 1) * K \in Nat /\ R \in Nat
  <2>1. n + 1 \in Nat
    BY <1>4
  <2>2. counted - Slack \in Nat
    BY LimitsAreLimits DEF Within
  <2> QED BY <1>3, <1>4, <2>1, <2>2, OneMore, ReachGrows, Zenon
<1>6. length + Rest + (n + 1) * K <= R
  BY <1>3 DEF Within
<1>7. length' + (n + 1) * K <= R /\ length' \in Nat
  BY <1>4, <1>5, <1>6
<1>8. /\ Len(entries') = n + 1
      /\ \A i \in 1..Len(entries') : entries'[i].name <= longest
  <2>1. PICK e : e = Entry(packed, size)
    OBVIOUS
  <2>2. /\ Len(entries') = Len(entries) + 1 /\ Len(entries) \in Nat
        /\ \A i \in 1..Len(entries) : entries'[i] = entries[i]
        /\ entries'[Len(entries) + 1] = e
    BY <1>1, <2>1 DEF Inv, Typed
  <2>3. e.name <= longest
    BY <1>2, <2>1 DEF Within
  <2>4. \A i \in 1..Len(entries) : entries[i].name <= longest
    BY DEF Within
  <2> QED BY <1>3, <2>2, <2>3, <2>4
<1>9. Fits(longest, Len(entries))'
  <2>1. length' + Len(entries') * Most(longest) <= Reach(counted' - Slack)
    BY <1>1, <1>3, <1>7, <1>8
  <2> QED BY <2>1 DEF Fits
<1> QED BY <1>1, <1>7, <1>8, <1>9 DEF Within

\* A stored member adds nothing more.
LEMMA StoredWithin ==
  ASSUME NEW longest \in Nat, Inv, Within(longest), stage = "copying",
         member.kind = "stored", member.got <= member.size,
         Close(member.size, member.size), UNCHANGED length
  PROVE  Within(longest)'
<1>1. Entry(member.size, member.size) \in Described
  BY DEF Inv, Named, Promised, Typed, Entry, Described
<1>2. Rest \in Nat /\ length \in Nat
  BY DEF Rest, Inv, Promised, Within
<1>3. 0 <= Rest /\ length' = length + 0
  BY <1>2
<1> QED BY <1>1, <1>2, <1>3, ClosedWithin

\* A deflated one adds its data and its descriptor.
LEMMA DescribedWithin ==
  ASSUME NEW longest \in Nat, Inv, Within(longest), stage = "copying",
         NEW packed \in Nat, Describe(packed, member.yields),
         \/ member.kind = "deflated" /\ packed <= DeflateBound(member.size)
         \/ member.kind = "copied" /\ packed = member.packed
  PROVE  Within(longest)'
<1>1. Entry(packed, member.yields) \in Described
  BY DEF Inv, Named, Promised, Typed, Entry, Described
<1>2. PICK d \in Nat : d = DescriptorLength(member.zip64) /\ d <= 24
  BY DEF DescriptorLength
<1>3. /\ Close(packed, member.yields)
      /\ length' = length + packed + d
  BY <1>2 DEF Describe
<1>4. member.size \in Nat /\ DeflateBound(member.size) \in Nat
  BY BoundGrows DEF Inv, Promised
<1>5. Rest \in Nat /\ packed + d <= Rest
  BY <1>2, <1>4 DEF Rest
<1>6. packed + d \in Nat /\ length' = length + (packed + d)
  BY <1>2, <1>3 DEF Within
<1> QED BY <1>1, <1>3, <1>5, <1>6, ClosedWithin

\* No header is written yet.
LEMMA FinishWithin ==
  ASSUME NEW longest \in Nat, Inv, Layout, Layout', Within(longest), Finish
  PROVE  Within(longest)'
<1>1. /\ stage = "idle" /\ stage' = "central"
      /\ UNCHANGED <<member, length, items, entries, counted>>
  BY DEF Finish
<1>2. Written' = 0
  <2>1. Centrals = {}
    BY <1>1 DEF Layout, Listed
  <2> QED BY <1>1, <2>1, FS_EmptySet DEF Written, Centrals
<1>3. Len(entries) \in Nat
  BY DEF Inv, Typed
<1>4. Written' \in 0..Len(entries') /\ Len(entries') - Written' = Len(entries)
  BY <1>1, <1>2, <1>3
<1>5. Fits(longest, Len(entries))
  BY <1>1 DEF Within
<1>6. length' + (Len(entries') - Written') * Most(longest) <= Reach(counted' - Slack)
  BY <1>1, <1>4, <1>5 DEF Fits
<1>7. Fits(longest, Len(entries) - Written)'
  BY <1>6 DEF Fits
<1> QED BY <1>1, <1>4, <1>7 DEF Within

\* One header is written, one less is to come.
LEMMA CentralWithin ==
  ASSUME NEW longest \in Nat, Inv, Layout, Layout', Within(longest), Central,
         Written' = Written + 1
  PROVE  Within(longest)'
<1>1. /\ stage = "central" /\ stage' = "central" /\ UNCHANGED <<entries, counted>>
      /\ Written < Len(entries) /\ Written \in 0..Len(entries)
  BY DEF Central, Within
<1>2. PICK n, e, h, K, R :
        /\ n = Len(entries) - (Written + 1) /\ e = entries[Written + 1]
        /\ h = 46 + e.name + ExtraLength(Extra(e))
        /\ K = Most(longest) /\ R = Reach(counted - Slack)
  OBVIOUS
<1>3. Len(entries) \in Nat /\ n \in Nat /\ K \in Nat /\ e \in Described
  BY <1>1, <1>2 DEF Inv, Typed, Most
<1>4. length' = length + h
  BY <1>2 DEF Central, Put
<1>5. h \in Nat /\ h <= K
  <2>1. ExtraLength(Extra(e)) \in Nat /\ ExtraLength(Extra(e)) <= 28
    BY DEF ExtraLength, Extra
  <2>2. e.name <= longest /\ e.name \in Nat
    BY <1>1, <1>2, <1>3 DEF Within, Described
  <2> QED BY <1>2, <2>1, <2>2, SMTT(30) DEF Most
<1>6. length + (n + 1) * K <= R
  <2>1. n + 1 = Len(entries) - Written
    BY <1>1, <1>2, <1>3
  <2> QED BY <1>1, <1>2, <2>1 DEF Within, Fits
<1>7. n * K \in Nat /\ (n + 1) * K = n * K + K
  BY <1>3, OneMore
<1>8. R \in Nat
  <2>1. counted - Slack \in Nat
    BY LimitsAreLimits DEF Within
  <2> QED BY <1>2, <2>1, ReachGrows
<1>9. length \in Nat
  BY DEF Within
<1>10. length' + n * K <= R /\ length' \in Nat
  BY <1>3, <1>4, <1>5, <1>6, <1>7, <1>8, <1>9
<1>11. Written' \in 0..Len(entries') /\ Len(entries') - Written' = n
  BY <1>1, <1>2, <1>3
<1>12. length' + (Len(entries') - Written') * Most(longest) <= Reach(counted' - Slack)
  BY <1>1, <1>2, <1>10, <1>11
<1>13. Fits(longest, Len(entries) - Written)'
  BY <1>12 DEF Fits
<1> QED BY <1>1, <1>10, <1>11, <1>13 DEF Within

\* None is to come; the end records are 98 bytes at most.
LEMMA EndingWithin ==
  ASSUME NEW longest \in Nat, Inv, Layout, Within(longest), Ending
  PROVE  Within(longest)'
<1>1. /\ stage = "central" /\ stage' = "done" /\ UNCHANGED <<entries, counted>>
      /\ Written = Len(entries)
  BY DEF Ending
<1>2. length \in Nat /\ pos = length /\ Len(entries) \in Nat
  BY DEF Layout, Positions, Within, Inv, Typed
<1>3. length' \in Nat /\ length' <= length + 98
  BY <1>2 DEF Ending, EndLength, End64Length, LocatorLength
<1>4. Len(entries) - Written = 0 /\ 0 * Most(longest) = 0
  BY <1>1, <1>2 DEF Most
<1>5. length <= Reach(counted - Slack)
  BY <1>1, <1>2, <1>4 DEF Within, Fits
<1>6. Reach(counted - Slack) \in Nat
  <2>1. counted - Slack \in Nat
    BY LimitsAreLimits DEF Within
  <2> QED BY <2>1, ReachGrows
<1>7. length' <= Reach(counted' - Slack) + 98
  BY <1>1, <1>2, <1>3, <1>5, <1>6
<1> QED BY <1>1, <1>3, <1>7 DEF Within

\* Every step but a failure stays within what was counted.
LEMMA StepStaysWithin ==
  ASSUME NEW longest \in Nat, Ample(longest), Inv, Layout, Layout', Within(longest),
         [Next]_vars
  PROVE  Within(longest)'
<1>1. CASE Opens
  BY <1>1, OpensWithin DEF Opens
<1>2. CASE Copy
  BY <1>2, CopyWithin
<1>3. CASE Refuse
  BY <1>3 DEF Refuse, Within
<1>4. CASE CloseStored
  <2>1. \/ Refuse
        \/ /\ stage = "copying" /\ member.kind = "stored" /\ member.got <= member.size
           /\ Close(member.size, member.size) /\ UNCHANGED length
    BY <1>4 DEF CloseStored, Inv, Promised
  <2> QED BY <1>3, <2>1, StoredWithin
<1>5. CASE CloseDeflated
  <2>1. stage = "copying" /\ member.kind = "deflated" /\ member.got = member.yields
    BY <1>5 DEF CloseDeflated
  <2>2. PICK packed \in {2, DeflateBound(member.yields)} : Describe(packed, member.yields)
    BY <1>5, <2>1 DEF CloseDeflated
  <2>3. member.yields \in Nat /\ member.size \in Nat /\ member.yields <= member.size
    BY <2>1 DEF Inv, Promised
  <2>4. /\ packed \in Nat /\ packed <= DeflateBound(member.size)
        /\ member.yields + 74 <= DeflateBound(member.size)
        /\ DeflateBound(member.size) \in Nat
    BY <2>3, BoundGrows
  <2> QED BY <2>1, <2>2, <2>4, DescribedWithin
<1>6. CASE CloseCopied
  <2>1. stage = "copying" /\ member.kind = "copied" /\ member.packed \in Nat
    BY <1>6 DEF CloseCopied, Inv, Promised
  <2>2. Refuse \/ Describe(member.packed, member.yields)
    BY <1>6 DEF CloseCopied
  <2> QED BY <1>3, <2>1, <2>2, DescribedWithin
<1>7. CASE Finish
  BY <1>7, FinishWithin
<1>8. CASE Central
  BY <1>8, CentralAdds, CentralWithin
<1>9. CASE Ending
  BY <1>9, EndingWithin
<1>10. CASE Fails
  BY <1>3, <1>10 DEF Fails
<1>11. CASE UNCHANGED vars
  <2>1. UNCHANGED <<stage, member, length, items, entries, counted>>
    BY <1>11 DEF vars
  <2>2. Rest' = Rest /\ Written' = Written /\ \A n : Fits(longest, n)' = Fits(longest, n)
    BY <2>1 DEF Rest, Written, Fits
  <2>3. Fits(longest, Len(entries))' = Fits(longest, Len(entries))
    BY <2>1 DEF Fits
  <2>4. Fits(longest, Len(entries) - Written)' = Fits(longest, Len(entries) - Written)
    BY <2>1, <2>2 DEF Fits
  <2> QED BY <2>1, <2>2, <2>3, <2>4 DEF Within
<1> QED BY <1>1, <1>2, <1>4, <1>5, <1>6, <1>7, <1>8, <1>9, <1>10, <1>11 DEF Next

\* The finished zip is no longer than what reencrypt_to counted for it
\* (per_entry's could_reach), as long as that fits 32 bits, which is what
\* describing the new package turns on, and the names leave Headroom enough:
\* with 1024 bytes of it, names of up to 401.
THEOREM CountedEnough ==
  ASSUME NEW longest \in Nat, NamesFit, Ample(longest)
  PROVE  Spec => [](counted <= U32Limit => WithinReach)
<1>1. Init => Inv /\ Layout /\ Within(longest)
  <2> SUFFICES ASSUME Init PROVE Inv /\ Layout /\ Within(longest)
    OBVIOUS
  <2>1. Inv /\ Layout
    BY InitLays
  <2>2. Len(entries) = 0 /\ length = 0 /\ counted = Slack /\ stage = "idle"
    BY DEF Init
  <2>3. 0 * Most(longest) = 0 /\ Slack - Slack = 0 /\ Slack \in Nat
    BY LimitsAreLimits DEF Most
  <2>4. Fits(longest, Len(entries))
    BY <2>2, <2>3, ReachGrows DEF Fits
  <2> QED BY <2>1, <2>2, <2>3, <2>4 DEF Within
<1>2. Inv /\ Layout /\ Within(longest) /\ [Next]_vars => (Inv /\ Layout /\ Within(longest))'
  BY StepKeepsInv, StepKeepsLayout, StepStaysWithin
<1>3. Inv /\ Layout /\ Within(longest) => (counted <= U32Limit => WithinReach)
  <2> SUFFICES ASSUME Within(longest), counted <= U32Limit, stage = "done"
               PROVE  length <= counted
    BY DEF WithinReach
  <2>1. /\ counted \in Nat /\ Slack <= counted /\ length \in Nat
        /\ length <= Reach(counted - Slack) + 98 /\ U32Limit \in Nat /\ Slack \in Nat
    BY LimitsAreLimits DEF Within
  <2>2. 10 * (U32Limit \div 65535) + 98 <= Slack
    BY DEF Ample
  <2>3. PICK c \in Nat : c = counted - Slack /\ c <= U32Limit
    BY <2>1
  <2>4. c \div 65535 <= U32Limit \div 65535 /\ c \div 65535 \in Nat
        /\ U32Limit \div 65535 \in Nat
    BY <2>1, <2>3
  <2> QED BY <2>1, <2>2, <2>3, <2>4 DEF Reach
<1> QED BY <1>1, <1>2, <1>3, PTL DEF Spec
=============================================================================
