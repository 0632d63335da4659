------------------------------ MODULE ZipStream ------------------------------
(***************************************************************************)
(* ZipStreamWriter (src/zip_stream.rs): a zip for an output that cannot    *)
(* seek.  Sizes that are not known when a local header is written go in a  *)
(* data descriptor after the data, 64-bit when the local header carries a  *)
(* Zip64 extra field, which is decided before the data is seen.  decrypt   *)
(* writes the rebuilt package through it, and reencrypt_to guesses from    *)
(* the source how long that package can get.                               *)
(*                                                                         *)
(* Abstractions.  The output is a set of items, each at its offset and     *)
(* with the fields a reader follows; a field of w bytes keeps its value    *)
(* modulo the width.  A CRC is the number of the member whose bytes it is  *)
(* the CRC of, 0 for none.  U32Limit and U16Limit stand for 2^32 - 1 and   *)
(* 2^16 - 1, and Chunk for CHUNK, at sizes TLC can reach; lengths of the   *)
(* format's own records are the real ones.                                 *)
(***************************************************************************)
EXTENDS Integers, Sequences, FiniteSets

CONSTANTS
  U32Limit,       \* u32::MAX: a 32-bit field at this value is in Zip64
  U16Limit,       \* u16::MAX
  Chunk,          \* CHUNK, what one read of a source yields at most
  NameLengths,    \* lengths of the names the members are given
  Sizes,          \* sizes the caller expects, and the sources turn out to have
  MaxMembers,     \* bound: members written
  Headroom,       \* the 1024 bytes reencrypt_to allows a member on top of its size
  Slack           \* the 1 MiB it allows for the rest

ASSUME LimitsAreLimits ==
  /\ U32Limit \in Nat \ {0} /\ U16Limit \in Nat \ {0} /\ Chunk \in Nat \ {0}
  /\ NameLengths \subseteq Nat /\ Sizes \subseteq Nat /\ MaxMembers \in Nat
  /\ Headroom \in Nat /\ Slack \in Nat

VARIABLES
  stage,          \* "idle", "copying", "central", "done", "failed"
  member,         \* the member being written, NoMember when there is none
  pos,            \* ZipStreamWriter::pos
  length,         \* bytes the output has taken
  items,          \* what those bytes are
  entries,        \* ZipStreamWriter::entries
  cdStart,        \* where the central directory begins
  accepted,       \* the members the caller was told are written, as they really are
  counted         \* reencrypt_to's could_reach

vars == <<stage, member, pos, length, items, entries, cdStart, accepted, counted>>

-----------------------------------------------------------------------------
U16(v) == v % (U16Limit + 1)
U32(v) == v % (U32Limit + 1)
Bigger(a, b) == IF a > b THEN a ELSE b

NoMember == [kind |-> "none"]

\* deflate_bound: 5 bytes per stored block, doubled and padded.
DeflateBound(n) == n + (n \div 65535 + 1) * 10 + 64

\* Whether the local header carries a Zip64 extra field.
Zip64(kind, size) ==
  IF kind = "stored" THEN size >= U32Limit
  ELSE DeflateBound(size) >= U32Limit \/ size >= U32Limit

LocalLength(n, zip64)  == 30 + n + (IF zip64 THEN 20 ELSE 0)
DescriptorLength(zip64) == IF zip64 THEN 24 ELSE 16
EndLength   == 22
End64Length == 56
LocatorLength == 20

\* put: the bytes are written, then counted.
Put(item, n) ==
  /\ items' = items \cup {item}
  /\ length' = length + n
  /\ pos' = pos + n

-----------------------------------------------------------------------------
Init ==
  /\ stage = "idle" /\ member = NoMember
  /\ pos = 0 /\ length = 0 /\ items = {} /\ entries = <<>> /\ cdStart = 0
  /\ accepted = <<>> /\ counted = Slack

\* Slip: a copied member is counted at the size it inflates to.
CountedInflated(kind, size, packed) == size + Headroom

\* What reencrypt_to adds for a member whose source has this size and this
\* compressed size; the row of an encrypted one adds its declared size too.
Counted(kind, size, packed) ==
  CASE kind = "stored"   -> size + Headroom
    [] kind = "deflated" -> size + Headroom
    [] kind = "copied"   -> Bigger(size, packed) + Headroom

\* local_header.  The source yields `yields` bytes; a member that is DEFLATE
\* data already (copied) holds `packed` of them, and a stored one claims a
\* CRC that is its own or not.
Open(kind, name, size, yields, packed, honest) ==
  LET zip64 == Zip64(kind, size)
      crc   == Len(entries) + 1
      sized == kind = "stored"
      field == IF ~sized THEN 0 ELSE size
  IN
  /\ stage = "idle" /\ Len(entries) < MaxMembers
  /\ Put([at |-> pos, kind |-> "local", name |-> name, nlen |-> U16(name),
          zip64 |-> zip64, descriptor |-> ~sized,
          crc |-> IF sized THEN crc ELSE 0,
          size |-> IF zip64 THEN U32Limit ELSE U32(field), wide |-> field],
         LocalLength(name, zip64))
  /\ member' = [kind |-> kind, name |-> name, size |-> size, yields |-> yields,
                packed |-> packed, honest |-> honest, zip64 |-> zip64, at |-> pos,
                data |-> pos + LocalLength(name, zip64), got |-> 0]
  /\ counted' = counted + Counted(kind, size, packed)
  /\ stage' = "copying"
  /\ UNCHANGED <<entries, cdStart, accepted>>

\* What one read of a stored member asks for.
Want(left) == IF left < Chunk THEN left ELSE Chunk

\* One read of the source and, for a stored member, the write of what it
\* yielded: what a deflated one puts out reaches `out` through the compressor.
Copy ==
  LET have == member.yields - member.got
      want == IF member.kind = "stored" THEN Want(member.size - member.got) ELSE Chunk
      n    == IF have < want THEN have ELSE want
  IN
  /\ stage = "copying" /\ member.kind # "copied" /\ n > 0
  /\ member' = [member EXCEPT !.got = @ + n]
  /\ IF member.kind = "stored"
     THEN /\ stage' = stage /\ length' = length + n /\ pos' = pos + n
     ELSE /\ stage' = IF member.got + n > member.size THEN "failed" ELSE stage
          /\ UNCHANGED <<length, pos>>
  /\ UNCHANGED <<items, entries, cdStart, accepted, counted>>

Entry(packed, size) ==
  [name |-> member.name, packed |-> packed, size |-> size, offset |-> member.at,
   crc |-> Len(entries) + 1, zip64 |-> member.zip64]

\* The member is described and the caller is told Ok.
Close(packed, size) ==
  /\ stage' = "idle" /\ member' = NoMember
  /\ entries' = Append(entries, Entry(packed, size))
  /\ accepted' = Append(accepted,
       [name |-> member.name, size |-> member.yields, data |-> member.data,
        packed |-> IF member.kind = "stored" THEN member.yields ELSE packed])
  /\ UNCHANGED <<cdStart, counted>>

Data(n) == [at |-> member.data, kind |-> "data", length |-> n, crc |-> Len(entries) + 1]

Refuse ==
  /\ stage' = "failed"
  /\ UNCHANGED <<member, pos, length, items, entries, cdStart, accepted, counted>>

\* Slip: a stored member's source is not asked whether it is at its end.
CloseStoredEarly ==
  /\ stage = "copying" /\ member.kind = "stored"
  /\ member.got = member.size \/ member.got = member.yields
  /\ IF member.got < member.size \/ ~member.honest
     THEN Refuse
     ELSE /\ items' = items \cup {Data(member.size)}
          /\ UNCHANGED <<pos, length>>
          /\ Close(member.size, member.size)

\* The source has nothing left, or `size` bytes of it are copied: it must be
\* at its end, and the CRC the one that was claimed.
CloseStored ==
  /\ stage = "copying" /\ member.kind = "stored"
  /\ member.got = member.size \/ member.got = member.yields
  /\ IF member.got < member.size \/ member.yields > member.size \/ ~member.honest
     THEN Refuse
     ELSE /\ items' = items \cup {Data(member.size)}
          /\ UNCHANGED <<pos, length>>
          /\ Close(member.size, member.size)

\* The DEFLATE data is in the output; end_deflated.
Describe(packed, size) ==
  /\ items' = items \cup
       {Data(packed),
        [at |-> member.data + packed, kind |-> "descriptor", wide |-> member.zip64,
         crc |-> Len(entries) + 1,
         packed |-> IF member.zip64 THEN packed ELSE U32(packed),
         size |-> IF member.zip64 THEN size ELSE U32(size)]}
  /\ length' = length + packed + DescriptorLength(member.zip64)
  /\ pos' = pos + packed + DescriptorLength(member.zip64)
  /\ Close(packed, size)

\* deflated: the source has ended, and the compressor has put out no more than
\* the bound.
CloseDeflated ==
  /\ stage = "copying" /\ member.kind = "deflated" /\ member.got = member.yields
  /\ \E packed \in {2, DeflateBound(member.got)} :
       Describe(packed, member.got)

\* Slip: a stream that outgrew its header is described all the same.
DescribeCopiedAnyway ==
  /\ stage = "copying" /\ member.kind = "copied"
  /\ IF member.yields > member.size
     THEN Refuse
     ELSE Describe(member.packed, member.yields)

\* deflated_from: the source has copied its DEFLATE data, however much that is.
CloseCopied ==
  /\ stage = "copying" /\ member.kind = "copied"
  /\ IF \/ member.yields > member.size
        \/ ~member.zip64 /\ member.packed >= U32Limit
     THEN Refuse
     ELSE Describe(member.packed, member.yields)

\* A read, a write or the allocation of the chunk buffer fails; the caller
\* returns the error and writes nothing more.
Fails == stage \notin {"done", "failed"} /\ Refuse

-----------------------------------------------------------------------------
\* finish begins.
Finish ==
  /\ stage = "idle"
  /\ stage' = "central" /\ cdStart' = pos
  /\ UNCHANGED <<member, pos, length, items, entries, accepted, counted>>

\* Slip: a field exactly at the limit is taken to fit.
ExtraPast(e) ==
  (IF e.size > U32Limit THEN <<e.size>> ELSE <<>>) \o
  (IF e.packed > U32Limit THEN <<e.packed>> ELSE <<>>) \o
  (IF e.offset > U32Limit THEN <<e.offset>> ELSE <<>>)

\* The Zip64 extra field of a central header: the fields that overflowed.
Extra(e) ==
  (IF e.size >= U32Limit THEN <<e.size>> ELSE <<>>) \o
  (IF e.packed >= U32Limit THEN <<e.packed>> ELSE <<>>) \o
  (IF e.offset >= U32Limit THEN <<e.offset>> ELSE <<>>)

ExtraLength(x) == IF x = <<>> THEN 0 ELSE 4 + 8 * Len(x)
Clip(v) == IF v >= U32Limit THEN U32Limit ELSE U32(v)

Written == Cardinality({i \in items : i.kind = "central"})

\* One turn of finish's loop over the entries.
Central ==
  LET e == entries[Written + 1] IN
  /\ stage = "central" /\ Written < Len(entries)
  /\ Put([at |-> pos, kind |-> "central", nlen |-> U16(e.name), crc |-> e.crc,
          packed |-> Clip(e.packed), size |-> Clip(e.size), offset |-> Clip(e.offset),
          extra |-> Extra(e)],
         46 + e.name + ExtraLength(Extra(e)))
  /\ UNCHANGED <<stage, member, entries, cdStart, accepted, counted>>

NeedsEnd64(count, start, size) ==
  count >= U16Limit \/ start >= U32Limit \/ size >= U32Limit

\* The Zip64 end record and its locator, where they are needed, and the end
\* record.
Ending ==
  LET count == Len(entries)
      size  == pos - cdStart
      wide  == NeedsEnd64(count, cdStart, size)
      at    == IF wide THEN pos + End64Length + LocatorLength ELSE pos
      end64 == {[at |-> pos, kind |-> "end64", count |-> count, start |-> cdStart],
                [at |-> pos + End64Length, kind |-> "locator", end64 |-> pos]}
      clip(v) == IF wide /\ v >= U32Limit THEN U32Limit ELSE U32(v)
      end   == [at |-> at, kind |-> "end", start |-> clip(cdStart),
                count |-> IF wide THEN U16Limit ELSE U16(count)]
  IN
  /\ stage = "central" /\ Written = Len(entries)
  /\ stage' = "done"
  /\ items' = items \cup {end} \cup (IF wide THEN end64 ELSE {})
  /\ pos' = at + EndLength /\ length' = at + EndLength - pos + length
  /\ UNCHANGED <<member, entries, cdStart, accepted, counted>>

Opens ==
  \E name \in NameLengths, size \in Sizes, yields \in Sizes, packed \in Sizes,
     honest \in BOOLEAN, kind \in {"stored", "deflated", "copied"} :
    /\ kind # "copied" => packed = size
    /\ kind # "stored" => honest
    /\ Open(kind, name, size, yields, packed, honest)

Next == \/ Opens \/ Copy \/ CloseStored \/ CloseDeflated \/ CloseCopied
        \/ Finish \/ Central \/ Ending \/ Fails

Spec == Init /\ [][Next]_vars

-----------------------------------------------------------------------------
(***************************************************************************)
(* A reader of the finished zip, from its end, by APPNOTE 4.3 and 4.5.3:   *)
(* it knows the bytes alone, never pos or entries.                         *)
(***************************************************************************)
At(a, kind) == {i \in items : i.at = a /\ i.kind = kind}
The(a, kind) == CHOOSE i \in At(a, kind) : TRUE

\* Where the directory is and how many headers it has.
Directory ==
  LET end == The(length - EndLength, "end")
      loc == At(length - EndLength - LocatorLength, "locator")
  IN IF loc # {} THEN The((CHOOSE l \in loc : TRUE).end64, "end64") ELSE end

\* A field of central header c: the 8-byte value when the 4-byte one is at the
\* limit and the extra field has one left for it.
Field(c, field, before) ==
  LET k == 1 + Cardinality({f \in before : c[f] = U32Limit})
  IN IF c[field] # U32Limit \/ c.extra = <<>> THEN c[field]
     ELSE IF k \in DOMAIN c.extra THEN c.extra[k] ELSE -1

\* The member a central header leads to, when the bytes agree all the way.
Leads(c, m) ==
  LET size   == Field(c, "size", {})
      packed == Field(c, "packed", {"size"})
      offset == Field(c, "offset", {"size", "packed"})
  IN
  \E l \in At(offset, "local") :
    LET data == offset + LocalLength(l.nlen, l.zip64) IN
    /\ l.nlen = c.nlen /\ c.nlen = m.name
    /\ size = m.size /\ packed = m.packed
    /\ \E d \in At(data, "data") : d.length = packed /\ d.crc = c.crc
    /\ IF l.descriptor
       THEN \E d \in At(data + packed, "descriptor") :
              /\ d.wide = l.zip64 /\ d.crc = c.crc
              /\ d.packed = packed /\ d.size = size
       ELSE l.crc = c.crc /\ size = IF l.zip64 THEN l.wide ELSE l.size

(***************************************************************************)
(* Properties.                                                             *)
(***************************************************************************)

\* The central directory of a finished zip leads a reader that only has the
\* bytes to every member the caller was told is written, in order, with its
\* real size and CRC, whichever fields went to Zip64 (finish, end_deflated).
ReadsBack ==
  stage = "done" =>
    LET d == Directory
        where[i \in 0..Len(accepted)] ==
          IF i = 0 THEN d.start
          ELSE LET c == The(where[i - 1], "central")
               IN where[i - 1] + 46 + c.nlen + ExtraLength(c.extra)
    IN /\ d.count = Len(accepted)
       /\ \A i \in DOMAIN accepted :
            /\ At(where[i - 1], "central") # {}
            /\ Leads(The(where[i - 1], "central"), accepted[i])

\* A member whose local header promises 32-bit sizes has 32-bit sizes: Zip64 is
\* decided before the data is seen, and a descriptor can no longer change it
\* (deflate_bound and the check of deflated_from).
DescriptorsFit ==
  \A i \in DOMAIN entries :
    ~entries[i].zip64 => /\ entries[i].packed < U32Limit
                         /\ entries[i].size < U32Limit

\* A member is described as its source turned out to be: one that was cut
\* short of its source's end is refused (the reads after the last byte in
\* stored, the check on size_hint).
DescribedAsItWas ==
  \A i \in DOMAIN accepted :
    /\ entries[i].size = accepted[i].size
    /\ entries[i].packed = accepted[i].packed

\* What reencrypt_to counted from the source is at least what the rebuilt zip
\* comes to: it decides whether the new package's payload can be described
\* (reencrypt.rs, per_entry).
WithinReach == stage = "done" => length <= counted
=============================================================================
