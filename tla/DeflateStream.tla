---------------------------- MODULE DeflateStream ----------------------------
(***************************************************************************)
(* DeflateWriter::adaptive (src/stream.rs): raw DEFLATE, written as its    *)
(* input arrives.  The input is gathered into chunks, and one that is      *)
(* compressed already goes out as stored blocks between the compressor's   *)
(* own, which share one bit stream with it.  (DeflateWriter::new has no    *)
(* chunks: all it is given goes to the compressor.)                        *)
(*                                                                         *)
(* Abstractions.  The input is numbered byte by byte, and a block of the   *)
(* output says which bytes it carries.  The compressor is external: it     *)
(* takes all it is given, puts out none or all of what it holds, and never *)
(* expands a chunk it is given.  Whether a chunk is compressed already is  *)
(* a choice.  Chunk and BlockMax stand for CHUNK (65,536) and              *)
(* STORED_BLOCK_MAX (65,535).                                              *)
(***************************************************************************)
EXTENDS Integers, Sequences

CONSTANTS
  Chunk,          \* CHUNK
  BlockMax,       \* STORED_BLOCK_MAX: a stored block's length has this width
  MaxInput        \* bound: bytes written

ASSUME ChunkAndBlock ==
  /\ Chunk \in Nat \ {0} /\ BlockMax \in Nat \ {0} /\ MaxInput \in Nat

VARIABLES
  consumed,       \* bytes `write` has accepted
  rest,           \* of them, the ones `write` has yet to place
  held,           \* of them, the ones waiting in held.buf
  compressing,    \* held.compressing
  taken,          \* the last byte the compressor has taken
  emitted,        \* the last byte that is in the output
  since,          \* the last byte the compressor's dictionary has forgotten
  aligned,        \* the output ends on a byte boundary
  blocks,         \* the blocks of the output
  overhead,       \* bytes of the output that carry no input
  phase           \* "open", "finishing" once finish is called, "ended"

deflater == <<consumed, rest, held, compressing, taken, emitted, since,
              aligned, blocks, overhead, phase>>

-----------------------------------------------------------------------------
DeflateInit ==
  /\ consumed = 0 /\ rest = 0 /\ held = 0 /\ compressing = FALSE
  /\ taken = 0 /\ emitted = 0 /\ since = 0 /\ aligned = TRUE
  /\ blocks = <<>> /\ overhead = 0 /\ phase = "open"

Compressed(from, to) == [kind |-> "compressed", from |-> from, to |-> to, since |-> since]

\* What the compressor holds, up to byte `to`, is put out in one block.
PutOut(to) ==
  IF to = emitted THEN blocks ELSE Append(blocks, Compressed(emitted, to))

Emit(to) == emitted' = to /\ blocks' = PutOut(to)

\* write: the bytes are counted before they are placed.
Accept(n) ==
  /\ phase = "open" /\ rest = 0 /\ held < Chunk
  /\ n > 0 /\ consumed + n <= MaxInput
  /\ consumed' = consumed + n /\ rest' = n
  /\ UNCHANGED <<held, compressing, taken, emitted, since, aligned, blocks,
                 overhead, phase>>

\* One turn of write's loop: as much of the rest as the chunk has room for.
Gather ==
  LET take == IF rest < Chunk - held THEN rest ELSE Chunk - held IN
  /\ rest > 0 /\ held < Chunk
  /\ held' = held + take /\ rest' = rest - take
  /\ UNCHANGED <<consumed, compressing, taken, emitted, since, aligned,
                 blocks, overhead, phase>>

\* release is called with a full chunk, and by finish with what is left.
Due == held > 0 /\ (held = Chunk \/ phase = "finishing")

\* release, of a chunk worth compressing.
ReleaseCompressed ==
  /\ Due
  /\ held' = 0 /\ compressing' = TRUE /\ taken' = taken + held
  /\ \E to \in {emitted, taken + held} : Emit(to)
  /\ aligned' = (aligned /\ emitted' = emitted)
  /\ UNCHANGED <<consumed, rest, since, overhead, phase>>

\* Slip: TDEFLFlush::Sync leaves the dictionary as it is.
ForgottenBySync == since

\* How much of the input the dictionary has forgotten after TDEFLFlush::Full.
Forgotten == taken

\* The n bytes from `from` on in one stored block.
Stored(from, n) == [kind |-> "stored", from |-> from, to |-> from + n,
                    length |-> n % (BlockMax + 1), aligned |-> compressing \/ aligned]

\* Slip: a chunk is one stored block.
StoredWhole(from, n) == <<Stored(from, n)>>

\* chunks(STORED_BLOCK_MAX).
StoredBlocks(from, n) ==
  [k \in 1..((n + BlockMax - 1) \div BlockMax) |->
     LET start == (k - 1) * BlockMax
     IN Stored(from + start, IF n - start < BlockMax THEN n - start ELSE BlockMax)]

\* release, of a chunk that is compressed already.  A compressor that has taken
\* input since it was last flushed is flushed first: everything out, on a byte
\* boundary (an empty stored block: padded bits and four bytes), the dictionary
\* cleared.  A dictionary that is empty stays empty.
ReleaseStored ==
  LET forgotten == IF compressing THEN Forgotten ELSE since
      stored    == StoredBlocks(taken, held)
  IN
  /\ Due
  /\ held' = 0 /\ compressing' = FALSE
  /\ taken' = taken + held /\ emitted' = taken + held
  /\ blocks' = (IF compressing THEN PutOut(taken) ELSE blocks) \o stored
  /\ overhead' = overhead + 5 * Len(stored) + (IF compressing THEN 6 ELSE 0)
  /\ aligned' = (compressing \/ aligned)
  /\ since' = IF forgotten = taken THEN taken + held ELSE forgotten
  /\ UNCHANGED <<consumed, rest, phase>>

Release == ReleaseCompressed \/ ReleaseStored

\* finish: what is held is released, and the last block ends the stream.
FinishDeflate ==
  /\ phase = "open" /\ rest = 0 /\ held < Chunk
  /\ phase' = "finishing"
  /\ UNCHANGED <<consumed, rest, held, compressing, taken, emitted, since,
                 aligned, blocks, overhead>>

EndDeflate ==
  /\ phase = "finishing" /\ held = 0
  /\ phase' = "ended" /\ Emit(taken) /\ aligned' = TRUE /\ overhead' = overhead + 6
  /\ UNCHANGED <<consumed, rest, held, compressing, taken, since>>

Deflating == Gather \/ Release \/ EndDeflate

DeflateNext == (\E n \in 1..MaxInput : Accept(n)) \/ FinishDeflate \/ Deflating

DeflateSpec == DeflateInit /\ [][DeflateNext]_deflater

-----------------------------------------------------------------------------
\* The blocks an inflater reads, in order: each begins where the last ended, a
\* stored one on a byte boundary and with a length that says how long it is,
\* and they carry what was written, all of it at the end (release, pump).
Decodes ==
  /\ \A i \in DOMAIN blocks :
       /\ blocks[i].from = IF i = 1 THEN 0 ELSE blocks[i - 1].to
       /\ blocks[i].kind = "stored" =>
            blocks[i].aligned /\ blocks[i].length = blocks[i].to - blocks[i].from
  /\ emitted = IF blocks = <<>> THEN 0 ELSE blocks[Len(blocks)].to
  /\ phase = "ended" => emitted = consumed

\* A compressed block never refers back across stored bytes, which its
\* compressor never saw: "no later match reaches back across the stored bytes".
NoReachBack ==
  \A i, j \in DOMAIN blocks :
    /\ blocks[i].kind = "compressed" /\ blocks[j].kind = "stored"
    => ~(blocks[i].since <= blocks[j].from /\ blocks[j].to <= blocks[i].from)
=============================================================================
