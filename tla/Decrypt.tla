------------------------------- MODULE Decrypt -------------------------------
(***************************************************************************)
(* decrypt_to: from a classified package to plaintext in the caller's      *)
(* writer, in bounded memory (src/decrypt_stream.rs, decrypt_entries.rs,   *)
(* the screens of decrypt.rs and the readers of stream.rs).  A member is   *)
(* never held whole: it is read once to find the key and once more to be   *)
(* released, and in between the input may change, the caller's reader or   *)
(* writer may fail, and the host may run out of memory.                    *)
(*                                                                         *)
(* Abstractions.  A member is a sequence of blocks, each one refill of the *)
(* inflater; the first holds the 1 KiB window a checksum covers.  A block  *)
(* inflates to a number of units, may carry DEFLATE's end marker, and is   *)
(* sound or damaged, in the window or past it.  Bytes have no other value: *)
(* a digest, a tag or a CRC is right exactly when the bytes it covers are  *)
(* sound.  A row's key is the candidate of the start-key ladder that opens *)
(* it, or None: what a wrong password comes to.  Slips are operators with  *)
(* a plausible mistake, each before the operator it would stand for.       *)
(***************************************************************************)
EXTENDS Naturals, Integers, Sequences, FiniteSets, FiniteSetsExt

CONSTANTS
  Calls,          \* the calls explored: package, password and limit
  MaxRows,        \* MAX_ENCRYPTED_ENTRIES
  None,           \* no candidate opens the row
  MaxChanges      \* bound: blocks of the input that change during a call

Ciphers    == {"gcm", "cbc", "blowfish"}
Candidates == 0..3     \* the row's own start key, then SHA1_LADDER

\* EntryEncryption, an accepted row of the manifest, as far as decrypt_to tells
\* rows apart: shape and kdf are false when screen_shape or derive_key refuses it.
Row ==
  [path : STRING, cipher : Ciphers, key : Candidates \cup {None}, sha1 : BOOLEAN,
   size : Int, shape : BOOLEAN, kdf : BOOLEAN, pgp : BOOLEAN]

\* A zip member; crc is false when the CRC the directory records is not its own.
Member ==
  [name : STRING, method : {"stored", "deflated", "other"}, crc : BOOLEAN,
   blocks : Seq([units : Nat, mark : BOOLEAN, damage : {"none", "window", "past"}]) \ {<<>>}]

\* What classify has made sure of: no two members have one name
\* (collect_members), and the mode is what the accepted rows make it.  A start
\* key of the ladder opens SHA-1 rows only, for it is tried on no other.
ASSUME CallsAssumption ==
  /\ None \notin Candidates
  /\ \A c \in Calls :
       /\ c.rows \in Seq(Row) /\ c.members \in Seq(Member) /\ c.limit \in Nat
       /\ \A i, j \in DOMAIN c.members : c.members[i].name = c.members[j].name => i = j
       /\ \A r \in DOMAIN c.rows : c.rows[r].key \in {1, 2, 3} => c.rows[r].sha1
       /\ c.mode \in {"plain", "per-entry", "wholesome"}
       /\ c.mode = "wholesome" => \E r \in DOMAIN c.rows : c.rows[r].path = "package"
       /\ c.mode = "per-entry" => c.rows # <<>>

VARIABLES
  call,           \* what decrypt_to was given
  stage,          \* where run is
  row,            \* the row being screened or tried
  plans,          \* plans: member -> row that decrypts it, 0 for none
  superseded,     \* rows a later row replaced, still to be checked
  index,          \* the member the rebuild has reached
  candidate,      \* the start key being tried
  derived,        \* keys derived so far
  block,          \* the next block to read in this pass
  dirty,          \* the blocks read damaged in this pass
  stale,          \* some block read in this pass had changed: its CRC is off
  inflated,       \* units inflated from this member
  produced,       \* units of the members already finished
  out,            \* blocks of plaintext and copies in the writer
  weakest,        \* IntegrityOutcome so far
  result,         \* what run returned
  verdict,        \* what decrypt_to returned
  changed,        \* damage the input has suffered since the call began
  latch,          \* the caller's reader has failed a read
  failed          \* "writer" or "host", once one of them has failed

planned == <<plans, superseded>>
pass    == <<candidate, block, dirty, stale>>
written == <<inflated, produced, out, weakest>>
outside == <<changed, latch, failed>>
vars == <<call, stage, row, plans, superseded, index, candidate, derived, block,
          dirty, stale, inflated, produced, out, weakest, result, verdict, changed,
          latch, failed>>

-----------------------------------------------------------------------------
Rows       == call.rows
Members    == call.members
Wholesome  == call.mode = "wholesome"
RowOf(r)   == Rows[r]
Bearing(p) == {i \in DOMAIN Members : Members[i].name = p}
MemberOf(r) == CHOOSE i \in Bearing(Rows[r].path) : TRUE
Blocks(i)  == Members[i].blocks

\* The blocks of a member as a read finds them now.
Damage(i, b) ==
  IF \E d \in changed : d.member = i /\ d.block = b
  THEN (CHOOSE d \in changed : d.member = i /\ d.block = b).damage
  ELSE Blocks(i)[b].damage
Sound(i, b) == Damage(i, b) = "none"
Stale(i, b) == \E d \in changed : d.member = i /\ d.block = b

\* wholesome_row: the first row whose path is encrypted-package.
WholesomeRow ==
  CHOOSE r \in DOMAIN Rows : /\ Rows[r].path = "package"
                             /\ \A s \in 1..(r - 1) : Rows[s].path # "package"
Screened == IF Wholesome THEN {WholesomeRow} ELSE DOMAIN Rows

Positive(n) == IF n < 0 THEN 0 ELSE n
Declared    == MapThenSumSet(LAMBDA r : Positive(Rows[r].size), Screened)

\* screen_class, in its order; an empty password is refused before it.
ClassVerdict ==
  IF call.password = "" THEN "EmptyPassword"
  ELSE IF call.mode = "plain" THEN "NotEncrypted"
  ELSE IF call.fatal THEN "Odf12Fatal"
  ELSE IF \E r \in DOMAIN Rows : Rows[r].pgp THEN "UnsupportedPgp"
  ELSE IF Len(Rows) > MaxRows THEN "TooManyRows"
  ELSE IF Declared > call.limit THEN "OutputLimit"
  ELSE "ok"

\* declared_size, member_for_archive and screen_shape, for one row.
RowVerdict(r) ==
  IF Rows[r].size < 0 THEN "Size"
  ELSE IF Bearing(Rows[r].path) = {} THEN "NoMember"
  ELSE IF ~Rows[r].shape THEN "Shape"
  ELSE "ok"

\* BadParameters and OutputLimit, as far as they are decided without a key.
NeedsNoKey == {"EmptyPassword", "NotEncrypted", "Odf12Fatal", "UnsupportedPgp",
               "TooManyRows", "Size", "NoMember", "Shape"}

-----------------------------------------------------------------------------
Init ==
  /\ call \in Calls
  /\ stage = "classified" /\ row = 0
  /\ plans = [i \in DOMAIN call.members |-> 0] /\ superseded = <<>>
  /\ index = 0
  /\ candidate = 0 /\ derived = 0 /\ block = 0 /\ dirty = {} /\ stale = FALSE
  /\ inflated = 0 /\ produced = 0 /\ out = {} /\ weakest = "Verified"
  /\ result = "none" /\ verdict = "none"
  /\ changed = {} /\ latch = FALSE /\ failed = "none"

Ends(r) == stage' = "returning" /\ result' = r

\* What every step that only moves run along leaves alone.
Keep == UNCHANGED <<call, verdict, outside>>

\* screen_class, after classify_latched.
ScreenClass ==
  /\ stage = "classified"
  /\ IF ClassVerdict # "ok" THEN Ends(ClassVerdict) /\ UNCHANGED row
     ELSE /\ stage' = "rows" /\ UNCHANGED result
          /\ row' = IF Wholesome THEN WholesomeRow ELSE 1
  /\ Keep /\ UNCHANGED <<planned, index, pass, derived, written>>

\* Start a pass over the member of row r with its first candidate.
Try(r) ==
  /\ stage' = "derive" /\ row' = r
  /\ candidate' = 0 /\ block' = 0 /\ dirty' = {} /\ stale' = FALSE

\* Slip: a later row takes the place of an earlier one, which is forgotten.
PutAside(m) == superseded

\* A row for a member that has a plan already replaces it, and the earlier row
\* is kept to check the password against.
Aside(m) == IF plans[m] = 0 THEN superseded ELSE Append(superseded, plans[m])

\* One row of the screening loop.
Screening ==
  LET v    == RowVerdict(row)
      m    == MemberOf(row)
      last == row = Max(Screened)
  IN
  /\ stage = "rows"
  /\ IF v # "ok" THEN Ends(v) /\ UNCHANGED <<planned, row, pass>>
     ELSE /\ plans' = [plans EXCEPT ![m] = row] /\ superseded' = Aside(m)
          /\ UNCHANGED result
          /\ IF ~last THEN row' = row + 1 /\ UNCHANGED <<stage, pass>>
             ELSE IF Wholesome THEN Try(row)
             ELSE IF Aside(m) # <<>> THEN Try(Head(Aside(m)))
             ELSE stage' = "members" /\ UNCHANGED <<row, pass>>
  /\ index' = IF stage' = "members" THEN 1 ELSE IF Wholesome /\ v = "ok" THEN m ELSE index
  /\ Keep /\ UNCHANGED written

\* Slip: a row's key is derived while the row is screened.
ScreenRowDeriving == Screening /\ derived' = derived + 1

ScreenRow == Screening /\ UNCHANGED derived

\* derive_key.  A wholesome row is taken for AES-GCM whatever its cipher, and
\* GcmStream::new refuses the other ciphers' IV lengths.
Derive ==
  /\ stage = "derive"
  /\ IF ~Rows[row].kdf THEN Ends("Kdf") /\ UNCHANGED <<derived, block>>
     ELSE /\ derived' = derived + 1
          /\ IF Wholesome /\ Rows[row].cipher # "gcm" THEN Ends("Internal") /\ UNCHANGED block
             ELSE stage' = "verify" /\ block' = 1 /\ UNCHANGED result
  /\ Keep /\ UNCHANGED <<row, planned, index, candidate, dirty, stale, written>>

Cipher     == Rows[row].cipher
Current    == MemberOf(row)
LastBlock  == Len(Blocks(Current))
KeyIsRight == candidate = Rows[row].key

\* The pass so far, with the block it reads in this step; at the end of the
\* member the zip layer compares the CRC of what was read.
DirtyNow == dirty \cup (IF Sound(Current, block) THEN {} ELSE {block})
StaleNow == stale \/ Stale(Current, block)
Crc(off) == Members[Current].crc /\ ~off

\* gcm_verify: hash one more block of ciphertext, decrypting nothing.
VerifyBlock ==
  /\ stage = "verify" /\ Cipher = "gcm" /\ block < LastBlock
  /\ block' = block + 1
  /\ dirty' = DirtyNow /\ stale' = StaleNow
  /\ Keep /\ UNCHANGED <<stage, row, planned, index, candidate, derived, written, result>>

\* find_key goes down the ladder for a SHA-1 row, and gives up at its end.
Rejected ==
  IF Rows[row].sha1 /\ candidate < 3
  THEN /\ stage' = "derive" /\ candidate' = candidate + 1
       /\ block' = 0 /\ dirty' = {} /\ stale' = FALSE
       /\ UNCHANGED <<row, superseded, result>>
  ELSE Ends("WrongPassword") /\ UNCHANGED <<row, superseded, pass>>

\* The key opens the row: a superseded row is done with, any other is released.
Accepted ==
  /\ IF superseded = <<>>
     THEN /\ stage' = "release" /\ block' = 1 /\ dirty' = {} /\ stale' = FALSE
          /\ UNCHANGED <<row, candidate, superseded>>
     ELSE /\ superseded' = Tail(superseded)
          /\ IF Len(superseded) > 1 THEN Try(superseded[2])
             ELSE stage' = "members" /\ UNCHANGED <<row, pass>>
  /\ UNCHANGED result

\* Slip: of AES-GCM, the key is all that is looked at.
HeldByKey == Cipher = "gcm" \/ Damage(Current, 1) # "window"

\* What the verify pass compares holds: the tag, or the first window's digest.
Held == IF Cipher = "gcm" THEN DirtyNow = {} ELSE Damage(Current, 1) # "window"

\* The end of the verify pass.  A pass that reached the end of the member has had its CRC checked first, and
\* for AES-CBC the padding too, whose failure also only rejects the key.  The
\* window's read takes a whole chunk, which may just be all of the member.
Decide ==
  LET whole == IF Cipher = "gcm" THEN {TRUE} ELSE {FALSE, LastBlock = 1} IN
  /\ stage = "verify"
  /\ Cipher = "gcm" => block = LastBlock
  /\ \E all \in whole :
       IF all /\ ~Crc(StaleNow) THEN Ends("Zip") /\ UNCHANGED <<row, superseded, pass>>
       ELSE \/ KeyIsRight /\ Held /\ Accepted
            \/ ~(KeyIsRight /\ Held) /\ Rejected
            \/ all /\ Cipher = "cbc" /\ DirtyNow # {} /\ Rejected
  /\ index' = IF stage' = "members" THEN 1 ELSE index
  /\ inflated' = IF stage' = "release" THEN 0 ELSE inflated
  /\ Keep /\ UNCHANGED <<plans, derived, produced, out, weakest>>

-----------------------------------------------------------------------------
Piece(i, b) == [member |-> i, block |-> b, sound |-> Sound(i, b),
                units |-> Blocks(i)[b].units]
Budget      == call.limit - produced
Expected    == Rows[row].size

\* Slip: nothing is read past the DEFLATE end marker.
AtEndUnread(bad, off) == {"ok"}

\* What reading to the end makes of a member.  The AES-GCM reader compares the
\* tag again, the zip layer checks the CRC, and AES-CBC looks at its padding;
\* rubbish may pass for padding.
AtEnd(bad, off) ==
  IF Cipher = "gcm" /\ bad # {} THEN {"Io"}
  ELSE IF ~Crc(off) THEN {"Zip"}
  ELSE IF Cipher = "cbc" /\ LastBlock \in bad THEN {"ok", "WrongPassword"}
  ELSE {"ok"}

\* Slip: what a member inflates to is not held against its row's size.
InflatesUnmeasured(n) ==
  IF n > Budget THEN {"OutputLimit"}
  ELSE IF ~Blocks(Current)[block].mark /\ block = LastBlock THEN {"Inflate"}
  ELSE {"ok"}

\* InflateReader::step over one block: what it answers, and how much of the
\* block came out.  Damaged DEFLATE fails or inflates to something else.
Inflates(n) ==
  IF n > Budget THEN {"OutputLimit"}
  ELSE IF n > Expected THEN {"Inflate"}
  ELSE IF Blocks(Current)[block].mark THEN (IF n = Expected THEN {"ok"} ELSE {"Inflate"})
  ELSE IF block = LastBlock THEN {"Inflate"}
  ELSE {"ok"}

\* The next block of the release pass is read, decrypted, inflated and written.
\* The read that takes the last block may or may not also see the end: of a member
\* of one block the CRC may then come before the digest of the window.  The
\* rebuild's tap writes a block before the counts are checked; the wholesome
\* copy writes what passed them.
ReleaseBlock ==
  LET b    == block
      sum  == inflated + Blocks(Current)[b].units
      gate == Cipher # "gcm" /\ b = 1 /\ Damage(Current, 1) = "window"
      ends == {"ok"} \cup (IF b = LastBlock THEN AtEnd(DirtyNow, StaleNow) ELSE {})
      off  == b = LastBlock /\ ~Crc(StaleNow)
  IN
  /\ stage = "release"
  /\ dirty' = DirtyNow /\ stale' = StaleNow
  /\ IF gate THEN /\ Ends("WrongPassword") \/ (off /\ Ends("Zip"))
                  /\ UNCHANGED <<block, inflated, out>>
     ELSE \E e \in ends :
            IF e # "ok" THEN Ends(e) /\ UNCHANGED <<block, inflated, out>>
            ELSE \E v \in Inflates(sum) \cup (IF Sound(Current, b) THEN {} ELSE {"Inflate"}) :
                   /\ out' = IF v = "ok" \/ ~Wholesome THEN out \cup {Piece(Current, b)} ELSE out
                   /\ inflated' = sum
                   /\ IF v # "ok" THEN Ends(v) /\ UNCHANGED block
                      ELSE /\ block' = b + 1 /\ UNCHANGED result
                           /\ stage' = IF Blocks(Current)[b].mark THEN "drain" ELSE "release"
  /\ Keep /\ UNCHANGED <<row, planned, index, candidate, derived, produced, weakest>>

\* Slip: a read of nothing is taken for a reason to read again.
DrainAgain ==
  /\ stage = "drain" /\ block <= LastBlock
  /\ dirty' = DirtyNow /\ stale' = StaleNow
  /\ Keep /\ UNCHANGED <<stage, row, planned, index, candidate, derived, block, written, result>>

\* Past the end marker the member is read on and thrown away, so that the tag,
\* the padding and the CRC are checked.
DrainBlock ==
  /\ stage = "drain" /\ block <= LastBlock
  /\ dirty' = DirtyNow /\ stale' = StaleNow
  /\ block' = block + 1
  /\ Keep /\ UNCHANGED <<stage, row, planned, index, candidate, derived, written, result>>

\* The member is finished; the wholesome package with it.
FinishMember ==
  /\ stage = "drain" /\ block > LastBlock
  /\ \E v \in AtEnd(dirty, stale) :
       IF v # "ok" THEN Ends(v) /\ UNCHANGED <<index, produced, weakest>>
       ELSE /\ produced' = produced + Expected
            /\ IF Wholesome THEN Ends("ok") /\ UNCHANGED <<index, weakest>>
               ELSE /\ stage' = "members" /\ index' = index + 1 /\ UNCHANGED result
                    /\ weakest' = IF Cipher = "gcm" THEN weakest ELSE "PasswordCheckOnly"
  /\ Keep /\ UNCHANGED <<row, planned, pass, derived, inflated, out>>

-----------------------------------------------------------------------------
\* The rebuild, member by member.  The manifest is written stripped, whatever
\* rows name it.
IsManifest(i) == Members[i].name = "manifest"
Planned(i)    == i \in DOMAIN Members /\ ~IsManifest(i) /\ plans[i] # 0

\* read_manifest and strip_manifest come before the first member: a manifest that
\* has changed since classify read it fails its CRC.
ManifestReads ==
  index = 1 => \A i \in DOMAIN Members : IsManifest(i) => \A b \in DOMAIN Blocks(i) : ~Stale(i, b)

ManifestFails ==
  /\ stage = "members" /\ ~ManifestReads
  /\ Ends("Zip")
  /\ Keep /\ UNCHANGED <<row, planned, index, pass, derived, written>>

WriteManifest ==
  /\ stage = "members" /\ index \in DOMAIN Members
  /\ ManifestReads /\ IsManifest(index)
  /\ out' = out \cup {Piece(index, 1)}
  /\ index' = index + 1
  /\ Keep /\ UNCHANGED <<stage, row, planned, pass, derived, inflated, produced,
                         weakest, result>>

StartMember ==
  /\ stage = "members" /\ ManifestReads /\ Planned(index)
  /\ Try(plans[index])
  /\ Keep /\ UNCHANGED <<planned, index, derived, written, result>>

\* A member nothing encrypts is copied, and checked as it goes; only stored and
\* deflated ones can be written again.
CopyMember ==
  LET m    == Members[index]
      good == m.crc /\ \A b \in DOMAIN m.blocks : ~Stale(index, b)
  IN
  /\ stage = "members" /\ index \in DOMAIN Members
  /\ ManifestReads /\ ~IsManifest(index) /\ ~Planned(index)
  /\ out' = IF m.method = "other" THEN out
            ELSE out \cup {Piece(index, b) : b \in DOMAIN m.blocks}
  /\ IF m.method = "other" \/ ~good THEN Ends("Zip") /\ UNCHANGED index
     ELSE index' = index + 1 /\ UNCHANGED <<stage, result>>
  /\ Keep /\ UNCHANGED <<row, planned, pass, derived, inflated, produced, weakest>>

\* ZipStreamWriter::finish.
FinishZip ==
  /\ stage = "members" /\ index > Len(Members)
  /\ Ends("ok")
  /\ Keep /\ UNCHANGED <<row, planned, index, pass, derived, written>>

\* Slip: what run returned stands, the latch notwithstanding.
ReturnResult ==
  /\ stage = "returning"
  /\ stage' = "returned"
  /\ verdict' = result
  /\ UNCHANGED <<call, row, planned, index, pass, derived, written, result, outside>>

\* decrypt_with_limits_to: the latch wins over whatever run returned.
Return ==
  /\ stage = "returning"
  /\ stage' = "returned"
  /\ verdict' = IF latch THEN "Io" ELSE result
  /\ UNCHANGED <<call, row, planned, index, pass, derived, written, result, outside>>

Run ==
  \/ ScreenClass \/ ScreenRow \/ Derive \/ VerifyBlock \/ Decide
  \/ ReleaseBlock \/ DrainBlock \/ FinishMember
  \/ ManifestFails \/ WriteManifest \/ StartMember \/ CopyMember \/ FinishZip \/ Return

-----------------------------------------------------------------------------
Running == stage \notin {"returning", "returned"}
Still   == UNCHANGED <<call, row, planned, index, pass, derived, written, verdict>>

\* The caller's reader fails a read.  The zip layer makes Zip of it, or carries
\* on: it probes, and read_full retries an interrupted read.
ReaderFails ==
  /\ Running /\ ~latch /\ call.password # ""
  /\ latch' = TRUE
  /\ Ends("Zip") \/ UNCHANGED <<stage, result>>
  /\ Still /\ UNCHANGED <<changed, failed>>

\* The caller's writer fails wherever something is written.
WriterFails ==
  /\ stage = "release" \/ (stage = "members" /\ ManifestReads /\ ~Planned(index))
  /\ failed = "none"
  /\ failed' = "writer"
  /\ Ends("Io")
  /\ Still /\ UNCHANGED <<changed, latch>>

\* A buffer cannot be allocated.  The zip writer's own buffers -- for the
\* manifest and for stored members -- report it as a corrupt member.
HostFails ==
  LET copies == /\ stage = "members" /\ index \in DOMAIN Members
                /\ ManifestReads /\ ~Planned(index)
      zips   == copies /\ (IsManifest(index) \/ Members[index].method = "stored")
      ours   == stage \in {"derive", "release", "drain"}
                  \/ (stage = "verify" /\ Cipher # "gcm")
                  \/ (copies /\ ~zips /\ Members[index].method = "deflated")
  IN
  /\ failed = "none" /\ (zips \/ ours)
  /\ failed' = "host"
  /\ Ends(IF zips THEN "Zip" ELSE "HostCannotAllocate")
  /\ Still /\ UNCHANGED <<changed, latch>>

\* Something else writes to the input while it is being read.
InputChanges ==
  /\ Running /\ stage # "classified" /\ Cardinality(changed) < MaxChanges
  /\ \E i \in DOMAIN Members : \E b \in DOMAIN Blocks(i) :
       /\ Sound(i, b)
       /\ \E d \in (IF b = 1 THEN {"window", "past"} ELSE {"past"}) :
            changed' = changed \cup {[member |-> i, block |-> b, damage |-> d]}
  /\ UNCHANGED <<stage, result, latch, failed>> /\ Still

Returned == stage = "returned" /\ UNCHANGED vars

Next == Run \/ ReaderFails \/ WriterFails \/ HostFails \/ InputChanges \/ Returned

\* decrypt_to is one thread: it runs until it returns.
Spec == Init /\ [][Next]_vars /\ WF_vars(Run)

-----------------------------------------------------------------------------
\* Does the password open row r on the input as the call found it?  A tag covers
\* the whole member, a checksum the window alone.
Opens(r) ==
  LET bs == Blocks(MemberOf(r)) IN
  /\ Rows[r].key # None /\ Rows[r].kdf
  /\ IF Rows[r].cipher = "gcm" THEN \A b \in DOMAIN bs : bs[b].damage = "none"
                               ELSE bs[1].damage # "window"

Units(pieces) == MapThenSumSet(LAMBDA p : p.units, pieces)
Plaintext     == {p \in out : Planned(p.member)}

\* decrypt_to: "no byte of a member reaches `writer` before LibreOffice would
\* have accepted the member".  A member whose check the input as given must fail
\* is never written from, whichever member failed first and however it did.
SealedStaysSealed == \A p \in Plaintext : Opens(plans[p.member])

\* What decrypt_to hands over with Ok of an AES-GCM member is what was sealed,
\* also if the input changed between the verify and the release pass.
AuthenticOrError ==
  verdict = "ok" =>
    \A p \in Plaintext : RowOf(plans[p.member]).cipher = "gcm" => p.sound

\* max_output_bytes bounds the plaintext of all encrypted members together; the
\* wholesome copy never even writes past it.
WithinLimit == Wholesome \/ verdict = "ok" => Units(Plaintext) <= call.limit

\* per_entry: "Every refusal that needs no key, for every row, before anything
\* is derived or written".
ScreensFirst == result \in NeedsNoKey => derived = 0 /\ out = {}

\* "so the same packages are refused": with Ok every row's own check has held,
\* a superseded row's too.  (A row for the manifest itself is never looked at.)
EveryRowChecked ==
  verdict = "ok" /\ changed = {} =>
    \A r \in Screened : ~IsManifest(MemberOf(r)) => Opens(r)

\* The verdict names the right culprit: Io the caller's reader or writer (and
\* any reader failure is Io), Inflate a member whose key was right, WrongPassword
\* a row that does not open or padding damaged past the window,
\* HostCannotAllocate the host.
BlameIsTrue ==
  /\ verdict = "Io" => latch \/ failed = "writer" \/ changed # {}
  /\ latch /\ stage = "returned" => verdict = "Io"
  /\ verdict = "Inflate" => Opens(row)
  /\ verdict = "WrongPassword" /\ changed = {} =>
       \/ ~Opens(row)
       \/ Cipher = "cbc" /\ Blocks(Current)[LastBlock].damage # "none"
  /\ verdict = "HostCannotAllocate" => failed = "host"

\* Every pass, ladder and drain ends: decrypt_to returns.
Returns == <>(stage = "returned")

\* DecryptError::Internal: "Reaching it means a guard moved, not that the input
\* was bad."
NeverInternal == verdict # "Internal"

\* IntegrityOutcome::Verified: "An AES-GCM tag covered every encrypted member".
VerifiedCoversEveryRow ==
  verdict = "ok" /\ weakest = "Verified" /\ changed = {} =>
    \A r \in Screened : RowOf(r).cipher = "gcm" /\ Opens(r)
=============================================================================
