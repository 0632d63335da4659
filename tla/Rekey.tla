-------------------------------- MODULE Rekey --------------------------------
(***************************************************************************)
(* reencrypt_to (src/reencrypt.rs): from a package under the old password  *)
(* to one under the new, with no plaintext written.  The screens, the key  *)
(* ladder and the rebuild are Decrypt's.  A wholesome payload is verified, *)
(* then read again through a tee into the new cipher while an inflater     *)
(* beside it checks it; a per-entry package is rebuilt into the deflater,  *)
(* inside the new package, which is begun first.                           *)
(***************************************************************************)
EXTENDS Decrypt

VARIABLES
  newKey,         \* the new password's key exists
  package,        \* the new package: "none", "head" once begun, "done"
  sealed          \* wholesome: the blocks the new cipher has taken, in order

rekey   == <<newKey, package, sealed>>
allVars == <<call, stage, row, plans, superseded, index, candidate, derived, block,
             dirty, stale, inflated, produced, out, weakest, result, verdict,
             changed, latch, failed, newKey, package, sealed>>

\* Members no row and no manifest entry names, and those listed in the clear:
\* what classify finds unexpected, and has_non_encrypted_entries.
MetaInf(i)  == Members[i].name \in {"manifest", "signatures"}
Named(i)    == \E r \in DOMAIN Rows : Rows[r].path = Members[i].name
Unlisted(i) == ~MetaInf(i) /\ Members[i].name \notin call.clear \cup {"mimetype"} /\ ~Named(i)
InClear     == \E i \in DOMAIN Members : Members[i].name \in call.clear

\* Slip: members the manifest does not list are not looked for.
CarriedOverListed ==
  IF Wholesome THEN "ok" ELSE IF InClear THEN "PartiallyEncrypted" ELSE "ok"

\* screen_per_entry.  package_encrypted is false when the root's own row came
\* too late to be counted.
CarriedOver ==
  IF Wholesome THEN "ok"
  ELSE IF InClear THEN "PartiallyEncrypted"
  ELSE IF \E i \in DOMAIN Members : Unlisted(i) THEN "UnexpectedStreams"
  ELSE IF ~call.latched THEN "PartiallyEncrypted"
  ELSE "ok"

\* The refusals before the package is read a second time, in their order.
Refusal ==
  IF call.password = "" THEN "EmptyPassword"
  ELSE IF call.new = "" THEN "NewEmptyPassword"
  ELSE IF ClassVerdict # "ok" THEN ClassVerdict
  ELSE CarriedOver

\* could_reach adds up the declared sizes of a per-entry package.
Reach == IF ~Wholesome /\ \E r \in DOMAIN Rows : Rows[r].size < 0 THEN "Size" ELSE "ok"

\* What is refused "before any key is derived or any byte written".
Screens == {"EmptyPassword", "NewEmptyPassword", "NotEncrypted", "Odf12Fatal",
            "UnsupportedPgp", "TooManyRows", "PartiallyEncrypted",
            "UnexpectedStreams", "Mimetype", "Size"}

-----------------------------------------------------------------------------
RekeyInit == Init /\ newKey = FALSE /\ package = "none" /\ sealed = <<>>

Screen ==
  /\ stage = "classified"
  /\ IF Refusal # "ok" THEN Ends(Refusal) ELSE stage' = "mimetype" /\ UNCHANGED result
  /\ Keep /\ UNCHANGED <<row, planned, index, pass, derived, written, rekey>>

\* resolve_mimetype, and per_entry's could_reach.
Mimetype ==
  LET v == IF ~call.mimetype THEN "Mimetype" ELSE Reach IN
  /\ stage = "mimetype"
  /\ IF v # "ok" THEN Ends(v) /\ UNCHANGED row
     ELSE /\ stage' = "rows" /\ UNCHANGED result
          /\ row' = IF Wholesome THEN WholesomeRow ELSE 1
  /\ Keep /\ UNCHANGED <<planned, index, pass, derived, written, rekey>>

\* Slip: the new package is begun when the old key is at hand to be tried.
BeginsEarly == package = "none" /\ stage = IF Wholesome THEN "derive" ELSE "mimetype"

\* Where write_package is called: a wholesome payload has been verified, a
\* per-entry package has been screened as far as its classification goes.
Begins == package = "none" /\ stage = IF Wholesome THEN "release" ELSE "rows"

\* write_package: the new key, the mimetype member, the payload's IV.
BeginPackage ==
  /\ Begins
  /\ newKey' = TRUE /\ package' = "head"
  /\ UNCHANGED <<vars, sealed>>

-----------------------------------------------------------------------------
\* Slip: the second pass does not look at the old tag.
TagUnread(bad) == {"ok"}

\* GcmDecryptReader at the end of the member.
TagAtEnd(bad) == IF bad = {} THEN {"ok"} ELSE {"Io"}

\* One read through the tee: decrypted under the old key, sealed under the new,
\* and only then looked at by the inflater.
TeeBlock ==
  LET sum  == inflated + Blocks(Current)[block].units
      mark == Blocks(Current)[block].mark
      ends == {"ok"} \cup (IF block = LastBlock THEN TagAtEnd(DirtyNow) ELSE {})
      bad  == IF Sound(Current, block) THEN {} ELSE {"Inflate"}
  IN
  /\ Wholesome /\ stage = "release" /\ package = "head"
  /\ dirty' = DirtyNow /\ stale' = StaleNow
  /\ \E e \in ends :
       IF e # "ok" THEN Ends(e) /\ UNCHANGED <<block, inflated, sealed>>
       ELSE /\ sealed' = Append(sealed, Piece(Current, block)) /\ inflated' = sum
            /\ \E v \in Inflates(sum) \cup bad :
                 IF v # "ok" THEN Ends(v) /\ UNCHANGED block
                 ELSE /\ block' = block + 1 /\ UNCHANGED result
                      /\ stage' = IF mark THEN "drain" ELSE "release"
  /\ Keep /\ UNCHANGED <<row, planned, index, candidate, derived, produced, out,
                         weakest, newKey, package>>

\* Past the DEFLATE end marker: "still part of the member, so still
\* re-encrypted".
TeeDrain ==
  /\ Wholesome /\ stage = "drain" /\ block <= LastBlock
  /\ dirty' = DirtyNow /\ stale' = StaleNow /\ block' = block + 1
  /\ sealed' = Append(sealed, Piece(Current, block))
  /\ Keep /\ UNCHANGED <<stage, result, row, planned, index, candidate, derived,
                         written, newKey, package>>

\* The old tag again, whatever the verify pass said.
TeeEnd ==
  /\ Wholesome /\ stage = "drain" /\ block > LastBlock
  /\ \E v \in TagAtEnd(dirty) :
       IF v # "ok" THEN Ends(v) ELSE stage' = "seal" /\ UNCHANGED result
  /\ Keep /\ UNCHANGED <<row, planned, index, pass, derived, written, rekey>>

\* The rebuilt zip and the deflater are finished.
RebuiltEnd ==
  /\ stage = "members" /\ index > Len(Members)
  /\ stage' = "seal" /\ UNCHANGED result
  /\ Keep /\ UNCHANGED <<row, planned, index, pass, derived, written, rekey>>

\* The new tag, the manifest, the directory.
Seal ==
  /\ stage = "seal"
  /\ package' = "done"
  /\ Ends("ok")
  /\ Keep /\ UNCHANGED <<row, planned, index, pass, derived, written, newKey, sealed>>

\* The steps Decrypt takes, of the ones reencrypt_to calls: for a wholesome
\* package the verify pass alone, for a per-entry one all of the rebuild.
VerifyOld == Wholesome /\ (ScreenRow \/ Derive \/ VerifyBlock \/ Decide)
Rebuild ==
  /\ ~Wholesome /\ package = "head"
  /\ \/ ScreenRow \/ Derive \/ VerifyBlock \/ Decide
     \/ ReleaseBlock \/ DrainBlock \/ FinishMember
     \/ ManifestFails \/ WriteManifest \/ StartMember \/ CopyMember

RekeyRun ==
  \/ Screen \/ Mimetype \/ BeginPackage \/ TeeBlock \/ TeeDrain \/ TeeEnd
  \/ RebuiltEnd \/ Seal
  \/ (VerifyOld \/ Rebuild \/ Return) /\ UNCHANGED rekey

-----------------------------------------------------------------------------
\* What fails outside: as in Decrypt, and while the new package is written.
WritesPackage ==
  Begins \/ stage = "seal" \/ (Wholesome /\ package = "head" /\ stage \in {"release", "drain"})

PackageFails ==
  /\ WritesPackage /\ failed = "none"
  /\ failed' = "writer" /\ Ends("Io")
  /\ Still /\ UNCHANGED <<changed, latch>>

\* No random bytes for the salt or the IV, or no memory for the new key.
HostRefuses ==
  /\ Begins /\ failed = "none"
  /\ failed' = "host" /\ (Ends("Random") \/ Ends("HostCannotAllocate"))
  /\ Still /\ UNCHANGED <<changed, latch>>

Outside ==
  /\ \/ call.new # "" /\ ReaderFails
     \/ ~Wholesome /\ WriterFails
     \/ HostFails
     \/ PackageFails \/ HostRefuses \/ InputChanges
  /\ UNCHANGED rekey

RekeyNext == RekeyRun \/ Outside \/ (Returned /\ UNCHANGED rekey)

RekeySpec == RekeyInit /\ [][RekeyNext]_allVars

-----------------------------------------------------------------------------
\* The new package is not begun before its time: "The verify pass, under the old
\* key, before anything is derived for the new one or written" -- a wholesome
\* package whose old key or tag does not hold never comes that far, whatever
\* happens to the input -- and what screen_per_entry and the screens before it
\* refuse is refused "before any key is derived or any byte written".
BegunWhenDue ==
  /\ Wholesome /\ newKey => Opens(WholesomeRow)
  /\ result \in Screens => derived = 0 /\ ~newKey /\ package = "none"

Blocked(s) == [k \in DOMAIN s |-> s[k].block]
Taken(i)   == {p.block : p \in {q \in out : q.member = i}}

\* "The inner package is carried over byte for byte": with Ok the new payload is
\* the old member's, all of it, in order and as it was sealed -- what follows
\* the end marker too, and though the input is read twice; and a rebuilt one has
\* every member, with every AES-GCM block as it was sealed.
RekeyedWhole ==
  verdict = "ok" =>
    /\ package = "done"
    /\ Wholesome =>
         /\ Blocked(sealed) = [k \in 1..LastBlock |-> k]
         /\ \A k \in DOMAIN sealed : sealed[k].sound
         /\ inflated = Expected
    /\ ~Wholesome => \A i \in DOMAIN Members :
         /\ Taken(i) # {}
         /\ Planned(i) =>
              /\ Units({p \in out : p.member = i}) = RowOf(plans[i]).size
              /\ RowOf(plans[i]).cipher = "gcm" => \A p \in out : p.member = i => p.sound

\* "carried into the output they would be authenticated by its tag": with Ok
\* the new tag covers nothing the old package did not encrypt, but for the
\* mimetype and what is in META-INF/.
NothingCarriedOver ==
  verdict = "ok" /\ ~Wholesome =>
    \A p \in out : Planned(p.member) \/ MetaInf(p.member)
                     \/ Members[p.member].name = "mimetype"
=============================================================================
