----------------------------- MODULE RekeyProofs -----------------------------
(***************************************************************************)
(* Theorems about Rekey, for any packages, passwords and limits.           *)
(*                                                                         *)
(* reencrypt_to takes Decrypt's steps and some of its own, and they keep   *)
(* DecryptProofs' invariant.  Of the new package Begun says when there may *)
(* be one, Admitted what the screens have made sure of by then, and        *)
(* Resealed that the new payload is what the second pass has read so far.  *)
(***************************************************************************)
EXTENDS Rekey, DecryptProofs

\* When there is a new package, and its key.
Begun ==
  /\ newKey <=> package # "none"
  /\ stage \in {"classified", "mimetype"} => package = "none"
  /\ Wholesome /\ stage \in {"rows", "derive", "verify"} => package = "none"
  /\ stage \in {"drain", "members", "seal"} \/ (~Wholesome /\ stage \in Reading) => package # "none"
  /\ Wholesome /\ newKey => Opens(WholesomeRow)
  /\ result \in Screens => derived = 0 /\ package = "none"
  /\ result = "ok" => package = "done"

\* What screen_class, screen_per_entry and could_reach have let through.
Admitted ==
  /\ stage \notin {"classified"} \cup Ending => call.mode # "plain" /\ CarriedOver = "ok"
  /\ stage \notin {"classified", "mimetype"} \cup Ending => Reach = "ok"
  /\ result = "ok" => CarriedOver = "ok"

\* The new payload of a wholesome package is what the tee has read of the old, in
\* order, and none of it damaged if the old tag is to hold.
Resealed ==
  /\ sealed \in Seq([member : Nat, block : Nat, sound : BOOLEAN, units : Nat])
  /\ Wholesome => out = {}
  /\ Wholesome /\ stage \notin {"release", "drain", "seal"} \cup Ending => sealed = <<>>
  /\ Wholesome /\ stage \in {"release", "drain"} =>
       /\ Len(sealed) = block - 1 /\ \A k \in DOMAIN sealed : sealed[k].block = k
       /\ dirty = {} => \A k \in DOMAIN sealed : sealed[k].sound
  /\ Wholesome /\ (stage = "seal" \/ result = "ok") =>
       /\ Len(sealed) = LastBlock /\ \A k \in DOMAIN sealed : sealed[k].block = k /\ sealed[k].sound
       /\ inflated = Expected

RInv == Begun /\ Admitted /\ Resealed

-----------------------------------------------------------------------------
\* The screens of its own: before anything is derived or written.
LEMMA NothingYet ==
  ASSUME Inv, stage \in {"classified", "mimetype"}
  PROVE  derived = 0 /\ out = {} /\ result = "none" /\ index \in Nat /\ stage \notin Ending
BY DEF Inv, Untouched, Early, Results, Ending, Given

LEMMA EarlyFails ==
  ASSUME Inv, Tally, stage \in {"classified", "mimetype"}, NEW e, Ends(e),
         e \notin {"none", "ok", "Io", "Inflate", "WrongPassword", "HostCannotAllocate"},
         Keep, UNCHANGED <<row, planned, index, pass, derived, written>>
  PROVE  Inv' /\ Tally'
<1>1. UNCHANGED <<call, plans, superseded, row, index, candidate, block, derived, inflated, produced,
                  out, verdict, changed>>
  BY DEF Keep, outside, planned, pass, written
<1>2. Wrote' /\ block' \in Nat /\ inflated' \in Nat
  BY <1>1, SameOut DEF Inv, Given, Tally, Fresh
<1>3. Inv'
  BY <1>1, <1>2, NothingYet, FailStep
<1> QED BY <1>1, <1>2, <1>3, NothingYet, QuietFails

LEMMA EarlyMoves ==
  ASSUME Inv, Tally, stage \in {"classified", "mimetype"}, stage' \in {"mimetype", "rows"}, result' = result,
         stage' = "rows" => call.mode # "plain" /\ row' = IF Wholesome THEN WholesomeRow ELSE 1,
         Keep, UNCHANGED <<planned, index, pass, derived, written>>
  PROVE  Inv' /\ Tally'
<1>1. UNCHANGED <<call, plans, superseded, index, candidate, block, dirty, derived, inflated, produced,
                  out, result, verdict, changed, latch, failed>>
  BY DEF Keep, outside, planned, pass, written
<1>2. Inv'
  BY <1>1, EarlyStep
<1>3. inflated' \in Nat /\ InHand' = InHand /\ index <= index'
  BY <1>1, NothingYet DEF Tally, Fresh, InHand
<1> QED BY <1>1, <1>2, <1>3, NothingYet, QuietTally DEF Ending, Reading

LEMMA RefusalFacts ==
  /\ CarriedOver \in {"ok", "PartiallyEncrypted", "UnexpectedStreams"}
  /\ Refusal \in {"ok", "EmptyPassword", "NewEmptyPassword", "NotEncrypted", "Odf12Fatal", "UnsupportedPgp",
                  "TooManyRows", "OutputLimit", "PartiallyEncrypted", "UnexpectedStreams"}
  /\ Refusal = "ok" => call.mode # "plain" /\ CarriedOver = "ok"
<1>1. CarriedOver \in {"ok", "PartiallyEncrypted", "UnexpectedStreams"}
  BY DEF CarriedOver
<1>2. /\ ClassVerdict \in {"ok", "EmptyPassword", "NotEncrypted", "Odf12Fatal", "UnsupportedPgp",
                           "TooManyRows", "OutputLimit"}
      /\ ClassVerdict = "ok" => call.mode # "plain"
  BY DEF ClassVerdict
<1>3. Refusal \in {"EmptyPassword", "NewEmptyPassword", ClassVerdict, CarriedOver}
  BY DEF Refusal
<1>4. Refusal = "ok" => ClassVerdict = "ok" /\ CarriedOver = "ok"
  BY DEF Refusal
<1> QED BY <1>1, <1>2, <1>3, <1>4

LEMMA ScreenStep == ASSUME Inv, Tally, Screen PROVE Inv' /\ Tally'
<1>1. /\ stage = "classified" /\ Keep /\ UNCHANGED <<row, planned, index, pass, derived, written>>
      /\ IF Refusal # "ok" THEN Ends(Refusal) ELSE stage' = "mimetype" /\ result' = result
  BY DEF Screen
<1>2. CASE Refusal # "ok"
  BY <1>1, <1>2, RefusalFacts, EarlyFails
<1>3. CASE Refusal = "ok"
  BY <1>1, <1>3, EarlyMoves
<1> QED BY <1>2, <1>3

LEMMA MimetypeStep == ASSUME Inv, Tally, Admitted, Mimetype PROVE Inv' /\ Tally'
<1>1. /\ stage = "mimetype" /\ Keep /\ UNCHANGED <<planned, index, pass, derived, written>>
      /\ \/ (Ends("Mimetype") \/ Ends("Size")) /\ row' = row
         \/ /\ stage' = "rows" /\ result' = result
            /\ row' = IF Wholesome THEN WholesomeRow ELSE 1
  BY DEF Mimetype, Reach
<1>2. call.mode # "plain"
  BY <1>1 DEF Admitted, Ending
<1>3. CASE (Ends("Mimetype") \/ Ends("Size")) /\ row' = row
  BY <1>1, <1>3, EarlyFails
<1>4. CASE stage' = "rows" /\ result' = result /\ row' = IF Wholesome THEN WholesomeRow ELSE 1
  BY <1>1, <1>2, <1>4, EarlyMoves
<1> QED BY <1>1, <1>3, <1>4

-----------------------------------------------------------------------------
\* The second pass over a wholesome payload.  Nothing but the new payload is
\* written, so what Decrypt counts stays.
LEMMA NoneWritten ==
  ASSUME Inv, Tally, Wholesome, out = {}, call' = call, out' = out, produced' = produced,
         inflated' \in Nat, inflated' <= call.limit - produced,
         stage' = "drain" => inflated' = Expected'
  PROVE  Tally'
<1>1. /\ call.limit \in Nat /\ produced \in Nat /\ inflated \in Nat
      /\ stage \notin Ending => produced + InHand <= call.limit
  BY CallsAssumption DEF Inv, Given, Tally, Fresh, Sums
<1>2. Plaintext' = {} /\ Units({}) = 0 /\ IsFiniteSet({})
  BY FS_EmptySet, UnitsAdd DEF Plaintext
<1>3. Fresh'
  BY <1>1, <1>2 DEF Fresh
<1>4. InHand' \in {0, inflated'}
  BY DEF InHand
<1>5. Sums'
  <2>1. CASE InHand' = 0
    <3>1. 0 <= produced + InHand' /\ produced + InHand' <= call.limit
      BY <1>1, <2>1
    <3> QED BY <1>1, <1>2, <3>1 DEF Sums
  <2>2. CASE InHand' = inflated'
    <3>1. 0 <= produced + inflated' /\ produced + inflated' <= call.limit
      <4>1. \A a, b, c \in Nat : b <= c - a => 0 <= a + b /\ a + b <= c
        OBVIOUS
      <4>2. produced \in Nat /\ call.limit \in Nat /\ inflated' \in Nat /\ inflated' <= call.limit - produced
        BY <1>1
      <4> QED BY <4>1, <4>2
    <3> QED BY <1>1, <1>2, <2>2, <3>1 DEF Sums
  <2> QED BY <1>4, <2>1, <2>2
<1>6. Sizes'
  BY Static DEF Sizes
<1> QED BY <1>3, <1>5, <1>6 DEF Tally

\* What is known of the second pass over a wholesome payload.
LEMMA Resealing ==
  ASSUME Inv, Tally, Wholesome, stage \in {"release", "drain"}, block \in 1..LastBlock
  PROVE  /\ Cipher = "gcm" /\ row = WholesomeRow /\ Opens(row) /\ superseded = <<>> /\ result = "none"
         /\ index \in Nat /\ candidate \in Candidates /\ Current \in DOMAIN Members
         /\ LastBlock \in Nat \ {0} /\ Blocks(Current)[block].units \in Nat /\ inflated \in Nat
         /\ \A b \in DirtyNow : b \in 1..LastBlock /\ changed # {}
         /\ DirtyNow = {} => dirty = {} /\ Sound(Current, block)
<1>1. Cipher = "gcm" /\ stage \in Reading /\ index \in Nat /\ candidate \in Candidates /\ inflated \in Nat
  BY DEF Inv, Reads, Reading, Given, Tally, Fresh
<1>2. /\ row = WholesomeRow /\ Opens(row) /\ superseded = <<>> /\ result = "none"
      /\ Current \in DOMAIN Members /\ LastBlock \in Nat \ {0} /\ call \in Calls
      /\ \A b \in 1..LastBlock : Blocks(Current)[b].damage = "none"
  BY <1>1, Releasing, Working
<1>3. Blocks(Current)[block].units \in Nat
  <2>1. block \in DOMAIN Blocks(Current)
    BY <1>1, Working
  <2> QED BY <1>2, <2>1, MemberFacts
<1>4. \A b \in DirtyNow : b \in 1..LastBlock /\ changed # {}
  BY <1>1, <1>2, DirtyBlames
<1>5. DirtyNow = {} => dirty = {} /\ Sound(Current, block)
  BY DEF DirtyNow
<1> QED BY <1>1, <1>2, <1>3, <1>4, <1>5

\* One block more is read: what stays of the invariant if run goes on.
LEMMA ReadsOn ==
  ASSUME Inv, Tally, Wholesome, stage \in {"release", "drain"}, block \in 1..LastBlock,
         stage' \in {"release", "drain"}, stage = "drain" => stage' = "drain", block' = block + 1,
         stage' = "release" => block # LastBlock, dirty' = DirtyNow,
         UNCHANGED <<call, row, plans, superseded, index, candidate, out, result, verdict, changed>>
  PROVE  Inv'
<1>1. /\ Cipher = "gcm" /\ Opens(row) /\ superseded = <<>> /\ index \in Nat /\ block \in Nat
      /\ candidate \in Candidates /\ LastBlock \in Nat \ {0} /\ stage \in Reading
      /\ \A b \in DirtyNow : b \in 1..LastBlock /\ changed # {}
  BY Resealing DEF Reading, Inv, Given
<1>2. At' /\ Current' = Current /\ LastBlock' = LastBlock /\ Cipher' = Cipher
  BY <1>1, SameRow DEF Reading
<1>3. Reads'
  BY <1>1, <1>2 DEF Reads
<1>4. Blames'
  BY <1>1, <1>2, Static DEF Blames
<1>5. Rejects' /\ Opened'
  BY <1>1, Static DEF Inv, Rejects, Opened, Reading
<1>6. Wrote' /\ \A i : Planned(i)' = Planned(i)
  BY SameOut
<1>7. Authentic'
  <2>1. dirty # {} => DirtyNow # {}
    BY DEF DirtyNow
  <2>2. \A r : RowOf(r)' = RowOf(r)
    BY Static
  <2> QED BY <1>1, <1>2, <1>6, <2>1, <2>2 DEF Inv, Authentic
<1>8. block' \in Nat
  BY <1>1
<1> QED BY <1>1, <1>2, <1>3, <1>4, <1>5, <1>6, <1>7, <1>8, MoveStep DEF Reading

LEMMA TeeBlockStep == ASSUME Inv, Tally, Resealed, TeeBlock PROVE Inv' /\ Tally'
<1> DEFINE sum == inflated + Blocks(Current)[block].units
<1>1. /\ Wholesome /\ stage = "release" /\ dirty' = DirtyNow /\ out = {}
      /\ UNCHANGED <<call, row, plans, superseded, index, candidate, derived, produced, out,
                     verdict, changed, latch, failed>>
  BY DEF TeeBlock, Keep, planned, outside, Resealed
<1>2. /\ block \in 1..LastBlock /\ block \in Nat /\ stage \notin Ending
      /\ call.limit \in Nat /\ produced \in Nat
  BY <1>1, CallsAssumption DEF Inv, Reads, Given, Ending, Tally, Fresh
<1>3. /\ Cipher = "gcm" /\ Opens(row) /\ index \in Nat /\ candidate \in Candidates
      /\ sum \in Nat /\ inflated \in Nat /\ result = "none"
      /\ \A b \in DirtyNow : changed # {}
  BY <1>1, <1>2, Resealing
<1>4. Wrote'
  BY <1>1, SameOut
<1> HIDE DEF sum
<1>5. ASSUME NEW e, Ends(e), e \in {"Io", "OutputLimit", "Inflate"}, e = "Io" => changed # {},
             block' = block, inflated' \in Nat
      PROVE  Inv' /\ Tally'
  <2>1. Inv'
    BY <1>1, <1>2, <1>3, <1>4, <1>5, FailStep DEF NeedsNoKey
  <2> QED BY <1>1, <1>2, <1>5, <2>1, QuietFails
<1>6. PICK e \in {"ok"} \cup (IF block = LastBlock THEN TagAtEnd(DirtyNow) ELSE {}) :
        IF e # "ok" THEN Ends(e) /\ UNCHANGED <<block, inflated, sealed>>
        ELSE /\ inflated' = sum
             /\ \E v \in Inflates(sum) \cup (IF Sound(Current, block) THEN {} ELSE {"Inflate"}) :
                  IF v # "ok" THEN Ends(v) /\ UNCHANGED block
                  ELSE /\ block' = block + 1 /\ UNCHANGED result
                       /\ stage' = IF Blocks(Current)[block].mark THEN "drain" ELSE "release"
  BY Zenon DEF TeeBlock, sum
<1>7. CASE e # "ok"
  <2>1. e = "Io" /\ DirtyNow # {}
    BY <1>6, <1>7 DEF TagAtEnd
  <2> QED BY <1>3, <1>5, <1>6, <1>7, <2>1
<1>8. CASE e = "ok"
  <2>1. PICK v \in Inflates(sum) \cup (IF Sound(Current, block) THEN {} ELSE {"Inflate"}) :
           IF v # "ok" THEN Ends(v) /\ UNCHANGED block
           ELSE /\ block' = block + 1 /\ UNCHANGED result
                /\ stage' = IF Blocks(Current)[block].mark THEN "drain" ELSE "release"
    BY <1>6, <1>8
  <2>2. inflated' = sum /\ v \in {"ok", "OutputLimit", "Inflate"} /\ (v = "ok" => "ok" \in Inflates(sum))
    BY <1>6, <1>8, <2>1 DEF Inflates
  <2>3. CASE v # "ok"
    BY <1>3, <1>5, <2>1, <2>2, <2>3
  <2>4. CASE v = "ok"
    <3>1. /\ block' = block + 1 /\ result' = result
          /\ stage' = IF Blocks(Current)[block].mark THEN "drain" ELSE "release"
      BY <2>1, <2>4
    <3>2. /\ ~(sum > Budget) /\ (stage' = "drain" => sum = Expected)
          /\ stage' = "release" => block # LastBlock
      BY <2>2, <2>4, <3>1 DEF Inflates
    <3>3. stage' \in {"release", "drain"}
      BY <3>1
    <3>4. Inv'
      BY <1>1, <1>2, <3>1, <3>2, <3>3, ReadsOn
    <3>5. sum <= call.limit - produced
      BY <1>2, <1>3, <3>2 DEF Budget
    <3>6. Expected' = Expected
      BY <1>1, Static DEF Expected
    <3>7. Tally'
      BY <1>1, <1>3, <2>2, <3>2, <3>5, <3>6, NoneWritten
    <3> QED BY <3>4, <3>7
  <2> QED BY <2>3, <2>4
<1> QED BY <1>7, <1>8

LEMMA TeeDrainStep == ASSUME Inv, Tally, TeeDrain PROVE Inv' /\ Tally'
<1>1. /\ Wholesome /\ stage = "drain" /\ stage' = "drain" /\ block <= LastBlock /\ dirty' = DirtyNow
      /\ block' = block + 1 /\ result' = result
      /\ UNCHANGED <<call, row, plans, superseded, index, candidate, derived, inflated, produced, out,
                     verdict, changed>>
  BY DEF TeeDrain, Keep, planned, written, outside
<1>2. block \in 1..LastBlock /\ block \in Nat /\ inflated \in Nat
  BY <1>1, Releasing DEF Inv, Reads, Given, Tally, Fresh
<1>3. Inv'
  BY <1>1, <1>2, ReadsOn
<1>4. InHand' = InHand /\ block <= block'
  BY <1>1, <1>2 DEF InHand
<1> QED BY <1>1, <1>2, <1>3, <1>4, QuietMoves DEF Reading

LEMMA TeeEndStep == ASSUME Inv, Tally, Resealed, TeeEnd PROVE Inv' /\ Tally'
<1>1. /\ Wholesome /\ stage = "drain" /\ stage \in Reading /\ stage \notin Ending /\ out = {}
      /\ UNCHANGED <<call, row, plans, superseded, index, candidate, block, dirty, derived, inflated,
                     produced, out, verdict, changed, latch, failed>>
      /\ \/ Ends("Io") /\ dirty # {}
         \/ stage' = "seal" /\ result' = result /\ dirty = {}
  BY DEF TeeEnd, TagAtEnd, Keep, planned, pass, written, outside, Reading, Ending, Resealed
<1>2. /\ block \in Nat /\ index \in Nat /\ candidate \in Candidates /\ inflated \in Nat
      /\ Cipher = "gcm" /\ Opens(row) /\ row \in Screened /\ superseded = <<>> /\ produced \in Nat
      /\ call.limit \in Nat
  BY <1>1, Releasing, CallsAssumption DEF Inv, Given, Reads, At, Tally, Fresh
<1>3. Wrote' /\ \A i : Planned(i)' = Planned(i)
  BY <1>1, SameOut
<1>4. CASE Ends("Io") /\ dirty # {}
  <2>1. changed # {}
    BY <1>1, <1>2, <1>4, Releasing DEF Inv, Blames
  <2>2. Inv'
    BY <1>1, <1>2, <1>3, <1>4, <2>1, FailStep DEF NeedsNoKey
  <2> QED BY <1>1, <1>2, <1>4, <2>2, QuietFails
<1>5. CASE stage' = "seal" /\ result' = result /\ dirty = {}
  <2>1. At' /\ Reads' /\ Blames' /\ Rejects' /\ Opened'
    BY <1>1, <1>2, <1>5, Static DEF At, Reads, Blames, Rejects, Opened, Reading
  <2>2. Authentic'
    BY <1>1 DEF Authentic
  <2>3. Inv'
    BY <1>1, <1>2, <1>3, <1>5, <2>1, <2>2, MoveStep
  <2>4. inflated <= call.limit - produced
    BY <1>1, <1>2 DEF Tally, Sums, InHand
  <2> QED BY <1>1, <1>2, <1>5, <2>3, <2>4, NoneWritten
<1> QED BY <1>1, <1>4, <1>5

-----------------------------------------------------------------------------
LEMMA RebuiltEndStep == ASSUME Inv, Tally, RebuiltEnd PROVE Inv' /\ Tally'
<1>1. /\ stage = "members" /\ index > Len(Members) /\ stage' = "seal" /\ result' = result
      /\ UNCHANGED <<call, row, plans, superseded, index, candidate, block, dirty, inflated, produced,
                     out, verdict, changed>>
  BY DEF RebuiltEnd, Keep, planned, pass, written, outside
<1>2. /\ block \in Nat /\ index \in Nat /\ candidate \in Candidates /\ inflated \in Nat
      /\ ~Wholesome /\ superseded = <<>>
  BY <1>1 DEF Inv, Given, At, Tally, Fresh
<1>3. At' /\ Reads' /\ Blames' /\ Rejects' /\ Opened'
  BY <1>1, <1>2, Static DEF At, Reads, Blames, Rejects, Opened, Reading
<1>4. Wrote' /\ Authentic'
  BY <1>1, SameOut, SameAuthentic DEF Ending
<1>5. Inv'
  BY <1>1, <1>2, <1>3, <1>4, MoveStep
<1> QED BY <1>1, <1>2, <1>5, QuietMoves DEF InHand

LEMMA SealStep == ASSUME Inv, Tally, Seal PROVE Inv' /\ Tally'
<1>1. /\ stage = "seal" /\ Ends("ok")
      /\ UNCHANGED <<call, row, plans, superseded, index, candidate, block, inflated, produced,
                     out, verdict, changed>>
  BY DEF Seal, Keep, planned, pass, written, outside
<1>2. superseded = <<>> /\ AllScreened /\ stage \notin Ending /\ inflated \in Nat /\ index \in Nat
  BY <1>1 DEF Inv, Given, At, AllScreened, Ending, Tally, Fresh
<1>3. ~Wholesome => index > Len(Members)
  BY <1>1 DEF Inv, At
<1>4. \A i \in DOMAIN Members : Planned(i) => Opens(plans[i])
  <2>1. CASE Wholesome
    <3>1. row \in Screened /\ Opens(row) /\ Screened = {WholesomeRow}
      BY <1>1, <2>1, ScreenedFacts DEF Inv, At, Opened, Given
    <3>2. \A i \in DOMAIN Members : Planned(i) => plans[i] \in Screened
      BY DEF Inv, Fits, Planned
    <3> QED BY <3>1, <3>2
  <2>2. CASE ~Wholesome
    <3>1. \A i \in DOMAIN Members : i < index
      BY <1>2, <1>3, <2>2, MemberFacts DEF Inv, Given
    <3> QED BY <1>2, <2>2, <3>1 DEF Inv, EachMember
  <2> QED BY <2>1, <2>2
<1>5. \A p \in out : Planned(p.member) /\ RowOf(plans[p.member]).cipher = "gcm" => p.sound
  BY <1>1, Untainted DEF Ending
<1>6. Inv'
  BY <1>1, <1>2, <1>4, <1>5, DoneStep
<1> QED BY <1>1, <1>2, <1>3, <1>6, AllWhole, QuietTally DEF Ends, Ending

-----------------------------------------------------------------------------
\* The steps reencrypt_to shares with decrypt_to, and failures while the new
\* package is written.
LEMMA SharedStep ==
  ASSUME Inv, Tally, [Next]_vars
  PROVE  Inv' /\ Tally'
BY Step, TallyStep

LEMMA PackageFailsStep ==
  ASSUME Inv, Tally, PackageFails \/ HostRefuses
  PROVE  Inv' /\ Tally'
<1>1. /\ stage \notin Ending /\ Still /\ changed' = changed
      /\ \/ Ends("Io") /\ failed' = "writer"
         \/ (Ends("Random") \/ Ends("HostCannotAllocate")) /\ failed' = "host"
  BY DEF PackageFails, HostRefuses, WritesPackage, Begins, Ending
<1>2. Inv'
  BY <1>1, OutsideFails
<1>3. UNCHANGED <<call, plans, out, produced, inflated>> /\ inflated \in Nat
  BY <1>1 DEF Still, planned, written, Tally, Fresh
<1> QED BY <1>1, <1>2, <1>3, QuietFails

LEMMA BothStep ==
  ASSUME Inv, Tally, RInv, [RekeyNext]_allVars
  PROVE  Inv' /\ Tally'
<1>1. CASE Screen
  BY <1>1, ScreenStep, Zenon
<1>2. CASE Mimetype
  BY <1>2, MimetypeStep, Zenon DEF RInv
<1>3. CASE TeeBlock
  BY <1>3, TeeBlockStep, Zenon DEF RInv
<1>4. CASE TeeDrain
  BY <1>4, TeeDrainStep, Zenon
<1>5. CASE TeeEnd
  BY <1>5, TeeEndStep, Zenon DEF RInv
<1>6. CASE RebuiltEnd
  BY <1>6, RebuiltEndStep, Zenon
<1>7. CASE Seal
  BY <1>7, SealStep, Zenon
<1>8. CASE PackageFails \/ HostRefuses
  BY <1>8, PackageFailsStep, Zenon
<1>9. CASE [Next]_vars
  BY <1>9, SharedStep, Zenon
<1>10. BeginPackage \/ UNCHANGED allVars => UNCHANGED vars
  BY DEF BeginPackage, allVars, vars
<1>11. VerifyOld \/ Rebuild \/ Return => Next
  BY Zenon DEF VerifyOld, Rebuild, Next, Run
<1>12. Outside => Next \/ PackageFails \/ HostRefuses
  BY Zenon DEF Outside, Next
<1>13. Returned => Next
  BY DEF Next
<1> QED BY <1>1, <1>2, <1>3, <1>4, <1>5, <1>6, <1>7, <1>8, <1>9, <1>10, <1>11, <1>12, <1>13, Zenon
        DEF RekeyNext, RekeyRun

-----------------------------------------------------------------------------
LEMMA StaticRekey ==
  ASSUME call' = call
  PROVE  CarriedOver' = CarriedOver /\ Reach' = Reach
BY Static DEF CarriedOver, Reach, InClear, Unlisted, Named, MetaInf

\* Steps that leave the new package alone: run goes on, or gives up for a reason
\* no screen has.
LEMMA Later ==
  ASSUME Inv, RInv, UNCHANGED <<call, newKey, package, sealed>>,
         stage \notin Ending, stage' \notin {"classified", "mimetype"},
         stage' \notin Ending => stage \notin {"classified", "mimetype"},
         result' \in Screens => derived' = 0 /\ package = "none", result' # "ok",
         Wholesome /\ stage' \notin Ending =>
           /\ stage \in {"rows", "derive", "verify"} /\ stage' \in {"rows", "derive", "verify", "release"}
           /\ stage' = "release" => block' = 1,
         ~Wholesome => stage' \in Ending \/ package = "head", Wholesome => out' = out
  PROVE  RInv'
<1>1. Begun'
  BY Static DEF RInv, Begun, Ending, Reading
<1>2. Admitted'
  BY StaticRekey DEF RInv, Admitted, Ending
<1>3. Wholesome' = Wholesome /\ (Wholesome => out' = {})
  BY Static DEF RInv, Resealed
<1>4. sealed \in Seq([member : Nat, block : Nat, sound : BOOLEAN, units : Nat])
  BY DEF RInv, Resealed
<1>5. Wholesome /\ stage' \notin Ending => sealed' = <<>>
  BY DEF RInv, Resealed, Ending
<1>6. Resealed'
  <2>1. CASE Wholesome /\ stage' \notin Ending
    BY <1>3, <1>4, <1>5, <2>1 DEF Resealed
  <2>2. CASE ~Wholesome
    BY <1>3, <1>4, <2>2 DEF Resealed
  <2>3. CASE stage' \in Ending
    BY <1>3, <1>4, <2>3 DEF Resealed, Ending
  <2> QED BY <2>1, <2>2, <2>3
<1> QED BY <1>1, <1>2, <1>6 DEF RInv

\* Steps that leave alone what RInv speaks of, and the return.
LEMMA RestRekey ==
  ASSUME Inv, RInv, UNCHANGED <<call, row, derived, block, dirty, inflated, out, result, newKey, package, sealed>>,
         \/ stage' = stage
         \/ stage = "returning" /\ stage' = "returned"
  PROVE  RInv'
<1>1. Begun'
  BY Static DEF RInv, Begun, Ending, Reading
<1>2. Admitted'
  BY StaticRekey DEF RInv, Admitted, Ending
<1>3. LastBlock' = LastBlock /\ Expected' = Expected /\ Wholesome' = Wholesome
  BY Static DEF LastBlock, Current, Expected
<1>4. Resealed'
  BY <1>3 DEF RInv, Resealed, Ending
<1> QED BY <1>1, <1>2, <1>4 DEF RInv

-----------------------------------------------------------------------------
\* The screening of the rows.
LEMMA ScreenRowBegun ==
  ASSUME Inv, RInv, ScreenRow, UNCHANGED <<newKey, package, sealed>>, ~Wholesome => package = "head"
  PROVE  RInv'
<1>1. /\ stage = "rows" /\ stage \notin Ending /\ UNCHANGED <<call, derived, out>>
      /\ derived = 0 /\ row \in DOMAIN Rows /\ result = "none"
  BY ScreenedFacts DEF ScreenRow, Screening, Keep, written, Ending, Inv, Untouched, Early, At, Given, Results
<1>2. \/ stage' = "returning" /\ result' = RowVerdict(row) /\ RowVerdict(row) # "ok"
      \/ /\ stage' \in {"rows", "derive", "members"} /\ result' = result
         /\ Wholesome => stage' # "members"
  BY <1>1 DEF ScreenRow, Screening, Ends, Try
<1>3. RowVerdict(row) \in {"ok", "Size", "NoMember", "Shape"}
  BY DEF RowVerdict
<1>4. RowVerdict(row) = "Size" => package = "none"
  <2>1. Wholesome => package = "none"
    BY <1>1 DEF RInv, Begun
  <2>2. ~Wholesome => RowVerdict(row) # "Size"
    BY <1>1 DEF RInv, Admitted, Reach, RowVerdict, Ending
  <2> QED BY <2>1, <2>2
<1>5. result' \in Screens => derived' = 0 /\ package = "none"
  BY <1>1, <1>2, <1>3, <1>4 DEF Screens
<1>6. result' # "ok"
  BY <1>1, <1>2
<1> QED BY <1>1, <1>2, <1>5, <1>6, Later DEF Ending

\* The verify passes, over a wholesome payload too.
LEMMA VerifyBegun ==
  ASSUME Inv, RInv, Derive \/ VerifyBlock \/ Decide, UNCHANGED <<newKey, package, sealed>>,
         ~Wholesome => package = "head"
  PROVE  RInv'
<1>1. /\ stage \in {"derive", "verify"} /\ UNCHANGED <<call, out>> /\ result = "none"
      /\ Wholesome => superseded = <<>>
  BY DEF Derive, VerifyBlock, Decide, Keep, written, Inv, Results, Ending, Fits
<1>2. Derive => \/ Ends("Kdf") \/ Ends("Internal")
                \/ stage' = "verify" /\ result' = result
  BY DEF Derive
<1>3. VerifyBlock => stage' = "verify" /\ result' = result
  BY <1>1 DEF VerifyBlock
<1>4. Decide => \/ Ends("Zip") \/ Ends("WrongPassword")
                \/ stage' \in {"derive", "release"} /\ result' = result
                   /\ (stage' = "release" => block' = 1)
                \/ stage' = "members" /\ superseded # <<>> /\ result' = result
  <2>1. Rejected => (stage' = "derive" /\ result' = result) \/ Ends("WrongPassword")
    BY DEF Rejected
  <2>2. Accepted => /\ result' = result
                    /\ \/ stage' \in {"derive", "release"} /\ (stage' = "release" => block' = 1)
                       \/ stage' = "members" /\ superseded # <<>>
    BY DEF Accepted, Try
  <2> QED BY <2>1, <2>2 DEF Decide
<1>5. \/ stage' = "returning" /\ result' \in {"Kdf", "Internal", "Zip", "WrongPassword"}
      \/ /\ stage' \in {"derive", "verify", "release"} /\ result' = "none"
         /\ stage' = "release" => block' = 1
      \/ stage' = "members" /\ ~Wholesome /\ result' = "none"
  BY <1>1, <1>2, <1>3, <1>4 DEF Ends
<1>6. result' \notin Screens \cup {"ok"} /\ stage \notin Ending /\ stage' \notin {"classified", "mimetype"}
  BY <1>1, <1>5 DEF Screens, Ending
<1> QED BY <1>1, <1>5, <1>6, Later DEF Ending

\* The rebuild of a per-entry package.
LEMMA RebuildBegun ==
  ASSUME Inv, RInv, ~Wholesome, package = "head", UNCHANGED <<newKey, package, sealed>>,
         \/ ReleaseBlock \/ DrainBlock \/ FinishMember
         \/ ManifestFails \/ WriteManifest \/ StartMember \/ CopyMember
  PROVE  RInv'
<1>1. stage \in {"release", "drain", "members"} /\ call' = call /\ result = "none"
  BY DEF ReleaseBlock, DrainBlock, FinishMember, ManifestFails, WriteManifest, StartMember,
         CopyMember, Keep, Inv, Results, Ending
<1> DEFINE Errors == {"WrongPassword", "Io", "Zip", "OutputLimit", "Inflate"}
<1>2. ReleaseBlock => \/ \E e \in Errors : Ends(e)
                      \/ stage' \in {"release", "drain"} /\ result' = result
  <2> SUFFICES ASSUME ReleaseBlock
               PROVE  \/ \E e \in Errors : Ends(e)
                      \/ stage' \in {"release", "drain"} /\ result' = result
    OBVIOUS
  <2>1. \/ Ends("WrongPassword") \/ Ends("Zip")
        \/ \E e \in {"ok"} \cup (IF block = LastBlock THEN AtEnd(DirtyNow, StaleNow) ELSE {}) :
             IF e # "ok" THEN Ends(e)
             ELSE \E v \in Inflates(inflated + Blocks(Current)[block].units)
                           \cup (IF Sound(Current, block) THEN {} ELSE {"Inflate"}) :
                    IF v # "ok" THEN Ends(v)
                    ELSE /\ result' = result
                         /\ stage' = IF Blocks(Current)[block].mark THEN "drain" ELSE "release"
    BY DEF ReleaseBlock
  <2>2. AtEnd(DirtyNow, StaleNow) \subseteq {"ok", "Io", "Zip", "WrongPassword"}
    BY DEF AtEnd
  <2>3. Inflates(inflated + Blocks(Current)[block].units) \subseteq {"ok", "OutputLimit", "Inflate"}
    BY DEF Inflates
  <2> QED BY <2>1, <2>2, <2>3
<1>3. FinishMember => \/ \E e \in Errors : Ends(e)
                      \/ stage' = "members" /\ result' = result
  BY DEF FinishMember, AtEnd
<1>4. DrainBlock \/ WriteManifest => stage' = stage /\ result' = result
  BY DEF DrainBlock, WriteManifest, written
<1>5. StartMember => stage' = "derive" /\ result' = result
  BY DEF StartMember, Try
<1>6. CopyMember \/ ManifestFails =>
                    \/ Ends("Zip")
                    \/ stage' = stage /\ result' = result
  BY DEF CopyMember, ManifestFails
<1>7. \/ stage' = "returning" /\ result' \in Errors
      \/ stage' \in {"release", "drain", "members", "derive"} /\ result' = "none"
  BY <1>1, <1>2, <1>3, <1>4, <1>5, <1>6 DEF Ends
<1>8. result' \notin Screens \cup {"ok"} /\ stage \notin Ending /\ stage' \notin {"classified", "mimetype"}
  BY <1>1, <1>7 DEF Screens, Ending
<1> QED BY <1>1, <1>8, Later

-----------------------------------------------------------------------------
\* The steps of reencrypt_to alone.
LEMMA EarlyBegun ==
  ASSUME Inv, RInv, UNCHANGED <<call, derived, out, newKey, package, sealed>>,
         stage \in {"classified", "mimetype"}, result' # "ok",
         \/ stage' = "returning"
         \/ /\ stage' \in {"mimetype", "rows"} /\ result' = "none"
            /\ call.mode # "plain" /\ CarriedOver = "ok"
            /\ stage' = "rows" => Reach = "ok"
  PROVE  RInv'
<1>1. derived = 0 /\ package = "none" /\ ~newKey
  BY NothingYet DEF RInv, Begun
<1>2. Begun'
  BY <1>1, Static DEF Begun, Screens, Reading
<1>3. Admitted'
  BY StaticRekey DEF Admitted, Ending
<1>4. Wholesome' = Wholesome /\ (Wholesome => out' = {} /\ sealed = <<>>)
      /\ sealed \in Seq([member : Nat, block : Nat, sound : BOOLEAN, units : Nat])
  BY Static DEF RInv, Resealed, Ending
<1>5. Resealed'
  BY <1>4 DEF Resealed, Ending
<1> QED BY <1>2, <1>3, <1>5 DEF RInv

LEMMA ScreenBegun == ASSUME Inv, RInv, Screen PROVE RInv'
<1>1. stage = "classified" /\ result = "none"
  BY NothingYet DEF Screen
<1>2. UNCHANGED <<call, derived, out, newKey, package, sealed>>
  BY DEF Screen, Keep, written, rekey
<1>3. IF Refusal # "ok" THEN Ends(Refusal) ELSE stage' = "mimetype" /\ result' = result
  BY DEF Screen
<1>4. Refusal = "ok" => call.mode # "plain" /\ CarriedOver = "ok"
  BY RefusalFacts
<1> QED BY <1>1, <1>2, <1>3, <1>4, EarlyBegun DEF Ends

LEMMA MimetypeBegun == ASSUME Inv, RInv, Mimetype PROVE RInv'
<1>1. stage = "mimetype" /\ result = "none"
  BY NothingYet DEF Mimetype
<1>2. UNCHANGED <<call, derived, out, newKey, package, sealed>>
  BY DEF Mimetype, Keep, written, rekey
<1>3. \/ Ends("Mimetype") \/ Ends("Size")
      \/ stage' = "rows" /\ result' = result /\ Reach = "ok"
  BY DEF Mimetype, Reach
<1>4. call.mode # "plain" /\ CarriedOver = "ok"
  BY <1>1 DEF RInv, Admitted, Ending
<1> QED BY <1>1, <1>2, <1>3, <1>4, EarlyBegun DEF Ends

\* write_package begins: a wholesome payload has been verified by now, and no
\* screen of a per-entry package is left that refuses without a key.
LEMMA BeginPackageBegun == ASSUME Inv, RInv, BeginPackage PROVE RInv'
<1>1. /\ newKey' = TRUE /\ package' = "head"
      /\ UNCHANGED <<call, stage, row, block, dirty, derived, inflated, out, result, sealed>>
      /\ IF Wholesome THEN stage = "release" ELSE stage = "rows"
  BY DEF BeginPackage, vars, Begins
<1>2. result = "none"
  BY <1>1 DEF Inv, Results, Ending
<1>3. Wholesome => Opens(WholesomeRow)
  <2>1. Wholesome => Opens(row) /\ row = WholesomeRow
    BY <1>1, Releasing, Working DEF Reading
  <2> QED BY <2>1
<1>4. Begun'
  BY <1>1, <1>2, <1>3, Static DEF Begun, Screens
<1>5. Admitted'
  BY <1>1, StaticRekey DEF RInv, Admitted
<1>6. LastBlock' = LastBlock /\ Expected' = Expected /\ Wholesome' = Wholesome
  BY <1>1, Static DEF LastBlock, Current, Expected
<1>7. Resealed'
  BY <1>1, <1>6 DEF RInv, Resealed
<1> QED BY <1>4, <1>5, <1>7 DEF RInv

\* A run that gives up, but for what the screens refuse.
LEMMA GivesUp ==
  ASSUME Inv, RInv, NEW e, Ends(e), e \notin Screens \cup {"ok"}, UNCHANGED <<call, out, newKey, package>>,
         sealed' \in Seq([member : Nat, block : Nat, sound : BOOLEAN, units : Nat])
  PROVE  RInv'
<1>1. stage' = "returning" /\ result' \notin Screens \cup {"ok"}
  BY DEF Ends
<1>2. Begun'
  BY <1>1, Static DEF RInv, Begun, Reading
<1>3. Admitted'
  BY <1>1 DEF Admitted, Ending
<1>4. Wholesome' = Wholesome /\ (Wholesome => out' = {})
  BY Static DEF RInv, Resealed
<1>5. Resealed'
  BY <1>1, <1>4 DEF Resealed, Ending
<1> QED BY <1>2, <1>3, <1>5 DEF RInv

\* The blocks the tee reads are the next ones of the old member.
LEMMA PieceFacts ==
  ASSUME Inv, Tally, Wholesome, stage \in {"release", "drain"}, block \in 1..LastBlock
  PROVE  /\ Piece(Current, block) \in [member : Nat, block : Nat, sound : BOOLEAN, units : Nat]
         /\ Piece(Current, block).block = block
         /\ DirtyNow = {} => Piece(Current, block).sound
<1>1. /\ Current \in DOMAIN Members /\ Blocks(Current)[block].units \in Nat
      /\ DirtyNow = {} => Sound(Current, block)
  BY Resealing
<1>2. Current \in Nat /\ block \in Nat
  <2>1. index = Current
    BY Releasing
  <2> QED BY <2>1 DEF Inv, Given
<1>3. Sound(Current, block) \in BOOLEAN
  BY DEF Sound
<1> QED BY <1>1, <1>2, <1>3 DEF Piece

LEMMA TeeReads ==
  ASSUME Inv, Tally, RInv, Wholesome, stage \in {"release", "drain"}, block \in 1..LastBlock,
         stage' \in {"release", "drain"}, block' = block + 1, dirty' = DirtyNow,
         sealed' = Append(sealed, Piece(Current, block)),
         UNCHANGED <<call, row, derived, out, result, newKey, package>>, package # "none"
  PROVE  RInv'
<1> DEFINE P == [member : Nat, block : Nat, sound : BOOLEAN, units : Nat]
           p == Piece(Current, block)
<1>1. p \in P /\ p.block = block /\ (DirtyNow = {} => p.sound)
  BY PieceFacts
<1>2. /\ sealed \in Seq(P) /\ out = {} /\ Len(sealed) = block - 1 /\ block \in Nat
      /\ \A k \in DOMAIN sealed : sealed[k].block = k
      /\ dirty = {} => \A k \in DOMAIN sealed : sealed[k].sound
      /\ result = "none" /\ stage \notin Ending
  BY Resealing DEF RInv, Resealed, Inv, Given, Ending
<1>3. DirtyNow = {} => dirty = {}
  BY DEF DirtyNow
<1> HIDE DEF p, P
<1>4. /\ sealed' \in Seq(P) /\ Len(sealed') = block /\ DOMAIN sealed' = 1..block
      /\ sealed'[block] = p /\ \A k \in 1..(block - 1) : sealed'[k] = sealed[k]
  BY <1>1, <1>2 DEF p
<1>5. /\ Len(sealed') = block' - 1
      /\ \A k \in DOMAIN sealed' : sealed'[k].block = k
      /\ dirty' = {} => \A k \in DOMAIN sealed' : sealed'[k].sound
  <2>1. Len(sealed') = block' - 1
    BY <1>2, <1>4
  <2>2. ASSUME NEW k \in DOMAIN sealed'
        PROVE  sealed'[k].block = k /\ (dirty' = {} => sealed'[k].sound)
    <3>1. CASE k = block
      BY <1>1, <1>4, <3>1
    <3>2. CASE k # block
      <4>1. k \in DOMAIN sealed /\ sealed'[k] = sealed[k]
        BY <1>2, <1>4, <2>2, <3>2
      <4> QED BY <1>2, <1>3, <4>1
    <3> QED BY <3>1, <3>2
  <2> QED BY <2>1, <2>2
<1>6. Begun'
  BY <1>2, Static DEF RInv, Begun, Ending
<1>7. Admitted'
  BY <1>2, StaticRekey DEF RInv, Admitted, Ending
<1>8. Resealed'
  BY <1>2, <1>4, <1>5 DEF Resealed, P
<1> QED BY <1>6, <1>7, <1>8 DEF RInv

LEMMA TeeBlockBegun == ASSUME Inv, Tally, RInv, TeeBlock PROVE RInv'
<1>1. /\ Wholesome /\ stage = "release" /\ dirty' = DirtyNow /\ package # "none"
      /\ UNCHANGED <<call, row, derived, out, newKey, package>>
  BY DEF TeeBlock, Keep
<1>2. block \in 1..LastBlock /\ stage \notin {"classified", "mimetype"} \cup Ending
  BY <1>1 DEF Inv, Reads, Ending
<1>3. \/ sealed' = sealed /\ Ends("Io")
      \/ /\ sealed' = Append(sealed, Piece(Current, block))
         /\ \/ Ends("OutputLimit") \/ Ends("Inflate")
            \/ block' = block + 1 /\ result' = result /\ stage' \in {"release", "drain"}
  <2>1. PICK e \in {"ok"} \cup (IF block = LastBlock THEN TagAtEnd(DirtyNow) ELSE {}) :
          IF e # "ok" THEN Ends(e) /\ UNCHANGED <<block, inflated, sealed>>
          ELSE /\ sealed' = Append(sealed, Piece(Current, block))
               /\ \E v \in Inflates(inflated + Blocks(Current)[block].units)
                             \cup (IF Sound(Current, block) THEN {} ELSE {"Inflate"}) :
                    IF v # "ok" THEN Ends(v) /\ UNCHANGED block
                    ELSE /\ block' = block + 1 /\ UNCHANGED result
                         /\ stage' = IF Blocks(Current)[block].mark THEN "drain" ELSE "release"
    BY Zenon DEF TeeBlock
  <2>2. e \in {"ok", "Io"}
    BY DEF TagAtEnd
  <2>3. Inflates(inflated + Blocks(Current)[block].units) \subseteq {"ok", "OutputLimit", "Inflate"}
    BY DEF Inflates
  <2> QED BY <2>1, <2>2, <2>3
<1>4. sealed' \in Seq([member : Nat, block : Nat, sound : BOOLEAN, units : Nat])
  <2> DEFINE P == [member : Nat, block : Nat, sound : BOOLEAN, units : Nat]
  <2>1. sealed \in Seq(P)
    BY DEF RInv, Resealed
  <2>2. Piece(Current, block) \in P
    BY <1>1, <1>2, PieceFacts
  <2>3. \A q \in P : Append(sealed, q) \in Seq(P)
    BY <2>1
  <2> HIDE DEF P
  <2>4. sealed' \in Seq(P)
    BY <1>3, <2>1, <2>2, <2>3
  <2> QED BY <2>4 DEF P
<1>5. {"Io", "OutputLimit", "Inflate"} \cap (Screens \cup {"ok"}) = {}
  BY DEF Screens
<1> QED BY <1>1, <1>2, <1>3, <1>4, <1>5, GivesUp, TeeReads

LEMMA TeeDrainBegun == ASSUME Inv, Tally, RInv, TeeDrain PROVE RInv'
<1>1. /\ Wholesome /\ stage = "drain" /\ stage' = "drain" /\ block <= LastBlock /\ dirty' = DirtyNow
      /\ block' = block + 1 /\ sealed' = Append(sealed, Piece(Current, block))
      /\ UNCHANGED <<call, row, derived, out, result, newKey, package>>
  BY DEF TeeDrain, Keep, written
<1>2. block \in 1..LastBlock
  BY <1>1, Releasing DEF Inv, Reads, Given
<1>3. package # "none"
  BY <1>1 DEF RInv, Begun
<1> QED BY <1>1, <1>2, <1>3, TeeReads

\* The old tag holds again: the new payload is the old one, whole.
LEMMA TeeEndBegun == ASSUME Inv, Tally, RInv, TeeEnd PROVE RInv'
<1>1. /\ Wholesome /\ stage = "drain" /\ block > LastBlock
      /\ UNCHANGED <<call, row, block, dirty, derived, inflated, out, newKey, package, sealed>>
      /\ \/ Ends("Io")
         \/ stage' = "seal" /\ result' = result /\ dirty = {}
  BY DEF TeeEnd, TagAtEnd, Keep, pass, written, rekey
<1>2. CASE Ends("Io")
  BY <1>1, <1>2, GivesUp DEF Screens, Ending, RInv, Resealed
<1>3. CASE stage' = "seal" /\ result' = result /\ dirty = {}
  <2>1. block \in Nat /\ LastBlock \in Nat /\ block = LastBlock + 1 /\ inflated = Expected
    BY <1>1, Releasing DEF Inv, Reads, Given, Tally, Fresh
  <2>2. /\ Len(sealed) = LastBlock /\ inflated = Expected
        /\ \A k \in DOMAIN sealed : sealed[k].block = k /\ sealed[k].sound
    BY <1>1, <1>3, <2>1 DEF RInv, Resealed
  <2>3. LastBlock' = LastBlock /\ Expected' = Expected /\ Wholesome' = Wholesome
    BY <1>1, Static DEF LastBlock, Current, Expected
  <2>4. result = "none"
    BY <1>1 DEF Inv, Results, Ending
  <2>5. Begun'
    BY <1>1, <1>3, <2>4, Static DEF RInv, Begun, Screens
  <2>6. Admitted'
    BY <1>1, <1>3, <2>4, StaticRekey DEF RInv, Admitted, Ending
  <2>7. Resealed'
    BY <1>1, <1>3, <2>2, <2>3, <2>4 DEF RInv, Resealed, Ending
  <2> QED BY <2>5, <2>6, <2>7 DEF RInv
<1> QED BY <1>1, <1>2, <1>3

\* The rebuilt zip is finished: of a wholesome package there is none.
LEMMA RebuiltEndBegun == ASSUME Inv, RInv, RebuiltEnd PROVE RInv'
<1>1. /\ stage = "members" /\ stage' = "seal" /\ result' = result
      /\ UNCHANGED <<call, derived, out, newKey, package, sealed>>
  BY DEF RebuiltEnd, Keep, written, rekey
<1>2. ~Wholesome /\ ~Wholesome' /\ result = "none"
  BY <1>1, Static DEF Inv, At, Results, Ending
<1>3. Begun'
  BY <1>1, <1>2, Static DEF RInv, Begun, Screens
<1>4. Admitted'
  BY <1>1, <1>2, StaticRekey DEF RInv, Admitted, Ending
<1>5. Resealed'
  BY <1>1, <1>2 DEF RInv, Resealed
<1> QED BY <1>3, <1>4, <1>5 DEF RInv

LEMMA SealBegun == ASSUME Inv, RInv, Seal PROVE RInv'
<1>1. /\ stage = "seal" /\ stage' = "returning" /\ result' = "ok" /\ package' = "done"
      /\ UNCHANGED <<call, row, derived, inflated, out, newKey, sealed>>
  BY DEF Seal, Ends, Keep, written
<1>2. LastBlock' = LastBlock /\ Expected' = Expected /\ Wholesome' = Wholesome
  BY <1>1, Static DEF LastBlock, Current, Expected
<1>3. Begun'
  BY <1>1, Static DEF RInv, Begun, Screens, Reading
<1>4. Admitted'
  BY <1>1, StaticRekey DEF RInv, Admitted, Ending
<1>5. Resealed'
  BY <1>1, <1>2 DEF RInv, Resealed, Ending
<1> QED BY <1>3, <1>4, <1>5 DEF RInv

\* What fails outside, the changes of the input, and the return.
LEMMA OutsideBegun ==
  ASSUME Inv, RInv, Outside \/ ((Return \/ Returned) /\ UNCHANGED rekey) \/ UNCHANGED allVars
  PROVE  RInv'
<1> DEFINE Off == ReaderFails \/ WriterFails \/ HostFails \/ PackageFails \/ HostRefuses
<1>1. UNCHANGED <<newKey, package, sealed>>
  BY DEF Outside, rekey, allVars
<1>2. CASE Off
  <2>1. UNCHANGED <<call, row, derived, block, dirty, inflated, out>>
    BY <1>2 DEF ReaderFails, WriterFails, HostFails, PackageFails, HostRefuses, Still, pass, written
  <2>2. (stage' = stage /\ result' = result) \/ \E e \in {"Zip", "Io", "Random", "HostCannotAllocate"} : Ends(e)
    BY <1>2 DEF ReaderFails, WriterFails, HostFails, PackageFails, HostRefuses
  <2>3. sealed' \in Seq([member : Nat, block : Nat, sound : BOOLEAN, units : Nat])
    BY <1>1 DEF RInv, Resealed
  <2>4. {"Zip", "Io", "Random", "HostCannotAllocate"} \cap (Screens \cup {"ok"}) = {}
    BY DEF Screens
  <2> QED BY <1>1, <2>1, <2>2, <2>3, <2>4, GivesUp, RestRekey
<1>3. CASE InputChanges \/ Return \/ Returned \/ UNCHANGED allVars
  <2>1. UNCHANGED <<call, row, derived, block, dirty, inflated, out, result>>
    BY <1>3 DEF InputChanges, Return, Returned, allVars, vars, Still, pass, written
  <2>2. stage' = stage \/ (stage = "returning" /\ stage' = "returned")
    BY <1>3 DEF InputChanges, Return, Returned, allVars, vars
  <2> QED BY <1>1, <2>1, <2>2, RestRekey
<1> QED BY <1>2, <1>3, Zenon DEF Outside

LEMMA RekeyStep == ASSUME Inv, Tally, RInv, [RekeyNext]_allVars PROVE RInv'
<1>1. CASE Screen
  BY <1>1, ScreenBegun, Zenon
<1>2. CASE Mimetype
  BY <1>2, MimetypeBegun, Zenon
<1>3. CASE BeginPackage
  BY <1>3, BeginPackageBegun, Zenon
<1>4. CASE TeeBlock
  BY <1>4, TeeBlockBegun, Zenon
<1>5. CASE TeeDrain
  BY <1>5, TeeDrainBegun, Zenon
<1>6. CASE TeeEnd
  BY <1>6, TeeEndBegun, Zenon
<1>7. CASE RebuiltEnd
  BY <1>7, RebuiltEndBegun, Zenon
<1>8. CASE Seal
  BY <1>8, SealBegun, Zenon
<1>9. CASE (VerifyOld \/ Rebuild) /\ UNCHANGED rekey
  <2>1. UNCHANGED <<newKey, package, sealed>>
    BY <1>9 DEF rekey
  <2>2. ~Wholesome => package = "head"
    BY <1>9 DEF VerifyOld, Rebuild
  <2>3. CASE ScreenRow
    BY <2>1, <2>2, <2>3, ScreenRowBegun, Zenon
  <2>4. CASE Derive \/ VerifyBlock \/ Decide
    BY <2>1, <2>2, <2>4, VerifyBegun, Zenon
  <2>5. CASE /\ ~Wholesome
             /\ \/ ReleaseBlock \/ DrainBlock \/ FinishMember
                \/ ManifestFails \/ WriteManifest \/ StartMember \/ CopyMember
    BY <2>1, <2>2, <2>5, RebuildBegun, Zenon
  <2> QED BY <1>9, <2>3, <2>4, <2>5, Zenon DEF VerifyOld, Rebuild
<1>10. CASE Outside \/ ((Return \/ Returned) /\ UNCHANGED rekey) \/ UNCHANGED allVars
  BY <1>10, OutsideBegun, Zenon
<1> QED BY <1>1, <1>2, <1>3, <1>4, <1>5, <1>6, <1>7, <1>8, <1>9, <1>10, Zenon DEF RekeyNext, RekeyRun

LEMMA RekeyBegins == RekeyInit => Inv /\ Tally /\ RInv
<1> SUFFICES ASSUME RekeyInit PROVE Inv /\ Tally /\ RInv
  OBVIOUS
<1>1. /\ Init /\ newKey = FALSE /\ package = "none" /\ sealed = <<>> /\ stage = "classified"
      /\ result = "none" /\ out = {} /\ derived = 0
  BY DEF RekeyInit, Init
<1>2. Inv /\ Tally
  BY <1>1, InitInv, InitTally
<1>3. Begun /\ Admitted /\ Resealed
  BY <1>1 DEF Begun, Admitted, Resealed, Reading, Screens, Ending
<1> QED BY <1>2, <1>3 DEF RInv

THEOREM RekeyInvariance == RekeySpec => [](Inv /\ Tally /\ RInv)
<1>1. Inv /\ Tally /\ RInv /\ [RekeyNext]_allVars => (Inv /\ Tally /\ RInv)'
  BY BothStep, RekeyStep, Zenon
<1> QED BY <1>1, RekeyBegins, PTL DEF RekeySpec

-----------------------------------------------------------------------------
\* What the invariants say of the answer.
LEMMA SaysDue == RInv => BegunWhenDue
BY DEF RInv, Begun, BegunWhenDue

LEMMA SaysWhole == Inv /\ Tally /\ RInv => RekeyedWhole
<1> SUFFICES ASSUME Inv, Tally, RInv, verdict = "ok" PROVE RekeyedWhole
  BY DEF RekeyedWhole
<1>1. result = "ok"
  BY DEF Inv, Answer
<1>2. package = "done"
  BY <1>1 DEF RInv, Begun
<1>3. ASSUME Wholesome
      PROVE  /\ Blocked(sealed) = [k \in 1..LastBlock |-> k]
             /\ \A k \in DOMAIN sealed : sealed[k].sound
             /\ inflated = Expected
  <2>1. /\ sealed \in Seq([member : Nat, block : Nat, sound : BOOLEAN, units : Nat])
        /\ Len(sealed) = LastBlock /\ inflated = Expected
        /\ \A k \in DOMAIN sealed : sealed[k].block = k /\ sealed[k].sound
    BY <1>1, <1>3 DEF RInv, Resealed
  <2>2. DOMAIN sealed = 1..LastBlock
    BY <2>1
  <2> QED BY <2>1, <2>2 DEF Blocked
<1>4. ASSUME ~Wholesome, NEW i \in DOMAIN Members
      PROVE  /\ Taken(i) # {}
             /\ Planned(i) =>
                  /\ Units({p \in out : p.member = i}) = RowOf(plans[i]).size
                  /\ RowOf(plans[i]).cipher = "gcm" => \A p \in out : p.member = i => p.sound
  <2>1. Whole(i)
    BY <1>1, <1>4 DEF Tally, Sizes
  <2>2. Taken(i) # {}
    BY <2>1 DEF Whole, Of, Taken
  <2>3. Planned(i) => Units({p \in out : p.member = i}) = RowOf(plans[i]).size
    BY <2>1 DEF Whole, Of
  <2>4. Planned(i) /\ RowOf(plans[i]).cipher = "gcm" => \A p \in out : p.member = i => p.sound
    BY <1>1 DEF Inv, Authentic, Results, Ending
  <2> QED BY <2>2, <2>3, <2>4
<1> QED BY <1>2, <1>3, <1>4 DEF RekeyedWhole

LEMMA SaysNothingOver == Inv /\ RInv => NothingCarriedOver
<1> SUFFICES ASSUME Inv, RInv, verdict = "ok", ~Wholesome, NEW p \in out
             PROVE  \/ Planned(p.member) \/ MetaInf(p.member)
                    \/ Members[p.member].name = "mimetype"
  BY DEF NothingCarriedOver
<1> DEFINE i == p.member
<1>1. result = "ok" /\ call \in Calls /\ i \in DOMAIN Members
  BY DEF Inv, Answer, Given, Wrote
<1>2. ~InClear /\ ~Unlisted(i)
  BY <1>1 DEF RInv, Admitted, CarriedOver
<1>3. CASE Named(i)
  <2>1. PICK r \in DOMAIN Rows : Rows[r].path = Members[i].name
    BY <1>3 DEF Named
  <2>2. \A j \in DOMAIN Members : Members[j].name = Members[i].name => j = i
    BY <1>1, CallsAssumption DEF Members
  <2>3. Bearing(Rows[r].path) = {i}
    BY <1>1, <2>1, <2>2 DEF Bearing
  <2>4. MemberOf(r) = i
    BY <2>3 DEF MemberOf
  <2>5. Kept(r)
    BY <1>1 DEF Inv, EachRow, AllScreened, Screened
  <2>6. plans[i] # 0
    BY <2>4, <2>5 DEF Kept
  <2> QED BY <1>1, <2>6 DEF Planned, IsManifest, MetaInf
<1>4. CASE ~Named(i)
  BY <1>1, <1>2, <1>4 DEF Unlisted, InClear
<1> QED BY <1>3, <1>4

\* "The verify pass, under the old key, before anything is derived for the new
\* one or written": a new package of a wholesome one is begun only when the old
\* password opens it, and what the screens refuse is refused before any key is
\* derived or any byte written.
THEOREM FirstVerified == RekeySpec => []BegunWhenDue
BY RekeyInvariance, SaysDue, PTL

\* "The inner package is carried over byte for byte": with Ok the new payload is
\* every block of the old one once, in order and undamaged, though the input is
\* read twice and may change in between (Resealed: the second pass too ends at
\* the old tag); a rebuilt one has every member, of the size its row declares,
\* and no damaged block of an AES-GCM member.
THEOREM CarriedWhole == RekeySpec => []RekeyedWhole
BY RekeyInvariance, SaysWhole, PTL

\* The new tag covers nothing that was in the clear: of a per-entry package every
\* member in the output is one a row decrypts, the mimetype or in META-INF/
\* (Admitted: screen_per_entry saw each member; EachRow: each row has a plan).
THEOREM NothingAdded == RekeySpec => []NothingCarriedOver
BY RekeyInvariance, SaysNothingOver, PTL

\* reencrypt_to's error names the culprit as decrypt_to's does, whichever of the
\* two packages was at work.
THEOREM TrueRekeyBlame == RekeySpec => []BlameIsTrue
BY RekeyInvariance, SaysBlame, PTL
=============================================================================
