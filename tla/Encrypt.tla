------------------------------- MODULE Encrypt -------------------------------
(***************************************************************************)
(* encrypt_to (src/encrypt_stream.rs, with the screens and the key of      *)
(* encrypt.rs): a plaintext package is measured, then read again and sent  *)
(* through the deflater and the cipher into the new package, whose manifest*)
(* states the size that was measured.  The manifest is made before the     *)
(* payload and written after it.  The caller has made the costs of the key *)
(* first (Argon2Params::new): that is the first step here.                 *)
(*                                                                         *)
(* The cipher keeps lengths, so the payload is its IV, what the deflater   *)
(* puts out, and the tag.  zip's own writer is external.                   *)
(***************************************************************************)
EXTENDS DeflateStream, KeyDerivation

CONSTANTS
  Asked,          \* the calls explored: password, package, ceiling, costs, host
  ReadLimits,     \* limits a reader may open the package with
  MaxChanges      \* bound: times the input changes its length during a call

\* WHOLESOME.salt_len
WholesomeSalt == 16

ASSUME AskedAssumption ==
  /\ \A a \in Asked :
       /\ a.costs \in Costs /\ a.length \in Nat
       /\ a.host \in [memory : Nat, cores : Nat \ {0}, threads : Nat]
  /\ \A l \in ReadLimits : l \in [t : Nat, m : Nat, p : Nat]
  /\ WholesomeSalt \in SaltLengths

VARIABLES
  asked,          \* what encrypt was given
  stage,          \* where run is
  fileLength,     \* how long the input is now
  readAt,         \* how far pump has read it
  size,           \* how long it was when it was measured
  package,        \* members begun in the caller's writer
  result,         \* what run returned
  verdict,        \* what the call returned
  changes,        \* times the input changed its length
  latch,          \* the caller's reader has failed
  failed          \* "writer", "host" or "random", once one of them has failed

progress == <<fileLength, readAt, size, package>>
outside  == <<changes, latch, failed>>
vars == <<asked, stage, progress, result, verdict, outside, deflater, derivation>>

IvAndTag == 12 + 16

\* Slip: DEFLATE is taken never to expand.
BoundOfNothing(n) == n

\* deflate_bound, of zip_stream.rs.
DeflateBound(n) == n + (n \div BlockMax + 1) * 10 + 64

\* worst: decides whether the payload's header has room for 64-bit sizes.
Worst == IvAndTag + DeflateBound(size)

PayloadLength == IvAndTag + emitted + overhead

\* The refusals of encrypt, in order: the password, screen_input, the mimetype.
Refusal ==
  IF ~asked.password THEN "EmptyPassword"
  ELSE IF ~asked.zip THEN "Classify"
  ELSE IF asked.mode # "plain"
       THEN (IF asked.latched THEN "AlreadyEncrypted" ELSE "PartiallyEncrypted")
  ELSE IF asked.fatal THEN "Odf12Fatal"
  ELSE IF ~asked.mimetype THEN "Mimetype"
  ELSE "none"

Init ==
  /\ asked \in Asked
  /\ stage = "costs" /\ fileLength = asked.length
  /\ readAt = 0 /\ size = 0 /\ package = <<>>
  /\ result = "none" /\ verdict = "none"
  /\ changes = 0 /\ latch = FALSE /\ failed = "none"
  /\ DeflateInit /\ DerivationInit

Ends(r) == stage' = "returning" /\ result' = r
Goes(s) == stage' = s /\ UNCHANGED result
Keep    == UNCHANGED <<asked, verdict, outside>>

\* Argon2Params::new, before there is a call.
MakeCosts ==
  /\ stage = "costs"
  /\ IF NewRefusal(asked.costs) # "none" THEN Ends("Params") ELSE Goes("screen")
  /\ Keep /\ UNCHANGED <<progress, deflater, derivation>>

Screen ==
  /\ stage = "screen"
  /\ IF Refusal # "none" THEN Ends(Refusal) ELSE Goes("measure")
  /\ Keep /\ UNCHANGED <<progress, deflater, derivation>>

\* The seek to the end; encrypt has a ceiling, encrypt_to none.
Measure ==
  /\ stage = "measure"
  /\ size' = fileLength
  /\ IF fileLength > asked.ceiling THEN Ends("Deflate") ELSE Goes("derive")
  /\ Keep /\ UNCHANGED <<fileLength, readAt, package, deflater, derivation>>

\* derive_write_key, whose own limits are only the widths of the fields.
Derive ==
  /\ stage = "derive"
  /\ Derives(asked.costs, WholesomeSalt, Permissive, asked.host)
  /\ Keep /\ UNCHANGED <<stage, result, progress, deflater>>

\* derive_write_key's map_err: costs that are refused here were let pass above.
WriteError(e) ==
  IF e \in {"HostCannotAllocate", "HostCannotSpawn"} THEN "HostCannotAllocate" ELSE "Internal"

NoKey ==
  /\ stage = "derive" /\ kdf \in KdfErrors
  /\ Ends(WriteError(kdf))
  /\ Keep /\ UNCHANGED <<progress, deflater, derivation>>

\* The manifest, the mimetype member and the IV.
Begin ==
  /\ stage = "derive" /\ kdf = "ok"
  /\ package' = <<"mimetype", "encrypted-package">>
  /\ Goes("pump")
  /\ Keep /\ UNCHANGED <<fileLength, readAt, size, deflater, derivation>>

\* What pump waits for before it reads again: the deflater has placed it all.
Placed == rest = 0 /\ ~Due

\* One read of pump, which may be short of a chunk.
ReadInput ==
  /\ stage = "pump" /\ Placed
  /\ \E n \in 1..Chunk :
       /\ readAt + n <= fileLength
       /\ Accept(n) /\ readAt' = readAt + n
  /\ Keep /\ UNCHANGED <<stage, result, fileLength, size, package, derivation>>

\* Slip: the count is not compared.
EndOfInputUncounted ==
  /\ stage = "pump" /\ Placed /\ readAt >= fileLength
  /\ Goes("finish") /\ FinishDeflate
  /\ Keep /\ UNCHANGED <<progress, derivation>>

\* Slip: a read of nothing is taken for a reason to read again.
EndOfInputAgain ==
  /\ stage = "pump" /\ Placed /\ readAt >= fileLength
  /\ UNCHANGED vars

\* A read of nothing: the input must have been as long as it was measured.
EndOfInput ==
  /\ stage = "pump" /\ Placed /\ readAt >= fileLength
  /\ IF consumed # size THEN Ends("Internal") /\ UNCHANGED deflater
     ELSE Goes("finish") /\ FinishDeflate
  /\ Keep /\ UNCHANGED <<progress, derivation>>

Deflate ==
  /\ stage \in {"pump", "finish"} /\ Deflating
  /\ Keep /\ UNCHANGED <<stage, result, progress, derivation>>

\* The tag, the manifest, the directory.
Seal ==
  /\ stage = "finish" /\ phase = "ended"
  /\ package' = Append(package, "META-INF/manifest.xml")
  /\ Ends("ok")
  /\ Keep /\ UNCHANGED <<fileLength, readAt, size, deflater, derivation>>

\* Slip: what run returned stands, the latch notwithstanding.
ReturnResult ==
  /\ stage = "returning"
  /\ stage' = "returned" /\ verdict' = result
  /\ UNCHANGED <<asked, result, progress, outside, deflater, derivation>>

\* encrypt_with_params_to: the latch wins over whatever run returned.
Return ==
  /\ stage = "returning"
  /\ stage' = "returned"
  /\ verdict' = IF latch THEN "Io" ELSE result
  /\ UNCHANGED <<asked, result, progress, outside, deflater, derivation>>

Run == \/ MakeCosts \/ Screen \/ Measure \/ Derive \/ NoKey \/ Begin \/ ReadInput \/ EndOfInput \/ Deflate
       \/ Seal \/ Return

-----------------------------------------------------------------------------
\* The caller's reader fails a read.  While the package is classified the zip
\* layer makes a refusal of it, or carries on.
ReaderFails ==
  /\ asked.password /\ ~latch
  /\ latch' = TRUE
  /\ \/ stage = "screen" /\ (Ends("Classify") \/ UNCHANGED <<stage, result>>)
     \/ stage \in {"measure", "pump"} /\ Ends("Io")
  /\ UNCHANGED <<asked, verdict, changes, failed, progress, deflater, derivation>>

\* The caller's writer fails wherever something is written.
WriterFails ==
  /\ stage \in {"derive", "pump", "finish"} /\ kdf = "ok" /\ failed = "none"
  /\ failed' = "writer" /\ Ends("Io")
  /\ UNCHANGED <<asked, verdict, changes, latch, progress, deflater, derivation>>

\* random_bytes: no salt or IV is to be had.
RandomFails ==
  /\ stage = "derive" /\ kdf = "screen" /\ failed = "none"
  /\ failed' = "random" /\ Ends("Random")
  /\ UNCHANGED <<asked, verdict, changes, latch, progress, deflater, derivation>>

\* A chunk buffer cannot be had.
HostFails ==
  /\ stage = "pump" /\ consumed = 0 /\ failed = "none"
  /\ failed' = "host" /\ Ends("HostCannotAllocate")
  /\ UNCHANGED <<asked, verdict, changes, latch, progress, deflater, derivation>>

\* Something else makes the input longer or shorter.
InputChanges ==
  /\ stage \notin {"returning", "returned"} /\ changes < MaxChanges
  /\ fileLength' \in {fileLength - 1, fileLength + 1} \cap (0..MaxInput)
  /\ changes' = changes + 1
  /\ UNCHANGED <<asked, stage, result, verdict, readAt, size, package, latch,
                 failed, deflater, derivation>>

Returned == stage = "returned" /\ UNCHANGED vars

Next == Run \/ ReaderFails \/ WriterFails \/ RandomFails \/ HostFails \/ InputChanges \/ Returned

\* One thread: it runs until it returns.
Spec == Init /\ [][Next]_vars /\ WF_vars(Run)

-----------------------------------------------------------------------------
\* With Ok the manifest's size is how much the payload inflates to, though it
\* was measured before the input was read (run's count against consumed).
SizeIsTrue == result = "ok" => size = emitted /\ Len(package) = 3

\* A payload that is finished is never longer than the bound its zip header was
\* chosen by (run's `worst`, zip_stream.rs deflate_bound).
HeaderHasRoom == phase = "ended" => PayloadLength <= Worst

\* Io is the caller's reader or writer, and any reader failure is Io; the host is
\* blamed for the host, and the internal error for an input that changed.
BlameIsTrue ==
  /\ verdict = "Io" => latch \/ failed = "writer"
  /\ latch /\ stage = "returned" => verdict = "Io"
  /\ verdict = "Random" => failed = "random"
  /\ verdict = "HostCannotAllocate" =>
       \/ failed = "host" \/ asked.host.threads = 0
       \/ asked.host.memory < asked.costs.m
  /\ verdict = "Internal" => changes > 0

\* Argon2Params::new refuses "when the tuple cannot be run, never when it is merely
\* weak", and what it lets pass can be read back: no reader's limits would have
\* run a tuple it refuses, the widest run what encrypt has written, and a reader
\* that does not refuses by its own limits, never because argon2 could not.
CostsAgree ==
  LET refusal(l) == ScreenRefusal(asked.costs, WholesomeSalt, l) IN
  /\ verdict = "Params" => \A l \in ReadLimits : refusal(l) # "none"
  /\ verdict = "ok" =>
       /\ refusal(Permissive) = "none"
       /\ \A l \in ReadLimits :
            refusal(l) \in {"none", "OutOfRangeT", "OutOfRangeM", "OutOfRangeP"}

\* Every loop ends: encrypt_to returns.
Returns == <>(stage = "returned")
=============================================================================
