# odf-crypto: verification

odf-crypto is a Rust library and a command line tool that classify, decrypt, encrypt and re-encrypt
password-protected OpenDocument packages the way LibreOffice does. This directory holds TLA+ modules
that model it, TLC configurations that check them on small instances, and TLAPS proofs of what
matters most for every value of the constants.

1. [The system](#1-the-system)
2. [Modules and the code they model](#2-modules-and-the-code-they-model)
3. [Runs, bounds, fairness](#3-runs-bounds-fairness)
4. [Proofs](#4-proofs)
5. [Where documents and code disagree](#5-where-documents-and-code-disagree)
6. [What is not modelled](#6-what-is-not-modelled)
7. [Plan](#7-plan)

Paths below are relative to `src/`; `src/classify.rs` there is `src/src/classify.rs` in
`PROJECT.json`.

## 1. The system

A package is a zip. Its `META-INF/manifest.xml` has one row per member, and a row with complete
`encryption-data` says how that member is encrypted. LibreOffice writes two shapes: *per-entry* (each
member encrypted) and *wholesome* (one member, `encrypted-package`, holds a whole package). The
library is synchronous and single-threaded; the tool adds a Ctrl-C handler thread.

| component | source | state | operations | how it is used |
|---|---|---|---|---|
| classification | `classify.rs`, `zip_tree.rs`, `types.rs` | the zip directory, a folder tree with a cache of recently used folders, the rows accepted so far, the latch row | `collect_members`, `FolderTree::from_zip_names`, `resolve`, `stage_b` | first step of every call; its `Classification` drives the rest |
| manifest | `manifest.rs`, `uris.rs`, `ms1252.rs`, `strip_manifest` of `decrypt.rs` | a stack of elements, the row being built, keys, text, an ignore flag, a key size | `parse_manifest`, `strip_manifest` | classification parses, the rebuild strips, whoever opens the result parses it again |
| decryption | `decrypt_stream.rs`, `decrypt_entries.rs`, `decrypt.rs` | plans per member, superseded rows, output so far, what limits are left | screens, key ladder, verify pass, release pass, rebuild | reads the caller's reader twice per member, writes the caller's writer |
| block readers | `stream.rs` | cipher and inflater state, counts, tap | `gcm_verify`, `GcmDecryptReader`, `ChecksumGate`, `InflateReader` | stacked under decryption and re-encryption |
| adaptive deflater | `stream.rs` | the chunk held back, whether the compressor has input pending, `consumed` | `write`, `release`, `finish` | under encryption and per-entry re-encryption |
| streaming zip writer | `zip_stream.rs` | `pos`, `entries` | `stored`, `deflated`, `deflated_from`, `finish` | the rebuild, when the output cannot seek |
| encryption | `encrypt_stream.rs`, `encrypt.rs` | measured size, key, members written | screens, `derive_write_key`, `pump`, manifest | reader to writer through deflater and cipher |
| re-encryption | `reencrypt.rs` | old key, new key, the tee | `screen_per_entry`, `write_package`, `wholesome`, `per_entry` | composes decryption with encryption |
| key derivation | `kdf.rs`, `limits.rs` | none that lasts | start keys, PBKDF2, Argon2id on a pool of its own | by decryption and encryption |
| latch | `io_latch.rs` | the first error of the caller's reader | `Latched::read`, `take` | wins over any other result |
| command line | `bin/odf-crypto.rs` | `CANCELLED`, `TEMP_PATH`, a temporary file | open, write, commit, copy, forget, drop; the Ctrl-C handler | calls the library, owns the file system |
| errors, secrets | `bad_parameter.rs`, `zip_err.rs`, `troubleshooting.rs`, `sensitive.rs`, `lib.rs` | none | wording, wiping | everywhere |

What is hard about it, and what makes each part correct:

- **Command line.** Two threads touch one temporary file; a kill may come between any two file-system
  calls; two runs may share a target. *A target is at every moment a complete document; a run that
  reports an error leaves it alone; nothing of a refused run stays behind.*
- **Classification.** A row's meaning depends on the rows before it, through the cache of recent
  folders and the latch. *An accepted row stands for a stream the archive has; mode and latch are what
  decryption and re-encryption rely on.*
- **Manifest.** Flags, key size, text and keys of the parser outlive the elements they come from, and the
  stripping knows no rows. *A row LibreOffice writes is read as it stands, whatever came before it; no row
  takes anything from another; a half-read manifest has no rows; a stripped one none that is encrypted.*
- **Key derivation.** The costs are screened in two files, for the writer and for the reader. *A tuple
  the writer may ask for can be run and read back; one he may not, nobody could have run; a host that
  is short of memory or threads gets the blame.*
- **Decryption.** No member is held whole, so it is read once to be verified and once to be released,
  and the input can change in between; the reader, the writer and the host may fail at any step. *No
  plaintext leaves before the member's own check has held; with Ok an AES-GCM member is what was sealed;
  every row is checked, also the ones another row replaced; the verdict names the right culprit.*
- **Zip writer and deflater.** Headers are written before the data they describe; stored blocks are cut
  into a compressor's bit stream. *A reader of the bytes gets back what was written.*
- **Encryption, re-encryption.** A size is stated before it is known, a payload is sealed again while it
  is still being checked. *What is under the new tag is exactly what was measured, or was under the old.*

## 2. Modules and the code they model

`PROJECT.json` maps every definition to its lines. Operators marked "Slip" in a module hold a plausible
mistake; nothing else uses them: they are what a property is tried against.

**`CliOutput`** (with `OutputPromise`, `MCCliOutput`, `CliOutputProofs`): `cmd_crypt` from the check of
the target on. A run is a process with a program counter; its actions are the calls `TempOutput`,
`Cancellable` and `finish` make, each atomic, each with its failure. `tgt` and `tmp` are the directory,
`data` and `perm` the inodes. The target is looked at twice, by `exists()` in `Check` and by `metadata`
in `Chmod`, and the code takes a stat that fails for a target that is not there; `Stat` is what it may
see, and the history variables `asked` and `liked` keep what it saw. The handler (`FirstSignal`, `SecondSignal`, `HandlerExit`), a kill
(`Kill`) and other programs (`Intrude`) interleave with every step. A document is `Chunks` blocks,
each labelled by the run that wrote it, so a mixture of two writers shows. `OutputPromise` is what a
user sees of a run (target as it was or new, temporary there or not, verdict); `KeepsPromise` says
CliOutput implements it under the mapping `SeenTarget`, `SeenTemp`, `SeenVerdict`.

**`Classify`** (`MCClassify`, `ClassifyProofs`): `collect_members`, the folder tree, `stage_b`. A name is
its sequence of segments. `AddMember` builds the archive in any order, `BuildTree` the tree, then each
row is skipped, bad, a folder row or a stream row, resolved through `Resolve`/`WalkResolve` with the
cache `recent`; `Conclude` decides mode and the ODF 1.2 verdict. `Families` says which members and rows
are explored together, for TLC's sake. What the manifest parser makes of a row is an input.

**`ManifestImport`** (`MCManifestImport`, `ManifestProofs`): `parse_manifest` and `strip_manifest`, over documents that are
sequences of start, end and text events whose ends match (`WellFormed`: the reader of XML checks it,
and an end that does not is `Malformed`). Each level of `start_element` is an action (`OpenRoot`,
`OpenRow`, `OpenKey`, `OpenData`, `OpenAlgorithm`, `OpenStartKey`, `OpenDerivation`, `OpenText`, ...),
so is each end (`CloseRow`, `CloseKey`, `CloseText`, `CloseOther`, `CloseNothing`), an error
(`Malformed`), an end of file with elements open (`CutShort`) and without (`Returned`). `stack` and
`beyond` are `Import.stack` and `beyond_cap`, `Scopes` and `Convert` its namespaces. If a row of what was
read makes decryption rewrite the manifest, `KeepEvent`, `BeginSkip` and `SkipEvent` are
`strip_manifest`, and `Reopen` reads its result with the same parser. Every value carries the number of
the part of the document it was written in, which is how a borrowed value shows. What a row should
be is said by `SoundRow` over the document's element paths, without a parser.

**`Decrypt`** (`MCDecrypt`, `DecryptProofs`): `decrypt_to`, from the classification on. `stage` is where `run` is;
`ScreenClass` and `ScreenRow` are the screens, `Derive`, `VerifyBlock`, `Decide` the key ladder over
each row, `ReleaseBlock`, `DrainBlock`, `FinishMember` the second pass, `WriteManifest`, `StartMember`,
`CopyMember`, `FinishZip` the rebuild, `Return` the latch. A member is one or more blocks, each one
refill of the inflater, sound or damaged within or past the 1 KiB window a checksum covers.
`ReaderFails`, `WriterFails`, `HostFails`, `InputChanges` are the world. The rows, key candidates, sizes,
limits and damage are in the call record that `MCDecrypt` enumerates; `Row`, `Member` and
`CallsAssumption` say what such a record is.

**`ZipStream`** (`MCZipStream`, `ZipStreamProofs`): `ZipStreamWriter`. `Open` is `local_header`, `Copy`
a read of the source, `CloseStored`, `CloseDeflated`, `CloseCopied` the three ways a member ends,
`Finish`, `Central`, `Ending` the directory. Fields of w bytes are kept modulo their width. `Directory`,
`Field` and `Leads` are a reader written from APPNOTE that knows the bytes only. `Counted` is the
estimate `could_reach` of `reencrypt.rs`.

**`DeflateStream`** and **`Encrypt`** (`MCEncrypt`, `DeflateProofs`, `EncryptProofs`): the adaptive `DeflateWriter` (chunks gathered,
compressed or stored, flushes, dictionary) and `encrypt_to`/`encrypt_slice` around it. `Encrypt` extends
`DeflateStream` and drives it: `ReadInput` is a read of `pump` handed to `Accept`; `Placed` holds `pump`
back until the deflater has placed what it was given. The compressor itself is external.

**`KeyDerivation`**: the costs of Argon2id, with their widths. `NewRefusal` is `Argon2Params::new`,
`ScreenRefusal` the screen of `derive_argon2id`, `Runs` what argon2 requires; `ScreenCosts`,
`ReserveBlocks`, `SpawnLanes`, `HashLanes` are the steps of a derivation on a host with so much memory,
so many cores and so many threads to give (`Pool` is `on_lane_threads` with its fallback to one thread).
`Encrypt` extends it: `MakeCosts` is its first step, `Derive` and `NoKey` are `derive_write_key`.

**`Rekey`** (`MCRekey`, `RekeyProofs`): `reencrypt_to`. It extends `Decrypt` and uses its actions for the screens, the
verify pass and the rebuild; new are `Screen` and `Mimetype` (with `CarriedOver`, the refusals of
`screen_per_entry`), `BeginPackage` (`write_package`), `TeeBlock`, `TeeDrain`, `TeeEnd` (the tee) and
`Seal`. In a per-entry source the blocks of `out` are the inner package; in a wholesome one `sealed`
is what the new cipher has taken, in order. Classification's two flags are computed from which members are
listed, in the clear, or not at all.

How they fit: `Classify` is the contract `Decrypt`, `Encrypt` and `Rekey` take their input from
(`WholesomeHasPayload` is what `wholesome_row` expects, `RekeyCoversEveryStream` what `screen_per_entry`
relies on). `DeflateStream` and `ZipStream` are under `Encrypt` and the rebuild, `KeyDerivation` is under
`Encrypt`. `ManifestImport` makes the rows `Classify` takes (a row is complete, for a password or for
keys, by `CompletePassword` and `CompletePgp`) and rewrites the manifest `Decrypt` puts out in
`WriteManifest`. `CliOutput` is around all
of them and takes each as a loop of blocks that may fail.

## 3. Runs, bounds, fairness

| run | what is in it | what it shows |
|---|---|---|
| CliOne | one run of every output kind (file, scratch for stdout, direct), 2 blocks, every failure, one kill, both Ctrl-C's, another program creating the target | it ends (`Terminates`); nothing is left over (`NoLeftover`); stdout gets complete documents only (`ScratchOnlyWhenDone`); a Ctrl-C with input left stops it cleanly (`CancelStops`); it implements `OutputPromise` (`KeepsPromise`) |
| CliInTurn | two runs on one target, the second after the first ended or was killed; another program creating the target at any moment, also between check and rename; any stat of the target failing | the target is always whole (`TargetsWhole`); the temporary is no more readable than the target, unless `metadata` failed or the target came later (`NeverMoreReadable`); a run without `--force` replaces a target only if it could not see it or another program made it since (`ForceOnly`) |
| CliShared | two runs on one target at once | violation of `TargetsWhole`, see 5 |
| CliCancel | one run | violation of `CancelledMeansNotWritten`, see 5 |
| ClassifyAll | two families. Names: up to 4 of 7 members in any order, folders up to three deep with repeated and empty segments, up to 4 of 12 rows. Modes: up to 4 of content.xml, encrypted-package, mimetype and META-INF in every spelling that matters, an empty DOS directory entry, PGP rows, versions, up to 4 of 10 rows | rows resolve to marked streams (`EntriesAreStreams`), the cache is never more than one level off (`CacheStaysNear`), `LatchIsFirst`, `WholesomeHasPayload`, `RekeyCoversEveryStream` |
| ManifestAll | 783 manifests (below), each read whole, cut or malformed after any event, stripped and read again | the stack is the path of open elements (`StackIsPath`); an error leaves no row (`AllOrNothing`); `SoundRowsAreRead`, `NothingBorrowed`; a stripped manifest is a plaintext one with the same rows (`RewrittenIsPlain`) |
| DecryptAll | some hundred packages: a member damaged anywhere beside a sound one, keys on each rung, two rows for one member, wrong sizes, limits, plain members of each method, one refusal of each kind, wholesome ones | `SealedStaysSealed`, `AuthenticOrError`, `WithinLimit`, `ScreensFirst`, `EveryRowChecked`, `BlameIsTrue`, `Returns` |
| DecryptInternal, DecryptManifestRow | a wholesome AES-CBC row; a row for the manifest | violations, see 5 |
| ZipWriter | two members of each kind; expected and real sizes, 0 and one below, at and past each limit; failures anywhere | `ReadsBack`, `DescriptorsFit`, `DescribedAsItWas`, `WithinReach` |
| EncryptAll | inputs of 0 to 13 bytes with chunks of 4 and stored blocks of 3, chunks compressed or not in any order, short reads, an input that grows or shrinks, each refusal; costs on both sides of every limit, with limits of a reader that are wider, tighter and none; hosts short of memory, cores or threads | `Decodes`, `NoReachBack`, `SizeIsTrue`, `HeaderHasRoom`, `CostsAgree`, `BlameIsTrue`, `Returns` |
| RekeyAll | the packages of DecryptAll with a new password, members listed in the clear or not listed | `BegunWhenDue`, `RekeyedWhole`, `NothingCarriedOver`, `BlameIsTrue` |

No run has a type invariant of its own: where typing carries weight it is a part of the inductive
invariants of section 4, and elsewhere it follows from the actions.

**Bounds.** Two blocks are the least for which a document can be half written, damage can lie in the
window or past it, and an end marker can be followed by more. Two runs are enough to share a name; where
they take turns, two inodes are enough too, for at any time there is at most the target and one temporary,
and as they are interchangeable `CliInTurn` reduces by their symmetry. Documents made by others are
private there: to one that anybody may read, nothing is more readable. Two members are enough to share a
limit or to fail one after the other succeeded. One change of the input (`MaxChanges`) is all a property
here needs to be wrong: the passes over a member are two. In `EncryptAll` the input spans three chunks and
a chunk is, as in the code, one byte longer than a stored block, so a stored chunk is two blocks and a
compressed block can lie between stored ones. `ZipWriter` scales 2^32 - 1 to 255 and 2^16 - 1 to 2, so
that one more byte or one more member is past the limit; 180 and 181 are the sizes whose deflate bound is
one below and at it. `MaxRows` stands for `MAX_ENCRYPTED_ENTRIES`; four rows exceed it. `EncryptAll`
scales `i32::MAX` to 40 and `MAX_P_COST` to 3, with argon2's own 8 blocks to a lane, so that each limit is
the one that binds for some tuple. In `ManifestAll`, `MAX_DEPTH` is 7 for 16, one more than the deepest
element the parser knows; one part of a document (`Deep`) goes past it, with elements there that a parser
which lost count would take for rows. Documents are all those of one or two of 20 parts (rows of each
cipher and derivation, in the order LibreOffice writes and in others, incomplete, foreign, aliased; keys
of both spellings; stray elements), of three of the 7 parts that leave something behind (`Core`), and a
root of another name around each part: what a part leaves behind is seen by the next, and by the one after
it.

**Deadlock** is checked in every run but `ZipWriter`, where a finished or refused writer is used no more.

**Fairness.** In `CliOutput`, weak fairness of each run's main thread and of the handler's exit: the
operating system keeps scheduling a live thread. Signals, kills and other programs need never come.
In `Decrypt` and `Encrypt`, weak fairness of `Run`, the next step of the one thread that runs the call:
nothing in it waits. The world's failures have none. `Returns` and `Terminates` hold because each pass,
ladder and drain is finite and a failed read is not retried. `ZipStream`, `Classify`, `ManifestImport` and
`Rekey` are checked for safety only; `Rekey`'s loops are Decrypt's and the tee's.

## 4. Proofs

Every safety property of every module is proved for all values of the constants. Each proof has the same shape: none of the properties is inductive, an invariant that
says more of the steps before is; one lemma per action, and what many actions leave alone in one lemma.
Where a hypothesis is needed beyond the modules' assumptions, it is part of the theorem.

**`CliOutputProofs`**: for any number of runs, targets, files and blocks.

| theorem | property | holds of |
|---|---|---|
| `TargetsStayWhole` | `TargetsWhole` | runs that take turns on a target (`TakeTurns`) |
| `PrintedWhole` | `ScratchOnlyWhenDone` | the same |
| `KeptPrivate`, `AskedFirst` | `NeverMoreReadable`, `ForceOnly` | the same, with others creating targets at any moment and any stat failing |
| `TidiedUp`, `KeepsThePromise` | `NoLeftover`, `KeepsPromise` | runs with a target each (`Apiece`) |

The hypotheses are what the properties need. `CliShared` refutes `TargetsWhole` of runs that share a
target at once, and one of them could replace what the other has made since it looked. Two runs with one target have one temporary name, and
what the first leaves behind when it is killed is not the second's to account for. `TargetsWhole` is not
inductive, for a rename publishes whatever the temporary name stands for at that time. The invariant adds
that the name stands for the file this run has open or for none (`Holds`), that nothing else leads to that
file (`Named`, `Apart`), and how many blocks it holds at each stage (`Counted`). The other properties each
need one invariant more (`Printed`, `Guarded`, `Permitted`, `Tidy`, `Told`) and one lemma of what a step of
a run can reach at all (`Reach`). In the refinement a rename is `Publish`, a removed temporary `Discard`, an exit
`Report` or `Stop`, and most steps stutter; `Told` says what the target is by the time of the report.

**`ClassifyProofs`**: `AcceptedRowsAreStreams`, `TheLatchIsTheFirst`, `ScreenedPackagesAreCovered`,
`TheCacheStaysNear`, `WholesomeAlwaysHasPayload`, for any archive and manifest. The first rests on
`ResolveFindsStreams`: whatever the cache holds, what `Resolve` returns as a stream is one, since the last
lookup is in the tree. The second is inductive with the list of accepted rows typed; the third follows from
`Unexpected` and the rows that were not accepted. The last two need a second invariant, `Whereabouts`: the
archive's names are known (`Named`), each stream is borne by one of them and each folder's folder is in the
tree (`Borne`), and a cached folder is the one its key names or the one above (`Near`). `Near` survives a step because a walk from either of the
two folders ends where one from the root does (`DirWalks`, and the lemmas of how far a name leads).

**`DecryptProofs`**: `Sealed`, `AuthenticOutput`, `InsideLimit`, `ScreenedFirst`, `AllRowsChecked` and
`TrueBlame` are the six safety properties of `Decrypt`, for any packages, passwords, limits and damage,
with the input changing as often as it likes. `Inv` says which row is at work and why (`At`, `Fits`), what
a pass has made of the blocks behind it (`Reads`, `Blames`), why a key was given up (`Rejects`), that a
screened row has a plan, waits among the superseded ones or has been opened (`EachRow`), that the
rebuild has opened what it is past (`EachMember`), and that a damaged block of an AES-GCM member that
was written is still to be refused or has been (`Authentic`). `Tally` counts: no block is written twice
(`Fresh`), so what is written adds up to `produced` and what is in hand (`Sums`), and a member the rebuild
is past has the size its row declares (`Sizes`). Sums over sets are the cardinality of a set of units, which
is how they are proved without induction over data; the one induction there is goes by a least
counterexample (`Least`).

**`RekeyProofs`**: `FirstVerified`, `CarriedWhole`, `NothingAdded`, `TrueRekeyBlame`, the four properties
of `Rekey`. Its actions keep Decrypt's invariant, which is stated so that the stages of both fit. On top,
`Begun` says when there may be a new package, `Admitted` what the screens have let through, and `Resealed`
that the new payload is what the second pass has read, in order, and undamaged if the old tag is to hold.

**`ZipStreamProofs`**: for any limits, chunk size, sizes and number of members,

- `DescribedWithinPromise == Spec => [](DescriptorsFit /\ DescribedAsItWas)`, of which `DescribedTruly`
  is the second half. The two speak of finished members; the invariant has to say of the one
  being copied that its header was chosen from its size (`Promised`), that it has yielded no more than
  expected, and that `deflate_bound` grows with its argument (`BoundGrows`).
- `ReadsBackFromBytes == NamesFit => (Spec => []ReadsBack)`. `Layout` says which record lies at which
  offset, that nothing else is there, and where the directory starts: what the reader follows.
  `NamesFit` (a name's length fits the 16 bits it is written in) is needed, for the code truncates it.
- `CountedEnough`: `Spec => [](counted <= U32Limit => WithinReach)`, if `NamesFit` and `Ample(longest)`.
  `Ample` says what the code's allowances amount to: 1,024 bytes a member are enough for names of up to
  401 bytes, each written twice. Past 32 bits, what is counted already asks for ZIP64, whatever it
  leaves out. `Within` bounds, at every step, what is written and still to be written.

**`DeflateProofs`**: `DeflateDecodes == DeflateSpec => []Decodes` and `DeflateReach == DeflateSpec =>
[]NoReachBack`, for any chunk and stored block, however the two compare. The invariant (`Sound`) has four
parts. `Carries`: the blocks lead from byte 0 to `emitted`, each where the last one ended, none empty,
every stored one aligned and with a length that fits. `Forgets`: of stored blocks, the dictionary
remembers nothing from before their end. `Counts`: no byte is lost between `write` and the compressor.
`Fresh`: a compressor that is not compressing is as good as new, which is why a second stored chunk
needs no flush. The lemmas are about sequences of blocks (`CarriesOn`, `ForgetsStored`, `PutsOut`) and
about the arithmetic of cutting (`BlocksNeeded`, `StoredCarries`). `DeflateThrift`: what carries no input
is at most ten bytes for every whole stored block of the input, and 17. It assumes `BlockMax <= Chunk` (a
chunk is one byte more than a stored block in the code); with many smaller chunks it is false. The
invariant, `Thrifty`, charges the flush before a stored chunk to the compressed one that made it due (`Owed`).

**`EncryptProofs`**: for any costs' width, limits, calls, hosts and changes of the input,

- `PayloadDecodes` and `PayloadReach`: `Encrypt` implements `DeflateSpec` (`DeflaterDriven`), so what
  `DeflateProofs` shows holds of every payload;
- `HeaderAlwaysHasRoom`: `Spec => []HeaderHasRoom` if `BlockMax <= Chunk`, from `DeflateThrift` the same
  way: the length announced by `deflate_bound` before the first byte is never exceeded;
- `SizeAlwaysTrue`: `Spec => []SizeIsTrue`. The invariant relates four lengths (`Measured`, `Conserved`):
  what was measured, read, counted and put out;
- `BlameAlwaysTrue`: `Spec => []BlameIsTrue`. It needs that `block_count` never exceeds the memory cost
  (`BlocksWithinCost`);
- `ScreensAgree`: `Spec => []CostsAgree`, from three lemmas about the screens as functions
  (`RefusedNeverRuns`, `AcceptedOrPolicy`, `AcceptedRuns`), and `NoSecondRefusal`: the internal error
  `derive_write_key` would make of a refusal cannot happen.

**`ManifestProofs`**: for every document whose ends match and that leaves nothing open, and every
`MAX_DEPTH` past the deepest element known,

- `TheStackIsThePath == Spec => []StackIsPath` and `AllOrNothingAlways == Spec => []AllOrNothing`.
  `StackIsPath` is stated with the path of open elements, a function defined by recursion on the document;
  that there is one (`SomethingFollows`) and what one more event makes of it (`OpenSteps`) are proved
  first. The invariant says that the stack shadows the path up to the cap, with as many elements beyond it
  as the code counts (`Shadows`). The manifest that is read again was written by `strip_manifest`, and to
  know that its ends match takes an invariant of the rewriting (`Strips`): what is written has open what
  the source has open, but for the elements being skipped.
- `NothingIsBorrowed == Spec => []NothingBorrowed`. The property tells the rows from the document: a row
  is a file-entry under the root, up to the event that leaves it (`RowEnd`), and rows are counted
  (`Ordinal`). The lemmas on that side say that rows lie one after the other (`RowsInOrder`), which
  element is inside which, and that all of them are of the row's part (`PartOf`). On the parser's side,
  `OpenRow` and `CloseRow` are taken exactly where a row starts and ends (`RowTaken`, `RowClosed`). The
  invariant, `Unborrowed`: there are as many bags as rows have ended (`Counted`), each of its own row
  (`Settled`), and what is in the bag of the row that is open is that row's (`Building`).
- `SoundRowsAlwaysRead == Spec => []SoundRowsAreRead`. A row as LibreOffice writes it is told by where its
  elements lie. `AllHeard` says of such a row, after each of its events, what of it the bag already has,
  that nothing is ignored, and which key size is implied (`Heard`, one lemma for each handler); that the
  ignore flag is down where such a row starts is `CalmOn`, since only rows and empty elements lie between
  it and the row before.
- `RewrittenAlwaysPlain`: `Spec => []RewrittenIsPlain`, if `RootsKept`. Parsing what is left of a
  document is compared with parsing all of it, though the two disagree about positions, flags and most
  elements. So both are compared with a third thing: what each event tells of the rows' paths, media types
  and versions, given the elements around it (`Stage`), one event after the other (`Tally`). The parser does
  what the events tell (`ReadLike`); an event that is written tells what it told (`KeptTells`), one that is
  dropped tells nothing (`DroppedTellsNothing`). The invariant (`Traced`) carries this from the source to
  the second parse, where no row has a size, and so none is encrypted (`Unsized`). `RootsKept` says that no
  root is called `encryption-data`; see section 5.

The assumptions are those the modules state: a chunk and a block are positive, the widest memory cost
has room for the most lanes, the salt is one argon2 takes, a machine reports at least one core, calls are
records of their shape, and the limits of a zip's fields are positive. Of a manifest `DocumentAssumption`
says that its ends match and nothing is left open (a cut at any event is an action), that an element has
the fields the parser looks at, and that the part it is tagged with is that of the child of the root it
is in.

**Model-checked only**: liveness (`Terminates`, `CancelStops`, `Returns`), which is out of TLAPS's reach
here; `WithinReach` past the hypotheses of `CountedEnough`.

## 5. Where documents and code disagree

Shown by a run, and listed under `findings`:

- *Two runs on one target* (`CliShared`). The temporary's name is made of the target's name alone and
  it is opened with create and truncate, so one run can rename the other's unfinished file over the target.
- *A Ctrl-C after the last read* (`CliCancel`). The output is renamed into place and the exit code is 130.
- *A wholesome row with AES-CBC or Blowfish* (`DecryptInternal`) reaches `DecryptError::Internal`, by the
  length of its IV. That `len - 28` may underflow on the way there (`decrypt_stream.rs:441`) is not modelled.
- *An encrypted row for the manifest itself* (`DecryptManifestRow`) is screened, never opened, and `Ok`
  still says `Verified`.

Met while modelling; the models do what the code does, and no run is kept for them:

- `--force` is decided when the target is looked at; a file created before the rename is replaced
  without it, and so is a target whose stat fails, as one behind a link does whose own target is missing
  or out of reach (`bin/odf-crypto.rs:681`, README 391). `ForceOnly` spells these two cases out.
- `metadata(target).ok()` swallows a stat that fails, and the run goes on with a new file's permissions
  (`bin/odf-crypto.rs:574`); neither can they be those of a target created later. In both cases the
  temporary may be more readable than the file it replaces, which the comment at line 538 excludes.
  `NeverMoreReadable` spells them out.
- A second Ctrl-C between the creation of the temporary and its registration leaves an empty file
  (`bin/odf-crypto.rs:571`, README 400). `NoLeftover` allows just that.
- A chunk buffer the zip writer cannot allocate is reported as a damaged zip (`zip_stream.rs:217`,
  `decrypt.rs:107`).
- AES-CBC padding damaged past the first 1 KiB is reported as `WrongPassword` (`stream.rs:581`,
  `decrypt.rs:78`). `BlameIsTrue` of `Decrypt` spells this case out.
- `classify` passes over empty DOS directory entries when it looks a member up and `member_for_archive`
  does not (`classify.rs:171`, `decrypt.rs:593`): with two spellings of one name they can find different
  members.
- `per_entry` of `decrypt_entries.rs:68` refuses "before anything is derived or written"; under
  `reencrypt_to` the new key has been derived and the new package begun by then (`reencrypt.rs:384`).
  Nothing of the source has been written, and the caller discards the output of an error.
- `Argon2Params::new` allows "the same range `decrypt` accepts off a manifest, so anything `encrypt`
  writes can be read back" (`encrypt.rs:258`). The range is the fields' width; `decrypt` with the default
  limits accepts t up to 10, 1 GiB and 16 lanes. `CostsAgree` says what does hold: a reader that refuses
  such a package does so by its own limits.
- `strip_manifest` drops any element named `encryption-data`, whatever its alias and level, and any
  attribute that ends in `:size` (`decrypt.rs:882`, `925`). `RewrittenIsPlain` shows that nothing which
  describes encryption is kept, not that nothing else is lost.
- For the same reason it drops a whole manifest whose root is called `encryption-data`, while
  `parse_manifest` has read rows from it: a root of another name is invalid, but "LO's `case 2:` has no
  parent-validity check" (`manifest.rs:133`). The plaintext package's manifest then has no row at all. Given
  such a root, TLC finds `RewrittenIsPlain` violated; `RewrittenAlwaysPlain` assumes `RootsKept`, and the
  manifests of `ManifestAll` are checked to be among those (`RootsKeptHere`).
- The ignore flag set by an element outside any row reaches the next row, and the key size of one row a
  later one whose `key-derivation` no `encryption-data` precedes (`manifest.rs:244`, `352`). Both are
  LibreOffice's behaviour, and no row it writes meets them (`SoundRow`, `sized` in `NothingBorrowed`).
- Characters are collected for a `CipherValue` whose parent is invalid, and kept for the next text.
- An input that changes its length during `encrypt_to` is reported as `EncryptError::Internal`
  (`encrypt_stream.rs:178`); the result is still an error and never a package with a wrong size
  (`SizeIsTrue`).
- `could_reach` allows 1,024 bytes a member for headers that hold its name twice (`reencrypt.rs:378`);
  names can be longer. `WithinReach` is checked of names that fit, under `Headroom`.

## 6. What is not modelled

- Cipher, digest and KDF bodies, DEFLATE itself: a check is right exactly when the bytes it covers are
  sound and the key is the row's.
- The reader of XML under the manifest's parser, Base64, numbers and text encodings (`ms1252.rs`); the
  XML `build_manifest` writes. A cost is positive, zero or absent in `ManifestImport`, a number in
  `KeyDerivation`.
- Changes of the input between the classification and the second opening of the archive.
- How argon2 fills its lanes (one thread computes what many do), PBKDF2's iterations. A derivation of
  `decrypt` is one step in `Decrypt`; its steps are `KeyDerivation`'s.
- A name longer than 65,535 bytes, which `local_header` cuts (`zip_stream.rs:187`).
- `SeekableZipSink`, whose framing is the `zip` crate's, and the whole-buffer rebuild that uses it.
- `DeflateWriter::new`, which has no chunks to choose between, and `entropy_bits`: whether a chunk is
  stored is a choice.
- Argument parsing, reading a password, printing; error texts (`zip_err.rs`, `bad_parameter.rs`,
  `troubleshooting.rs`); wiping memory (`sensitive.rs`).

## 7. Plan

Done, in this order: `CliOutput`, `Classify`, `Decrypt`, `ZipStream`, `DeflateStream` with `Encrypt`,
`Rekey`, `ManifestImport`, `KeyDerivation`; then the proofs of section 4, component by component. Next:

1. An abstract specification of `decrypt_to` (sealed, then released whole or refused) that `Decrypt` and
   `Rekey` implement, as `OutputPromise` is for `CliOutput`.
2. `KeyDerivation` under `Decrypt`, with PBKDF2's limits and the start keys of the ladder.
3. `ManifestImport` composed with `Classify` in place of its input rows.
4. `SeekableZipSink` and the whole-buffer rebuild.
