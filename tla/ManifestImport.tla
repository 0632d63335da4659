---------------------------- MODULE ManifestImport ----------------------------
(***************************************************************************)
(* META-INF/manifest.xml, read and written again (src/manifest.rs and      *)
(* strip_manifest of src/decrypt.rs).  parse_manifest turns the parser's   *)
(* events into rows (property bags) with a stack of open elements, the row *)
(* being built, and flags that outlive elements: one "ignore" for whatever *)
(* could not be understood, a key size, a PGP key, a buffer of text.       *)
(* decrypt_to then strips the manifest of what described the encryption,   *)
(* event by event and with no idea of rows; whoever opens the plaintext    *)
(* package parses the result.                                              *)
(*                                                                         *)
(* A name is a pair of alias and local name.  An element's attributes are  *)
(* a function from local names to small values, under one alias (but for   *)
(* "loext:costs"), and every element and text says which part of the       *)
(* document it is of: 0, or the child of the root.  A value keeps that     *)
(* tag, so that one which ends up in another row shows.  XML, Base64 and   *)
(* numbers are left out.                                                   *)
(***************************************************************************)
EXTENDS Naturals, FiniteSets, Sequences, SequencesExt

CONSTANTS
  Documents,      \* the manifests explored: sequences of events
  MaxDepth,       \* MAX_DEPTH
  None            \* an absent value

ASSUME DepthAssumption == MaxDepth \in Nat /\ MaxDepth > 6

VARIABLES
  source,         \* the manifest being read
  outline,        \* the elements open after each of its events, by name
  phase,          \* "source", "rewriting", "rebuilt" or "done"
  pos,            \* the next event
  fate,           \* how reading the source ended: "whole", "cut", "malformed"
  stack,          \* Import.stack
  beyond,         \* beyond_cap
  bags,           \* the rows finished
  bag,            \* the row being built
  ignore,         \* ignore_encrypt_data
  pgp,            \* pgp_encryption
  derivedKeySize, \* derived_key_size
  version,        \* package_version
  keys,           \* the PGP keys finished
  current,        \* current_key
  characters,     \* current_characters
  before,         \* the rows of the source
  rewritten,      \* what strip_manifest has written
  skipDepth       \* its skip_depth

document == <<source, outline>>
elements == <<stack, beyond>>
rowState == <<bag, ignore, derivedKeySize>>
keyState == <<pgp, keys, current, characters>>
import   == <<elements, bags, rowState, keyState, version>>
vars == <<source, outline, phase, pos, fate, stack, beyond, bags, bag, ignore, pgp,
          derivedKeySize, version, keys, current, characters, before, rewritten,
          skipDepth>>

-----------------------------------------------------------------------------
\* Names as ManifestImport spells them; "loext:" is matched as it is written.
M(local)  == <<"manifest", local>>
Lo(local) == <<"loext", local>>

FileEntry == M("file-entry")

\* What start_element knows at each level; anything else is invalid there.
Known == <<
  {M("manifest")},
  {FileEntry, M("encrypted-key"), Lo("keyinfo")},
  {M("encryption-data"), Lo("encrypted-key"), M("encryption-method"), M("keyinfo"),
   M("CipherData")},
  {M("algorithm"), M("key-derivation"), M("start-key-generation"),
   Lo("encryption-method"), Lo("KeyInfo"), Lo("CipherData"), M("PGPData"), M("CipherValue")},
  {Lo("PGPData"), Lo("CipherValue"), M("PGPKeyID"), M("PGPKeyPacket")},
  {Lo("PGPKeyID"), Lo("PGPKeyPacket")} >>

KnownAt(level) == IF level \in DOMAIN Known THEN Known[level] ELSE {}

\* The elements whose text is taken, at the level where it is.
TextSlots == {<<4, M("CipherValue")>>, <<5, Lo("CipherValue")>>, <<5, M("PGPKeyID")>>,
              <<5, M("PGPKeyPacket")>>, <<6, Lo("PGPKeyID")>>, <<6, Lo("PGPKeyPacket")>>}
SlotOf(slot) ==
  CASE slot[2][2] = "PGPKeyID"     -> "id"
    [] slot[2][2] = "PGPKeyPacket" -> "packet"
    [] slot[2][2] = "CipherValue"  -> "value"

\* convert_name: an alias that some open element declares as ODF's manifest
\* namespace reads "manifest:"; a declaration of anything else hides nothing.
Declares(ns, alias) == alias \in DOMAIN ns /\ ns[alias] = "odf"
Convert(name, scopes) ==
  IF \E ns \in scopes : Declares(ns, name[1]) THEN M(name[2]) ELSE name

Scopes(frames) == {frames[i].ns : i \in DOMAIN frames}

NewBag == [path |-> None, media |-> None, version |-> None, size |-> None,
           digestAlg |-> None, digest |-> None, encAlg |-> None, startKey |-> None,
           kdf |-> None, args |-> None, keySize |-> None, keys |-> <<>>]
EmptyKey == [id |-> <<>>, packet |-> <<>>, value |-> <<>>]
Value(v, e) == [val |-> v, of |-> e.of]
Unset       == [val |-> "0", of |-> 0]

Ciphers      == {"gcm", "cbc", "blowfish"}
StartKeys    == {"sha1", "sha256"}
PasswordKdfs == {"pbkdf2", "argon2id"}

\* password_entry and pgp_entry: is the row's encryption data complete?  An
\* initialisation vector comes with a cipher and a salt with a password KDF.
Complete(b) ==
  /\ b.encAlg # None /\ b.size # None
  /\ b.encAlg.val = "gcm" \/ b.digest # None
  /\ b.kdf # None
CompletePassword(b) ==
  Complete(b) /\ b.kdf.val \in PasswordKdfs /\ (b.kdf.val = "argon2id" => b.args # None)
CompletePgp(b) == Complete(b) /\ b.kdf.val = "pgp"

-----------------------------------------------------------------------------
(* The document itself, with no parser: which elements are open after each   *)
(* event, and their names.                                                   *)
OpenAfter(events) ==
  LET path[i \in 0..Len(events)] ==
        IF i = 0 THEN <<>>
        ELSE CASE events[i].kind = "start" -> Append(path[i - 1], events[i])
               [] events[i].kind = "end"   -> Front(path[i - 1])
               [] OTHER                    -> path[i - 1]
  IN path[Len(events)]
Names(path) == [j \in DOMAIN path |-> Convert(path[j].name, {path[i].ns : i \in 1..j})]

\* The reader checks that an end is that of the innermost open element: any other
\* is an error (Malformed).
WellFormed(events) ==
  \A i \in DOMAIN events :
    LET open == OpenAfter(SubSeq(events, 1, i - 1)) IN
    events[i].kind = "end" => open # <<>> /\ Last(open).name = events[i].name

\* What a manifest is: its ends match, nothing is left open (CutShort is for those),
\* an element is of the part that the child of the root it is in is of, a cost is
\* positive or zero, and no value is taken for an absent one.
ElementShape(e) ==
  /\ {"kind", "name", "via", "ns", "attrs", "of"} \subseteq DOMAIN e
  /\ "costs" \in DOMAIN e.attrs => e.attrs["costs"] \in {"positive", "zero"}
  /\ \A v \in Range(e.attrs) \cup {"digest", "positive"} : Value(v, e) # None

ASSUME DocumentAssumption ==
  \A d \in Documents :
    /\ d \in Seq(Range(d)) /\ WellFormed(d) /\ OpenAfter(d) = <<>>
    /\ \A e \in Range(d) : e.kind = "start" => ElementShape(e)
    /\ \A i \in DOMAIN d : d[i].kind = "start" =>
         LET open == OpenAfter(SubSeq(d, 1, i))
         IN  d[i].of = IF Len(open) = 1 THEN 0 ELSE open[2].of

-----------------------------------------------------------------------------
\* An empty element is a start and an end here: the parser's reader makes them so,
\* and strip_manifest does with its one event what it does with the two.
Input == IF phase = "source" THEN source ELSE rewritten

Init ==
  /\ source \in Documents
  /\ outline = [i \in DOMAIN source |-> Names(OpenAfter(SubSeq(source, 1, i)))]
  /\ phase = "source" /\ pos = 1 /\ fate = "none"
  /\ stack = <<>> /\ beyond = 0
  /\ bags = <<>> /\ bag = NewBag /\ ignore = FALSE /\ derivedKeySize = Unset
  /\ pgp = FALSE /\ keys = <<>> /\ current = None /\ characters = <<>>
  /\ version = None
  /\ before = <<>> /\ rewritten = <<>> /\ skipDepth = 0

-----------------------------------------------------------------------------
\* parse_manifest hands one event to the import.
Reads(kind) ==
  /\ phase \in {"source", "rebuilt"}
  /\ pos \in DOMAIN Input /\ Input[pos].kind = kind
  /\ pos' = pos + 1
  /\ UNCHANGED <<document, phase, fate, before, rewritten, skipDepth>>
Event == Input[pos]

\* start_element past MAX_DEPTH, or under such an element.
TooDeep == beyond > 0 \/ Len(stack) >= MaxDepth
OpenTooDeep ==
  /\ Reads("start") /\ TooDeep
  /\ beyond' = beyond + 1
  /\ UNCHANGED <<stack, bags, rowState, keyState, version>>

Level        == Len(stack) + 1
ElementName  == Convert(Event.name, Scopes(stack) \cup {Event.ns})
ParentValid  == Level >= 3 => Last(stack).valid
Slot         == <<Level, ElementName>>

\* push_name_and_namespaces, and the frame's validity once it is known.
Opens ==
  /\ Reads("start") /\ ~TooDeep
  /\ stack' = Append(stack, [name  |-> ElementName, ns |-> Event.ns,
                             valid |-> ParentValid /\ ElementName \in KnownAt(Level)])
  /\ UNCHANGED beyond
Valid == ParentValid /\ ElementName \in KnownAt(Level)

\* An attribute is there if its name converts to the one asked for.
Has(prefix, a) ==
  /\ a \in DOMAIN Event.attrs
  /\ Convert(<<Event.via, a>>, Scopes(stack) \cup {Event.ns}) = <<prefix, a>>
Attr(a) == IF Has("manifest", a) THEN Event.attrs[a] ELSE ""

OpenRoot ==
  /\ Opens /\ Level = 1
  /\ version' = IF Attr("version") = "" THEN version ELSE Value(Attr("version"), Event)
  /\ UNCHANGED <<bags, rowState, keyState>>

\* do_file_entry
OpenRow ==
  LET given(a) == IF Attr(a) = "" THEN None ELSE Value(Attr(a), Event) IN
  /\ Opens /\ Slot = <<2, FileEntry>>
  /\ bag' = [NewBag EXCEPT !.path = Value(Attr("path"), Event),
                             !.media = Value(Attr("media"), Event),
                             !.version = given("version"), !.size = given("size")]
  /\ UNCHANGED <<bags, ignore, derivedKeySize, keyState, version>>

\* do_encrypted_key
OpenKey ==
  /\ Opens /\ Valid /\ Slot \in {<<2, M("encrypted-key")>>, <<3, Lo("encrypted-key")>>}
  /\ current' = EmptyKey
  /\ UNCHANGED <<bags, rowState, pgp, keys, characters, version>>

\* do_encryption_method
OpenMethod ==
  LET prefix == IF Level = 3 THEN "manifest" ELSE "loext"
      wraps  == Has(prefix, "PGPAlgorithm") /\ Event.attrs["PGPAlgorithm"] = "rsa-oaep"
  IN
  /\ Opens /\ Valid
  /\ Slot \in {<<3, M("encryption-method")>>, <<4, Lo("encryption-method")>>}
  /\ ignore' = (ignore \/ current = None \/ ~wraps)
  /\ UNCHANGED <<bags, bag, derivedKeySize, keyState, version>>

\* Slip: the key size of an earlier row stays.
OpenDataKeepingSize ==
  /\ Opens /\ Valid /\ Slot = <<3, M("encryption-data")>>
  /\ bag' = IF ignore THEN bag
            ELSE IF Attr("checksum-type") = "1k"
            THEN [bag EXCEPT !.digestAlg = Value("1k", Event), !.digest = Value("digest", Event)]
            ELSE bag
  /\ UNCHANGED <<bags, ignore, derivedKeySize, keyState, version>>

\* do_encryption_data
OpenData ==
  LET known == Attr("checksum-type") = "1k"
      alg   == IF known THEN Value("1k", Event) ELSE bag.digestAlg
  IN
  /\ Opens /\ Valid /\ Slot = <<3, M("encryption-data")>>
  /\ derivedKeySize' = Unset
  /\ bag' = IF ignore THEN bag
            ELSE [bag EXCEPT !.digestAlg = alg,
                             !.digest = IF alg = None THEN @ ELSE Value("digest", Event)]
  /\ UNCHANGED <<bags, ignore, keyState, version>>

\* do_algorithm: an AES name implies its key size (32 here), Blowfish's none.
OpenAlgorithm ==
  LET cipher == Attr("algorithm-name") IN
  /\ Opens /\ Valid /\ Slot = <<4, M("algorithm")>>
  /\ IF ignore THEN UNCHANGED rowState
     ELSE IF cipher \in Ciphers
     THEN /\ bag' = [bag EXCEPT !.encAlg = Value(cipher, Event)]
          /\ derivedKeySize' = IF cipher = "blowfish" THEN derivedKeySize ELSE Value("32", Event)
          /\ UNCHANGED ignore
     ELSE ignore' = TRUE /\ UNCHANGED <<bag, derivedKeySize>>
  /\ UNCHANGED <<bags, keyState, version>>

\* do_start_key_alg, which looks at no flag.
OpenStartKey ==
  LET digest == Attr("start-key-generation-name") IN
  /\ Opens /\ Valid /\ Slot = <<4, M("start-key-generation")>>
  /\ IF digest \in StartKeys
     THEN bag' = [bag EXCEPT !.startKey = Value(digest, Event)] /\ UNCHANGED ignore
     ELSE ignore' = TRUE /\ UNCHANGED bag
  /\ UNCHANGED <<bags, derivedKeySize, keyState, version>>

\* argon2_attr: the costs under ODF's name, or else under LibreOffice's.
Costs == IF Has("manifest", "costs") THEN Event.attrs["costs"]
         ELSE IF "loext:costs" \in DOMAIN Event.attrs THEN Event.attrs["loext:costs"] ELSE ""

\* do_key_derivation: Argon2id costs must be positive; the key size is the
\* attribute's, or one already implied, or 16.
OpenDerivation ==
  LET name == Attr("key-derivation-name")
      good == name = "argon2id" => Costs = "positive"
      size == IF Attr("key-size") # "" THEN Value(Attr("key-size"), Event)
              ELSE IF derivedKeySize.val = "0" THEN Value("16", Event) ELSE derivedKeySize
  IN
  /\ Opens /\ Valid /\ Slot = <<4, M("key-derivation")>>
  /\ IF ignore THEN UNCHANGED rowState
     ELSE IF name \in PasswordKdfs
     THEN /\ derivedKeySize' = size
          /\ bag' = [bag EXCEPT !.kdf = Value(name, Event), !.keySize = size,
                                !.args = IF name = "argon2id" /\ good
                                         THEN Value("positive", Event) ELSE @]
          /\ ignore' = ~good
     ELSE /\ UNCHANGED derivedKeySize
          /\ IF pgp /\ name = "PGP"
             THEN bag' = [bag EXCEPT !.kdf = Value("pgp", Event)] /\ UNCHANGED ignore
             ELSE ignore' = TRUE /\ UNCHANGED bag
  /\ UNCHANGED <<bags, keyState, version>>

OpenText ==
  /\ Opens /\ Valid /\ Slot \in TextSlots
  /\ characters' = <<>>
  /\ UNCHANGED <<bags, rowState, pgp, keys, current, version>>

\* Elements that only hold others, and all those that are not known or whose
\* parent is not valid.
Handled == {<<2, M("encrypted-key")>>, <<3, Lo("encrypted-key")>>, <<3, M("encryption-method")>>,
            <<4, Lo("encryption-method")>>, <<3, M("encryption-data")>>, <<4, M("algorithm")>>,
            <<4, M("start-key-generation")>>, <<4, M("key-derivation")>>} \cup TextSlots
OpenOther ==
  /\ Opens /\ Level > 1 /\ Slot # <<2, FileEntry>>
  /\ ~(Valid /\ Slot \in Handled)
  /\ UNCHANGED <<bags, rowState, keyState, version>>

-----------------------------------------------------------------------------
\* end_element
Top == Last(stack)

\* Slip: the name is converted without the element's own declarations.
EndNameOutside == Convert(Event.name, Scopes(Front(stack)))

EndName == Convert(Event.name, Scopes(stack))
Matches == stack # <<>> /\ Top.name = EndName

Closes ==
  /\ Reads("end") /\ beyond = 0 /\ Matches
  /\ stack' = Front(stack)
  /\ UNCHANGED <<beyond, version>>

\* The end of an element past MAX_DEPTH is counted; one of another name than the
\* innermost element's changes nothing.
CloseNothing ==
  /\ Reads("end") /\ (beyond > 0 \/ ~Matches)
  /\ beyond' = IF beyond > 0 THEN beyond - 1 ELSE beyond
  /\ UNCHANGED <<stack, bags, rowState, keyState, version>>

\* Slip: what could not be understood stays ignored.
CloseRowIgnoring ==
  LET first == bags = <<>>
      named == IF first /\ bag.version = None THEN [bag EXCEPT !.version = version] ELSE bag
      keyed == IF first /\ ~ignore THEN [named EXCEPT !.keys = keys] ELSE named
  IN
  /\ Closes /\ Top.name = FileEntry /\ Top.valid
  /\ bags' = Append(bags, keyed)
  /\ bag' = NewBag
  /\ UNCHANGED <<ignore, derivedKeySize, keyState>>

\* The end of a row: the first one takes the package's version, and the keys.
CloseRow ==
  LET first == bags = <<>>
      named == IF first /\ bag.version = None THEN [bag EXCEPT !.version = version] ELSE bag
      keyed == IF first /\ ~ignore THEN [named EXCEPT !.keys = keys] ELSE named
  IN
  /\ Closes /\ Top.name = FileEntry /\ Top.valid
  /\ bags' = Append(bags, keyed)
  /\ bag' = NewBag /\ ignore' = FALSE
  /\ UNCHANGED <<derivedKeySize, keyState>>

\* The end of a PGP key; a nested one has left the outer one's slot empty.
CloseKey ==
  /\ Closes /\ Top.name \in {M("encrypted-key"), Lo("encrypted-key")} /\ Top.valid
  /\ IF ignore THEN UNCHANGED <<keys, pgp>>
     ELSE /\ keys' = Append(keys, IF current = None THEN EmptyKey ELSE current)
          /\ pgp' = TRUE
  /\ current' = None
  /\ UNCHANGED <<bags, rowState, characters>>

\* do_encrypted_cipher_value, do_encrypted_key_id, do_encrypted_key_packet: of
\* any element of that name at that level, a valid one or not.
CloseText ==
  LET slot == <<Len(stack), Top.name>> IN
  /\ Closes /\ slot \in TextSlots
  /\ IF current = None THEN ignore' = TRUE /\ UNCHANGED current
     ELSE current' = [current EXCEPT ![SlotOf(slot)] = characters] /\ UNCHANGED ignore
  /\ UNCHANGED <<bags, bag, derivedKeySize, pgp, keys, characters>>

CloseOther ==
  /\ Closes
  /\ ~(Top.valid /\ Top.name \in {FileEntry, M("encrypted-key"), Lo("encrypted-key")})
  /\ <<Len(stack), Top.name>> \notin TextSlots
  /\ UNCHANGED <<bags, rowState, keyState>>

Characters ==
  /\ Reads("text")
  /\ characters' = Append(characters, Event.of)
  /\ UNCHANGED <<elements, bags, rowState, pgp, keys, current, version>>

-----------------------------------------------------------------------------
\* The first event of a source that the reader, or the decoding of an attribute
\* or of text, refuses: every row is discarded.
Malformed ==
  /\ phase = "source" /\ pos \in DOMAIN Input
  /\ fate' = "malformed" /\ phase' = "done"
  /\ bags' = <<>>
  /\ UNCHANGED <<document, pos, elements, rowState, keyState, version, before,
                 rewritten, skipDepth>>

\* Slip: what has been read by the end of the file is returned.
EndsAsItIs == bags

\* The rows parse_manifest returns at the end of the file.
Returned == IF stack = <<>> THEN bags ELSE <<>>

\* A source may end anywhere.
CutShort ==
  /\ phase = "source" /\ pos \in DOMAIN Input
  /\ fate' = "cut" /\ phase' = "done"
  /\ bags' = Returned /\ before' = Returned
  /\ UNCHANGED <<document, pos, elements, rowState, keyState, version, rewritten, skipDepth>>

\* What decrypt_to rewrites: some row opens with a password and none with PGP.
IsRewritten(rows) ==
  /\ \E i \in DOMAIN rows : CompletePassword(rows[i])
  /\ ~\E i \in DOMAIN rows : CompletePgp(rows[i]) /\ rows[1].keys # <<>>

EndOfSource ==
  /\ phase = "source" /\ pos = Len(Input) + 1
  /\ fate' = "whole"
  /\ bags' = Returned /\ before' = Returned
  /\ phase' = IF IsRewritten(Returned) THEN "rewriting" ELSE "done"
  /\ pos' = 1
  /\ UNCHANGED <<document, elements, rowState, keyState, version, rewritten, skipDepth>>

EndOfRebuilt ==
  /\ phase = "rebuilt" /\ pos = Len(Input) + 1
  /\ phase' = "done" /\ bags' = Returned
  /\ UNCHANGED <<document, pos, fate, elements, rowState, keyState, version, before,
                 rewritten, skipDepth>>

-----------------------------------------------------------------------------
\* strip_manifest: an element called encryption-data goes, with all it holds,
\* whatever its alias and level, and so does the size of a file-entry.
Rewrites ==
  /\ phase = "rewriting" /\ pos \in DOMAIN source
  /\ pos' = pos + 1
  /\ UNCHANGED <<document, phase, fate, import, before>>
Original == source[pos]

\* Slip: only the spelling LibreOffice writes is taken out.
WithoutManifestSize(e) ==
  IF e.kind = "start" /\ e.name[2] = "file-entry" /\ e.via = "manifest"
  THEN [e EXCEPT !.attrs = [a \in DOMAIN @ \ {"size"} |-> @[a]]] ELSE e

\* without_size
WithoutSize(e) ==
  IF e.kind = "start" /\ e.name[2] = "file-entry"
  THEN [e EXCEPT !.attrs = [a \in DOMAIN @ \ {"size"} |-> @[a]]] ELSE e

IsEncryptionData(e) == e.kind = "start" /\ e.name[2] = "encryption-data"

KeepEvent ==
  /\ Rewrites /\ skipDepth = 0 /\ ~IsEncryptionData(Original)
  /\ rewritten' = Append(rewritten, WithoutSize(Original))
  /\ UNCHANGED skipDepth

BeginSkip ==
  /\ Rewrites /\ skipDepth = 0 /\ IsEncryptionData(Original)
  /\ skipDepth' = 1
  /\ UNCHANGED rewritten

SkipEvent ==
  /\ Rewrites /\ skipDepth > 0
  /\ skipDepth' = CASE Original.kind = "start" -> skipDepth + 1
                    [] Original.kind = "end"   -> skipDepth - 1
                    [] OTHER                   -> skipDepth
  /\ UNCHANGED rewritten

\* The rebuilt package is opened: its manifest is parsed from nothing.
Reopen ==
  /\ phase = "rewriting" /\ pos = Len(source) + 1
  /\ phase' = "rebuilt" /\ pos' = 1
  /\ stack' = <<>> /\ beyond' = 0
  /\ bags' = <<>> /\ bag' = NewBag /\ ignore' = FALSE /\ derivedKeySize' = Unset
  /\ pgp' = FALSE /\ keys' = <<>> /\ current' = None /\ characters' = <<>>
  /\ version' = None
  /\ UNCHANGED <<document, fate, before, rewritten, skipDepth>>

Done == phase = "done" /\ UNCHANGED vars

StartElement == OpenTooDeep \/ OpenRoot \/ OpenRow \/ OpenKey \/ OpenMethod \/ OpenData
                \/ OpenAlgorithm \/ OpenStartKey \/ OpenDerivation \/ OpenText \/ OpenOther
EndElement   == CloseNothing \/ CloseRow \/ CloseKey \/ CloseText \/ CloseOther
Strip        == KeepEvent \/ BeginSkip \/ SkipEvent \/ Reopen

Next == StartElement \/ EndElement \/ Characters \/ Malformed \/ CutShort
        \/ EndOfSource \/ Strip \/ EndOfRebuilt \/ Done

Spec == Init /\ [][Next]_vars

-----------------------------------------------------------------------------
(* The rows of the document, told from its outline.                         *)
PathAt(i) == outline[i]
Starts(from, to) == {i \in from..to : source[i].kind = "start"}
RowStarts == {i \in Starts(1, Len(source)) : Len(PathAt(i)) = 2 /\ PathAt(i)[2] = FileEntry}
RowEnd(i) == CHOOSE k \in i..Len(source) : /\ Len(PathAt(k)) < 2
                                           /\ \A j \in i..(k - 1) : Len(PathAt(j)) >= 2
Ordinal(i) == Cardinality({j \in RowStarts : j <= i})

\* The elements of the row at i that lie where LibreOffice writes them.
At(i, names) == {e \in Starts(i, RowEnd(i)) : Tail(PathAt(e)) = names}
DataOf(i)    == At(i, <<FileEntry, M("encryption-data")>>)
Within(i, x) == At(i, <<FileEntry, M("encryption-data"), M(x)>>)
Said(e, a)   == IF a \in DOMAIN source[e].attrs THEN source[e].attrs[a] ELSE ""
Only(S)      == CHOOSE e \in S : TRUE

\* A row as LibreOffice writes it, every word of it known, with nothing but
\* rows and empty elements since the row before it.
SoundRow(i) ==
  LET data == DataOf(i)
      alg  == Within(i, "algorithm")
      sk   == Within(i, "start-key-generation")
      kd   == Within(i, "key-derivation")
      all  == data \cup alg \cup sk \cup kd
  IN
  /\ Starts(i + 1, RowEnd(i)) = all
  /\ Cardinality(data) = 1 /\ Cardinality(alg) = 1 /\ Cardinality(kd) = 1 /\ Cardinality(sk) <= 1
  /\ \A a \in alg, k \in kd : a < k
  /\ \A e \in all \cup {i} : source[e].via = "manifest"
  /\ Said(i, "size") # ""
  /\ \A e \in alg  : Said(e, "algorithm-name") \in Ciphers
  /\ \A e \in data : \/ Said(e, "checksum-type") = "1k"
                     \/ Said(Only(alg), "algorithm-name") = "gcm"
  /\ \A e \in sk   : Said(e, "start-key-generation-name") \in StartKeys
  /\ \A e \in kd   : \/ Said(e, "key-derivation-name") = "pbkdf2"
                     \/ /\ Said(e, "key-derivation-name") = "argon2id"
                        /\ "positive" \in {Said(e, "costs"), Said(e, "loext:costs")}
                        /\ Said(e, "costs") # "zero"
  /\ \A e \in Starts(1, i - 1) :
       Len(PathAt(e)) <= 2 \/ \E r \in RowStarts : r < e /\ e < RowEnd(r)

SizeMeant(i) ==
  LET stated == Said(Only(Within(i, "key-derivation")), "key-size") IN
  IF stated # "" THEN stated
  ELSE IF Said(Only(Within(i, "algorithm")), "algorithm-name") = "blowfish" THEN "16" ELSE "32"

-----------------------------------------------------------------------------
\* end_element stays balanced past MAX_DEPTH and whatever namespaces are
\* declared on the way: the stack is the path of open elements, cut at the cap,
\* each with the name it has in the document, valid if all from level 2 on are
\* where they belong.
StackIsPath ==
  phase \in {"source", "rebuilt"} =>
    LET open  == OpenAfter(SubSeq(Input, 1, pos - 1))
        names == Names(open)
        depth == IF Len(open) > MaxDepth THEN MaxDepth ELSE Len(open)
    IN /\ Len(stack) = depth /\ beyond = Len(open) - depth
       /\ \A j \in 1..depth :
            /\ stack[j].name = names[j]
            /\ j > 1 => (stack[j].valid <=> \A k \in 2..j : names[k] \in KnownAt(k))

\* "malformed XML yields zero rows": an error anywhere, or an end of file with
\* an element open, discards the rows that were finished before it.
AllOrNothing ==
  /\ fate = "malformed" => before = <<>> /\ bags = <<>>
  /\ fate = "cut" /\ OpenAfter(SubSeq(source, 1, pos - 1)) # <<>> => before = <<>> /\ bags = <<>>

\* A row LibreOffice writes is read as it stands, whatever the rows before it
\* left in the ignore flag, the key size, the text and the keys.
SoundRowsAreRead ==
  phase = "done" /\ fate = "whole" =>
    \A i \in RowStarts : SoundRow(i) =>
      LET row == before[Ordinal(i)]
          own(e, a) == Value(Said(e, a), source[e])
          alg == Only(Within(i, "algorithm"))
          kd  == Only(Within(i, "key-derivation"))
      IN /\ CompletePassword(row)
         /\ row.path = own(i, "path") /\ row.size = own(i, "size")
         /\ row.encAlg = own(alg, "algorithm-name") /\ row.kdf = own(kd, "key-derivation-name")
         /\ row.keySize.val = SizeMeant(i)
         /\ \A e \in Within(i, "start-key-generation") :
              row.startKey = own(e, "start-key-generation-name")

\* Nothing of a finished row comes from another part of the manifest, save the
\* version the first takes from the root, its PGP keys, and the key size of a
\* row whose key derivation no encryption-data precedes: derived_key_size is
\* "Reset per `encryption-data`".
NothingBorrowed ==
  phase = "done" /\ fate = "whole" =>
    \A i \in RowStarts :
      LET row == before[Ordinal(i)]
          own == source[i].of
          sized == \A k \in Starts(i, RowEnd(i)) : PathAt(k)[Len(PathAt(k))] = M("key-derivation")
                     => \E e \in DataOf(i) : e < k
      IN /\ \A f \in {"path", "media", "size", "digestAlg", "digest", "encAlg", "startKey",
                       "kdf", "args"} : row[f] # None => row[f].of = own
         /\ row.version # None => row.version.of \in {own, IF Ordinal(i) = 1 THEN 0 ELSE own}
         /\ row.keySize # None /\ sized => row.keySize.of = own

\* No root is called encryption-data: strip_manifest asks for no level, and would
\* drop such a root and all the rows in it.
RootsKept ==
  \A d \in Documents : \A i \in DOMAIN d :
    d[i].kind = "start" /\ OpenAfter(SubSeq(d, 1, i - 1)) = <<>> => ~IsEncryptionData(d[i])

\* What strip_manifest leaves is a plaintext package's manifest: the same rows
\* in the same order, none of which is encrypted, also one whose encryption was
\* described outside an encryption-data element.
RewrittenIsPlain ==
  phase = "done" /\ fate = "whole" /\ IsRewritten(before) =>
    /\ Len(bags) = Len(before)
    /\ \A i \in DOMAIN bags :
         /\ \A f \in {"path", "media", "version"} : bags[i][f] = before[i][f]
         /\ ~CompletePassword(bags[i]) /\ ~CompletePgp(bags[i])
=============================================================================
