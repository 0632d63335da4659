------------------------------- MODULE Classify -------------------------------
(***************************************************************************)
(* classify: what the crate says of a package before any key is derived    *)
(* (src/classify.rs, src/zip_tree.rs).  The zip directory is collected and *)
(* refused if two members clash, a folder tree is built from the names,    *)
(* and the manifest's rows are resolved against the tree one by one        *)
(* (stage_b), through LibreOffice's cache of recently used folders: a row  *)
(* may change what a later row resolves to.                                *)
(*                                                                         *)
(* A name is the sequence of its segments, split at every slash, so a      *)
(* trailing slash is a last segment Empty and the empty name is <<Empty>>. *)
(* What stage A parsed is the record of a row: whether its properties are  *)
(* complete for a password or a PGP recipient, its key info, media type    *)
(* and version.  Slips are operators with a plausible mistake, each before *)
(* the operator it would stand for, of which some property fails.          *)
(***************************************************************************)
EXTENDS Naturals, Sequences, SequencesExt

CONSTANTS
  Empty,          \* the segment between two slashes
  Dots,           \* the segments "." and "..", never valid in a name
  Lower,          \* segment -> its ASCII lower case
  Families,       \* bound: records of members and rows that may be in one package
  Mimetypes,      \* contents of a root mimetype stream
  Vendor,         \* those that begin with application/vnd.
  None,           \* an absent version or media type, a package without mimetype
  Modern,         \* versions that compare >= "1.2"
  Content,        \* content.xml
  Package,        \* encrypted-package
  Mimetype,       \* mimetype
  MetaInf,        \* META-INF
  Manifest,       \* manifest.xml
  Signatures,     \* the segments that contain "signatures"
  MaxMembers,     \* bound: entries of an archive
  MaxRows         \* bound: rows of a manifest

Members == UNION {f.members : f \in Families}  \* directory entries of archives
Rows    == UNION {f.rows : f \in Families}     \* rows of manifests

ASSUME ClassifyAssumption ==
  /\ \A m \in Members : m.name \in Seq(DOMAIN Lower) \ {<<>>}
  /\ \A r \in Rows : r.path \in Seq(DOMAIN Lower) \ {<<>>}
  /\ Empty \notin {Content, Package, Mimetype, MetaInf, Manifest}
  /\ Content # Package
  /\ None \notin {"plain", "per-entry", "wholesome"}

VARIABLES
  verdict,        \* "collecting", "rows", "classified" or a DetectError
  archive,        \* the central directory, in order
  folders,        \* FolderTree: paths of folders, <<>> is the root
  streams,        \* FolderTree: paths of streams
  recent,         \* FolderTree.recent: directory part of a name -> folder
  fromManifest,   \* the streams a row has marked
  mimetype,       \* what the mimetype member said, or None
  root,           \* media type and version of the root folder
  packageMedia,   \* media type of the root entry encrypted-package
  rowsRead,       \* rows handled so far
  firstVersion,   \* o_first_version
  keyInfo,        \* key_info: some row so far carried PGP recipients
  entries,        \* encrypted_entries, in manifest order
  common,         \* the latch row, <<>> until package_encrypted
  plainEntries,   \* has_non_encrypted_entries
  mode,           \* "plain", "per-entry" or "wholesome"; None until decided
  fatal           \* odf12_fatal

tree  == <<folders, streams>>
marks == <<fromManifest, root, packageMedia>>
found == <<entries, common, plainEntries>>
vars  == <<verdict, archive, folders, streams, recent, fromManifest, mimetype,
           root, packageMedia, rowsRead, firstVersion, keyInfo, entries,
           common, plainEntries, mode, fatal>>

-----------------------------------------------------------------------------
Prefix(n, k) == SubSeq(n, 1, k)

\* How many segments a walk consumes: it stops before an empty segment and
\* leaves the last one, which no slash follows.
Walked(n) ==
  CHOOSE k \in 0..(Len(n) - 1) :
    /\ \A j \in 1..k : n[j] # Empty
    /\ k = Len(n) - 1 \/ n[k + 1] = Empty

IsFolderName(n) == Last(n) = Empty
HasSlash(n)     == Len(n) > 1
DirName(n)      == Front(n)

\* OStorageHelper::IsValidZipEntryFileName; other forbidden characters are
\* left out with the names that hold them.
ValidName(n) ==
  /\ \A j \in 1..Len(n) : n[j] \notin Dots
  /\ HasSlash(n) => n[1] # Empty

LowerName(n) == [j \in 1..Len(n) |-> Lower[n[j]]]

\* Segments without the empty ones between two others: collapse_slashes.
CollapseSlashes(n) ==
  LET slash(there) == IF there THEN <<Empty>> ELSE <<>> IN
  slash(HasSlash(n) /\ n[1] = Empty) \o SelectSeq(n, LAMBDA x : x # Empty)
    \o slash(Last(n) = Empty)

MatchesPath(n, want) == n = want \/ CollapseSlashes(n) = want

ManifestPath == <<MetaInf, Manifest>>

\* collect_members passes over empty entries with the DOS directory attribute.
Collected == {i \in 1..Len(archive) : ~archive[i].dosDir}

\* The member whose bytes classify reads for a path: the first collected match.
ReadFor(path) == {i \in Collected : /\ MatchesPath(archive[i].name, path)
                                    /\ \A j \in Collected : j < i => ~MatchesPath(archive[j].name, path)}

\* member_for_archive, the decryptor's rule, over every entry of the archive.
MemberFor(path) == {i \in 1..Len(archive) :
                      /\ MatchesPath(archive[i].name, path)
                      /\ \A j \in 1..(i - 1) : ~MatchesPath(archive[j].name, path)}

-----------------------------------------------------------------------------
Init ==
  /\ verdict = "collecting"
  /\ archive = <<>>
  /\ folders = {} /\ streams = {}
  /\ recent = <<>>
  /\ fromManifest = {}
  /\ mimetype = None
  /\ root = [media |-> None, version |-> None]
  /\ packageMedia = None
  /\ rowsRead = 0
  /\ firstVersion = None
  /\ keyInfo = FALSE
  /\ entries = <<>>
  /\ common = <<>>
  /\ plainEntries = FALSE
  /\ mode = None
  /\ fatal = FALSE

\* One directory entry; names are compared as written and in lower case.
AddMember(m) ==
  /\ verdict = "collecting" /\ Len(archive) < MaxMembers
  /\ archive' = Append(archive, m)
  /\ verdict' = IF ~m.dosDir
                   /\ \/ ~ValidName(m.name)
                      \/ \E i \in Collected : LowerName(archive[i].name) = LowerName(m.name)
                THEN "Zip" ELSE verdict
  /\ UNCHANGED <<tree, recent, marks, mimetype, rowsRead, firstVersion, keyInfo,
                 found, mode, fatal>>

\* insert_path: the folders on the way to a name, and the stream it ends in.
FoldersOf(n)  == {Prefix(n, k) : k \in 0..Walked(n)}
StreamsOf(n)  == IF IsFolderName(n) THEN {} ELSE {Append(Prefix(n, Walked(n)), Last(n))}

\* from_zip_names: the tree of all collected names, each directory part seeded
\* into the cache with the folder its walk reaches; then the manifest and the
\* mimetype are read.
BuildTree ==
  LET names == {archive[i].name : i \in Collected}
      fs    == {<<>>} \cup UNION {FoldersOf(n) : n \in names}
      ss    == UNION {StreamsOf(n) : n \in names}
      seeds == {n \in names : HasSlash(n) /\ DirName(n) # <<Empty>>}
  IN
  /\ verdict = "collecting"
  /\ IF fs \cap ss # {} THEN verdict' = "Zip" /\ UNCHANGED <<tree, recent, mimetype>>
     ELSE /\ folders' = fs /\ streams' = ss
          /\ recent' = [d \in {DirName(n) : n \in seeds} |->
                          Prefix(d, Walked(Append(d, Empty)))]
          /\ verdict' = IF ReadFor(ManifestPath) = {} THEN "MissingManifest" ELSE "rows"
          /\ IF <<Mimetype>> \in ss
             THEN \E m \in Mimetypes : mimetype' = m
             ELSE mimetype' = IF <<Mimetype>> \in fs THEN "" ELSE None
  /\ UNCHANGED <<archive, marks, rowsRead, firstVersion, keyInfo, found, mode, fatal>>

-----------------------------------------------------------------------------
\* FolderTree::resolve returns the node it found, or says that a stream stands
\* where a folder should, and may change the cache.  A resolution is a record;
\* "cache" is the cache after it.
Found(kind, path, cache) == [kind |-> kind, path |-> path, cache |-> cache]

KindAt(path) == IF path \in folders THEN "folder"
                ELSE IF path \in streams THEN "stream" ELSE "nothing"

Without(cache, key)       == [d \in DOMAIN cache \ {key} |-> cache[d]]
With(cache, key, folder)  == [d \in DOMAIN cache \cup {key} |->
                                IF d = key THEN folder ELSE cache[d]]

\* Slip: the last node is cached as if it were the folder it lies in.
WalkResolveToNode(n, cache) ==
  IF KindAt(n) = "nothing" THEN Found("nothing", <<>>, cache)
  ELSE Found(KindAt(n), n, With(cache, DirName(n), n))

\* walk_resolve.  A folder row leaves pPrevious, one level too shallow, behind.
WalkResolve(n, cache) ==
  LET w    == Walked(n)
      here == Prefix(n, w)
      kind == KindAt(n)
  IN
  IF \E j \in 1..w : Prefix(n, j) \in streams THEN Found("error", <<>>, cache)
  ELSE IF here \notin folders THEN Found("nothing", <<>>, cache)
  ELSE IF IsFolderName(n)
  THEN Found("folder", here, IF w = 0 THEN cache
                             ELSE With(cache, DirName(n), Prefix(n, w - 1)))
  ELSE IF w < Len(n) - 1 \/ kind = "nothing" THEN Found("nothing", <<>>, cache)
  ELSE Found(kind, n, With(cache, DirName(n), here))

\* The name getName() gives a cached folder.
NameOf(folder) == IF folder = <<>> THEN Empty ELSE Last(folder)

\* Slip: a cached folder is taken to have the child.
ResolveTrusting(n) ==
  IF DirName(n) \notin DOMAIN recent THEN WalkResolve(n, recent)
  ELSE Found("stream", Append(recent[DirName(n)], Last(n)), recent)

Resolve(n) ==
  IF n = <<Empty, Empty>> THEN Found("folder", <<>>, recent)
  ELSE IF ~HasSlash(n) THEN Found(KindAt(n), n, recent)
  ELSE IF DirName(n) \notin DOMAIN recent THEN WalkResolve(n, recent)
  ELSE LET cached == recent[DirName(n)]
           child  == Append(cached, Last(n))
           miss   == WalkResolve(n, Without(recent, DirName(n)))
       IN IF IsFolderName(n)
          THEN IF Last(DirName(n)) = NameOf(cached)
               THEN Found("folder", cached, recent) ELSE miss
          ELSE IF KindAt(child) # "nothing"
               THEN Found(KindAt(child), child, recent) ELSE miss

\* accept_row: complete for a password, or for PGP once key info was seen.
AcceptRow(row, pgpSeen) ==
  row.crypt = "password" \/ (row.crypt = "pgp" /\ pgpSeen)

\* stage_b reads the first version and the key info before it looks at the path.
ReadRow(row) ==
  /\ verdict = "rows" /\ rowsRead < MaxRows
  /\ rowsRead' = rowsRead + 1
  /\ firstVersion' = IF firstVersion = None THEN row.version ELSE firstVersion
  /\ keyInfo' = (keyInfo \/ row.keys)
  /\ UNCHANGED <<archive, tree, mimetype, mode, fatal>>

\* An empty path or a path that names nothing.
SkipRow(row) ==
  /\ ReadRow(row)
  /\ IF row.path = <<Empty>> THEN UNCHANGED recent
     ELSE /\ Resolve(row.path).kind = "nothing"
          /\ recent' = Resolve(row.path).cache
  /\ UNCHANGED <<verdict, marks, found>>

BadRow(row) ==
  /\ ReadRow(row)
  /\ row.path # <<Empty>> /\ Resolve(row.path).kind = "error"
  /\ verdict' = "Inconsistent"
  /\ recent' = Resolve(row.path).cache
  /\ UNCHANGED <<marks, found>>

\* set_folder_meta; only the root's metadata and that of a root folder named
\* encrypted-package are ever read again.
FolderRow(row) ==
  LET r == Resolve(row.path) IN
  /\ ReadRow(row)
  /\ row.path # <<Empty>> /\ r.kind = "folder"
  /\ recent' = r.cache
  /\ root' = IF r.path = <<>> THEN [media |-> row.media, version |-> row.version] ELSE root
  /\ packageMedia' = IF r.path = <<Package>> THEN row.media ELSE packageMedia
  /\ UNCHANGED <<verdict, fromManifest, found>>

ShortName(path) == Last(path)

\* Slip: the last such row latches.
LatchingAgain(path) == ShortName(path) \in {Content, Package}

\* package_encrypted latches once, on the first of these rows.
Latching(path) == common = <<>> /\ ShortName(path) \in {Content, Package}

StreamRow(row) ==
  LET r     == Resolve(row.path)
      entry == [path |-> r.path, crypt |-> row.crypt]
  IN
  /\ ReadRow(row)
  /\ row.path # <<Empty>> /\ r.kind = "stream"
  /\ recent' = r.cache
  /\ fromManifest' = fromManifest \cup {r.path}
  /\ packageMedia' = IF r.path = <<Package>> THEN row.media ELSE packageMedia
  /\ IF AcceptRow(row, keyInfo')
     THEN /\ entries' = Append(entries, entry)
          /\ common' = IF Latching(r.path) THEN <<entry>> ELSE common
          /\ UNCHANGED plainEntries
     ELSE plainEntries' = TRUE /\ UNCHANGED <<entries, common>>
  /\ UNCHANGED <<verdict, root>>

-----------------------------------------------------------------------------
HasPackageEntry == <<Package>> \in folders \cup streams

\* LookForUnexpectedODF12Streams over the whole tree.
UnexpectedFolder(f) ==
  \/ Len(f) > 1 /\ Front(f) = <<MetaInf>>
  \/ HasPackageEntry /\ f # <<>> /\ Last(f) # MetaInf
\* Slip: a stream no row names is nothing unexpected.
UnexpectedStreamLoosely(s) ==
  IF Front(s) = <<MetaInf>> THEN Last(s) # Manifest /\ Last(s) \notin Signatures
  ELSE HasPackageEntry /\ Last(s) \notin {Mimetype, Package}

UnexpectedStream(s) ==
  IF Front(s) = <<MetaInf>> THEN Last(s) # Manifest /\ Last(s) \notin Signatures
  ELSE \/ HasPackageEntry /\ Last(s) \notin {Mimetype, Package}
       \/ s \notin fromManifest /\ s # <<Mimetype>>
Unexpected ==
  (\E f \in folders : UnexpectedFolder(f)) \/ (\E s \in streams : UnexpectedStream(s))

EncryptedPaths == {entries[i].path : i \in 1..Len(entries)}

\* check_stored_data_descriptors.
BadDescriptor(m) ==
  m.descriptor /\ {m.name, CollapseSlashes(m.name)} \cap EncryptedPaths = {}

\* Slip: the entry's presence decides, encrypted or not.
ModeByPresence == IF HasPackageEntry THEN "wholesome"
                  ELSE IF entries # <<>> THEN "per-entry" ELSE "plain"

Mode == IF HasPackageEntry /\ <<Package>> \in EncryptedPaths THEN "wholesome"
        ELSE IF entries # <<>> THEN "per-entry" ELSE "plain"

\* The end of stage_b: the mode, the media type and the ODF 1.2 verdict.
Conclude ==
  LET rootHadMedia == root.media # None
      adopt    == mimetype \in Vendor /\ ~rootHadMedia
      version  == IF root.version = None THEN firstVersion ELSE root.version
      claimed  == IF HasPackageEntry THEN packageMedia ELSE root.media
      conflict == mimetype # None /\ rootHadMedia
                    /\ (IF claimed = None THEN "" ELSE claimed) # mimetype
      root2    == IF adopt THEN [media |-> mimetype, version |-> version] ELSE root
  IN
  /\ verdict = "rows"
  /\ IF conflict THEN verdict' = "Inconsistent" /\ UNCHANGED <<root, mode, fatal>>
     ELSE /\ mode' = Mode
          /\ root' = root2
          /\ fatal' = (Unexpected /\ root2.version \in Modern)
          /\ verdict' = IF \E i \in Collected : BadDescriptor(archive[i])
                        THEN "Zip" ELSE "classified"
  /\ UNCHANGED <<archive, tree, recent, fromManifest, mimetype, packageMedia,
                 rowsRead, firstVersion, keyInfo, found>>

Done == verdict \notin {"collecting", "rows"} /\ UNCHANGED vars

AnyRow(row) == SkipRow(row) \/ BadRow(row) \/ FolderRow(row) \/ StreamRow(row)

Next ==
  \/ \E f \in Families : /\ Range(archive) \subseteq f.members
                         /\ \/ \E m \in f.members : AddMember(m)
                            \/ \E r \in f.rows : AnyRow(r)
  \/ BuildTree
  \/ Conclude
  \/ Done

Spec == Init /\ [][Next]_vars

-----------------------------------------------------------------------------
\* Every accepted row stands for a stream of the package that a row marked,
\* whatever the cache of recent folders answered on the way.
EntriesAreStreams == EncryptedPaths \subseteq streams \cap fromManifest

\* The cache only ever holds folders of the tree, at most one level above the
\* folder its key names (the pPrevious of a folder row, "A10").
CacheStaysNear ==
  \A d \in DOMAIN recent :
    LET w == Walked(Append(d, Empty)) IN
    /\ recent[d] \in folders
    /\ recent[d] \in {Prefix(d, w), Prefix(d, w - 1)}

\* package_encrypted and `common`: the latch is the first accepted row named
\* content.xml or encrypted-package, and is set as soon as there is one.
LatchIsFirst ==
  LET latches == {i \in 1..Len(entries) : ShortName(entries[i].path) \in {Content, Package}} IN
  /\ common = <<>> <=> latches = {}
  /\ \A i \in latches : (\A j \in latches : i <= j) => common = <<entries[i]>>

\* decrypt::wholesome_row relies on classify: a wholesome package has an
\* encrypted-package row, it is a root stream, and an archive member bears it.
WholesomeHasPayload ==
  mode = "wholesome" =>
    /\ <<Package>> \in EncryptedPaths
    /\ <<Package>> \in streams
    /\ MemberFor(<<Package>>) # {}

\* What reencrypt screens a per-entry package for (no plain entry, nothing
\* unexpected) leaves no stream in the clear but mimetype and META-INF/.
RekeyCoversEveryStream ==
  verdict = "classified" /\ mode = "per-entry" /\ ~plainEntries /\ ~Unexpected
    => \A s \in streams : s = <<Mimetype>> \/ Front(s) = <<MetaInf>>
                           \/ s \in EncryptedPaths
=============================================================================
