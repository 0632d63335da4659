------------------------------ MODULE MCClassify ------------------------------
(* Small archives and manifests for Classify.                                *)
EXTENDS Classify

LowerCase == [s \in {"", "a", "A", "b", "..", "content.xml", "encrypted-package",
                     "mimetype", "META-INF", "manifest.xml", "signatures.xml"} |->
                IF s = "A" THEN "a" ELSE IF s = "META-INF" THEN "meta-inf" ELSE s]

M(name)       == [name |-> name, dosDir |-> FALSE, descriptor |-> FALSE]
DosDir(name)  == [M(name) EXCEPT !.dosDir = TRUE]
Streamed(name) == [M(name) EXCEPT !.descriptor = TRUE]
TheManifest   == M(<<"META-INF", "manifest.xml">>)

R(path, crypt) == [path |-> path, crypt |-> crypt, keys |-> FALSE,
                   media |-> None, version |-> None]
Root(media, version) == [R(<<"", "">>, "none") EXCEPT !.media = media,
                                                       !.version = version]

\* Folders two deep, the same last segment at two depths, empty segments: the
\* rows that make the cache of recent folders answer.
DeepMembers == {TheManifest, M(<<"a", "b">>), M(<<"a", "a", "a", "b">>), M(<<"a", "", "b">>),
                M(<<"A", "b">>), M(<<"a", "a", "">>), M(<<"..", "b">>)}
DeepRows == {R(p, "password") : p \in {<<"a", "b">>, <<"a", "a", "b">>, <<"a", "a", "a", "b">>,
                                       <<"a", "", "b">>, <<"a">>, <<"">>}}
            \cup {R(p, "none") : p \in {<<"a", "a", "">>, <<"a", "">>, <<"", "a", "">>,
                                        <<"a", "a", "a", "">>, <<"a", "b", "">>, <<"a", "b", "b">>}}

\* Modes, the latch, media types, versions, PGP rows, data descriptors.
ModeMembers == {TheManifest, M(<<"content.xml">>), M(<<"encrypted-package">>),
                M(<<"encrypted-package", "content.xml">>), M(<<"mimetype">>), M(<<"mimetype", "">>),
                DosDir(<<"encrypted-package">>), Streamed(<<"a">>),
                M(<<"META-INF", "signatures.xml">>)}
ModeRows == {R(<<"content.xml">>, "password"), R(<<"content.xml">>, "none"),
             R(<<"encrypted-package">>, "password"), R(<<"a">>, "password"),
             R(<<"encrypted-package", "content.xml">>, "pgp"),
             [R(<<"a">>, "pgp") EXCEPT !.keys = TRUE],
             [R(<<"encrypted-package">>, "pgp") EXCEPT !.media = "odt"],
             Root("odt", "1.2"), Root(None, "1.1"), R(<<"META-INF", "manifest.xml">>, "none")}

Explored == {[members |-> DeepMembers, rows |-> DeepRows],
             [members |-> ModeMembers, rows |-> ModeRows]}
=============================================================================
