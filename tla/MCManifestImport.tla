--------------------------- MODULE MCManifestImport ---------------------------
(* Small manifests for ManifestImport: a root around up to three parts, each  *)
(* a row or some other child of the root.                                     *)
EXTENDS ManifestImport, TLC

Start(name, attrs) ==
  [kind |-> "start", name |-> name, via |-> "manifest", attrs |-> attrs,
   ns |-> [x \in {} |-> ""], of |-> 0]
End(name)          == [kind |-> "end", name |-> name, of |-> 0]
Text               == [kind |-> "text", of |-> 0]
Empty(name, attrs) == <<Start(name, attrs), End(name)>>
Nothing            == [x \in {} |-> ""]
Around(name, attrs, inner) == <<Start(name, attrs)>> \o inner \o <<End(name)>>
Via(alias, ns, e)  == [e EXCEPT !.via = alias, !.ns = ns]

Path           == ("path" :> "p") @@ ("media" :> "m")
Sized          == Path @@ ("size" :> "n")
Data(type)     == ("checksum-type" :> type)
Alg(cipher)    == Empty(M("algorithm"), "algorithm-name" :> cipher)
Sk(digest)     == Empty(M("start-key-generation"), "start-key-generation-name" :> digest)
Pbkdf2         == Empty(M("key-derivation"), "key-derivation-name" :> "pbkdf2")
Keyed(n)       == Empty(M("key-derivation"), ("key-derivation-name" :> "pbkdf2") @@ ("key-size" :> n))
Argon2(costs)  == Empty(M("key-derivation"), ("key-derivation-name" :> "argon2id") @@ costs)
OdfCosts       == "costs" :> "positive"
LoCosts        == "loext:costs" :> "positive"
Pgp            == Empty(M("key-derivation"), "key-derivation-name" :> "PGP")
Row(type, inner) ==
  Around(FileEntry, Sized, Around(M("encryption-data"), Data(type), inner))

\* A row in other namespaces: its own alias, and the default one.
Own   == "m" :> "odf"
Ours  == ("" :> "odf") @@ ("manifest" :> "other")
Aliased == <<Via("m", Own, Start(<<"m", "file-entry">>, Sized)),
             Via("m", Nothing, Start(<<"m", "encryption-data">>, Data("1k")))>>
           \o <<Via("m", Nothing, Start(<<"m", "algorithm">>, "algorithm-name" :> "cbc")),
                End(<<"m", "algorithm">>)>> \o Pbkdf2
           \o <<End(<<"m", "encryption-data">>), End(<<"m", "file-entry">>)>>
Unprefixed == <<Via("", Ours, Start(<<"", "file-entry">>, Sized)),
                Start(M("keyinfo"), Nothing)>> \o Alg("gcm") \o Argon2(OdfCosts)
              \o <<End(M("keyinfo")), End(<<"", "file-entry">>)>>

Wrapping == "PGPAlgorithm" :> "rsa-oaep"
Key13(wrap) ==
  Around(M("encrypted-key"), Nothing,
    Empty(M("encryption-method"), wrap)
    \o Around(M("keyinfo"), Nothing, Around(M("PGPData"), Nothing,
         Around(M("PGPKeyID"), Nothing, <<Text>>) \o Around(M("PGPKeyPacket"), Nothing, <<Text>>)))
    \o Around(M("CipherData"), Nothing, Around(M("CipherValue"), Nothing, <<Text>>)))
LoKey ==
  Around(Lo("encrypted-key"), Nothing,
    <<Via("loext", Nothing, Start(Lo("encryption-method"), Wrapping)), End(Lo("encryption-method"))>>
    \o Around(Lo("KeyInfo"), Nothing, Around(Lo("PGPData"), Nothing,
         Around(Lo("PGPKeyID"), Nothing, <<Text>>) \o Around(Lo("PGPKeyPacket"), Nothing, <<Text>>)))
    \o Around(Lo("CipherData"), Nothing, Around(Lo("CipherValue"), Nothing, <<Text>>)))
Keys == Around(Lo("keyinfo"), Nothing, LoKey)

Deep == Around(<<"x", "y">>, Nothing,
          Around(<<"x", "y">>, Nothing,
            Around(<<"x", "y">>, Nothing, Around(M("CipherValue"), Nothing,
              Around(FileEntry, Sized, Around(M("algorithm"), Nothing, <<Text>>))))))

\* Rows.
Plain     == Empty(FileEntry, Path @@ ("version" :> "1.2"))
PlainSize == Empty(FileEntry, Sized)
Gcm       == Row("none", Alg("gcm") \o Sk("sha256") \o Argon2(LoCosts))
Cbc       == Row("1k", Alg("cbc") \o Sk("sha256") \o Keyed("24"))
Blowfish  == Row("1k", Alg("blowfish") \o Pbkdf2)
Reversed  == Row("1k", Pbkdf2 \o Alg("cbc") \o Sk("sha1"))
Unknown   == Row("1k", Alg("twofish") \o Sk("sha256") \o Pbkdf2)
LateSk    == Row("1k", Alg("cbc") \o Pbkdf2 \o Sk("sha512"))
BadCosts  == Row("none", Alg("gcm") \o Argon2(("costs" :> "zero") @@ LoCosts))
PgpRow    == Row("1k", Alg("cbc") \o Pgp)
Outside   == Around(FileEntry, Sized, Around(M("keyinfo"), Nothing, Alg("blowfish") \o Pbkdf2)
               \o Around(M("encryption-data"), Data("1k"), <<>>))
Foreign   == Around(FileEntry, Sized, Around(<<"x", "encryption-data">>, Nothing, Alg("gcm") \o <<Text>>)
               \o Around(M("encryption-data"), Data("none"), Alg("gcm") \o Argon2(OdfCosts) \o Deep))
\* Other children of the root.
OddKey    == Key13("PGPAlgorithm" :> "other")
Nested    == Around(M("encrypted-key"), Nothing, LoKey)
Stray     == Around(Lo("keyinfo"), Nothing, Around(M("encryption-data"), Data("1k"), Alg("cbc")))
Text13    == Around(M("keyinfo"), Nothing, Around(M("CipherData"), Nothing,
               Around(M("CipherValue"), Nothing, <<Text>>)))

Part == [plain |-> Plain, plainSize |-> PlainSize, gcm |-> Gcm, cbc |-> Cbc, blowfish |-> Blowfish,
         reversed |-> Reversed, unknown |-> Unknown, lateSk |-> LateSk, badCosts |-> BadCosts,
         pgp |-> PgpRow, outside |-> Outside, foreign |-> Foreign, aliased |-> Aliased,
         unprefixed |-> Unprefixed, key13 |-> Key13(Wrapping), keys |-> Keys, oddKey |-> OddKey,
         nested |-> Nested, stray |-> Stray, text13 |-> Text13]
Core == {"gcm", "blowfish", "unknown", "outside", "pgp", "keys", "stray"}

Root(v) == [Start(M("manifest"), "version" :> v)
                    EXCEPT !.ns = ("manifest" :> "odf") @@ ("x" :> "other")]
Tagged(part, k) == [i \in DOMAIN part |-> [part[i] EXCEPT !.of = k]]
Manifest(root, body) ==
  LET child(k) == IF k > Len(body) THEN <<>> ELSE Tagged(Part[body[k]], k)
  IN <<root>> \o child(1) \o child(2) \o child(3) \o <<End(root.name)>>

\* The parts of a document.
Bodies == {<<p>> : p \in DOMAIN Part} \cup {<<p, q>> : p \in DOMAIN Part, q \in DOMAIN Part}
          \cup {<<p, q, r>> : p \in Core, q \in Core, r \in Core}
Manifests ==
  {Manifest(Root("1.3"), b) : b \in Bodies}
    \cup {Manifest([Root("") EXCEPT !.name = <<"x", "root">>], <<p>>) : p \in DOMAIN Part}

\* The theorem about what is rewritten is about manifests like these.
ASSUME RootsKeptHere == RootsKept
=============================================================================
