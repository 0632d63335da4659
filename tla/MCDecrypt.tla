------------------------------- MODULE MCDecrypt -------------------------------
(* Packages for Decrypt: every shape of a member of at most two blocks, damage *)
(* anywhere, keys on every rung, rows that share a member.                     *)
EXTENDS Decrypt

B(units, mark) == [units |-> units, mark |-> mark, damage |-> "none"]
One     == <<B(1, TRUE)>>
Two     == <<B(1, FALSE), B(1, TRUE)>>
Trailed == <<B(1, TRUE), B(0, FALSE)>>
Endless == <<B(1, FALSE)>>
Whole   == {One, Two, Trailed}
Hurt(c) == {[c EXCEPT ![1].damage = "window"]}
             \cup {[c EXCEPT ![b].damage = "past"] : b \in DOMAIN c}
Contents == Whole \cup UNION {Hurt(c) : c \in Whole}
Intact(c) == c \in Whole \cup {Endless}
UnitsOf(c) == IF Len(c) = 1 THEN 1 ELSE c[1].units + c[2].units

M(name, method, crc, c) == [name |-> name, method |-> method, crc |-> crc, blocks |-> c]
Stored(name, c) == {M(name, "stored", crc, c) : crc \in IF Intact(c) THEN {TRUE} ELSE BOOLEAN}
TheManifest == M("manifest", "deflated", TRUE, One)

R(path, cipher, key, size) ==
  [path |-> path, cipher |-> cipher, key |-> key, sha1 |-> key \in {1, 2, 3},
   size |-> size, shape |-> TRUE, kdf |-> TRUE, pgp |-> FALSE]

Call(mode, rows, members, limit) ==
  [mode |-> mode, fatal |-> FALSE, password |-> "given", rows |-> rows,
   members |-> members, limit |-> limit]
Entries(rows, members) == Call("per-entry", rows, members, 4)

\* One member damaged in every way, beside a sound one.
Damaged ==
  UNION {{Entries(<<R("a", c, 0, UnitsOf(bs)), R("b", "gcm", 0, 1)>>,
                  <<TheManifest, a, M("b", "stored", TRUE, One)>>) :
            a \in Stored("a", bs)} : c \in Ciphers, bs \in Contents}

\* Keys: each rung, none, and two rows for one member.
Keys == {None, 0, 1, 3}
Keyed ==
  {Entries(<<R("a", c, k, 2)>>, <<TheManifest, M("a", "stored", TRUE, Two)>>) :
     c \in Ciphers, k \in Keys}
  \cup {Entries(<<R("a", c, k, 1), R("a", d, l, 1)>>, <<M("a", "stored", TRUE, One), TheManifest>>) :
     c \in {"gcm", "cbc"}, d \in {"gcm", "cbc"}, k \in {None, 0, 1}, l \in {None, 0}}

\* Sizes that are not what the member inflates to, and limits.
Sized ==
  {Call("per-entry", <<R("a", c, 0, n), R("b", "cbc", 0, 2)>>,
        <<M("a", "stored", TRUE, bs), M("b", "stored", TRUE, Two), TheManifest>>, limit) :
     c \in {"gcm", "blowfish"}, n \in {-1, 0, 1, 2}, bs \in {Two, Endless}, limit \in {2, 3, 4}}

\* Members nothing encrypts.
Plain ==
  UNION {{Entries(<<R("a", "gcm", 0, 1)>>,
                  <<M("b", method, b.crc, b.blocks), TheManifest, M("a", "stored", TRUE, One)>>) :
            b \in Stored("b", bs)} : method \in {"stored", "deflated", "other"}, bs \in {Two} \cup Hurt(Two)}

\* One refusal each.
A == R("a", "gcm", 0, 1)
Refused ==
  LET ms == <<TheManifest, M("a", "stored", TRUE, One)>>
      ok == Entries(<<A>>, ms) IN
  {[ok EXCEPT !.mode = "plain"], [ok EXCEPT !.fatal = TRUE], [ok EXCEPT !.password = ""]}
  \cup {Entries(rs, ms) :
          rs \in {<<A, [A EXCEPT !.pgp = TRUE]>>, <<A, [A EXCEPT !.path = "b"]>>,
                  <<A, [A EXCEPT !.shape = FALSE]>>, <<A, [A EXCEPT !.kdf = FALSE]>>,
                  <<A, A, A, A>>}}

Sealed ==
  UNION {{Call("wholesome", <<R("a", "cbc", 0, 9), R("package", "gcm", k, n)>>,
               <<M("a", "stored", TRUE, One), p, TheManifest>>, limit) :
            p \in Stored("package", bs)} :
         bs \in Contents \cup {Endless}, k \in {None, 0}, n \in {1, 2}, limit \in {1, 4}}
WholesomeCbc == {Call("wholesome", <<R("package", "cbc", 0, 1)>>,
                      <<TheManifest, M("package", "stored", TRUE, One)>>, 4)}
EncryptedManifest ==
  {Entries(<<R("manifest", c, k, 1)>>, <<TheManifest>>) : c \in Ciphers, k \in {None, 0}}

AllCalls == Damaged \cup Keyed \cup Sized \cup Plain \cup Refused \cup Sealed
              \cup WholesomeCbc \cup EncryptedManifest
LongCbc  == {c \in Damaged : c.rows[1].cipher = "cbc"}
=============================================================================
