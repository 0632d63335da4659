------------------------------- MODULE MCRekey -------------------------------
(* Packages for Rekey: MCDecrypt's, with a new password, and members that are  *)
(* listed in the clear or not listed at all.                                   *)
EXTENDS Rekey, MCDecrypt, TLC

Rekeyed(c) == c @@ [new |-> "given", clear |-> {}, latched |-> TRUE, mimetype |-> TRUE]

\* One plain member beside the encrypted one: listed, not listed, or exempt.
Beside(name, clear) ==
  [Rekeyed(Entries(<<A>>, <<M(name, "stored", TRUE, Two), TheManifest,
                            M("a", "stored", TRUE, Trailed)>>)) EXCEPT !.clear = clear]
Listed == {Beside("b", {}), Beside("b", {"b"}), Beside("mimetype", {}),
           Beside("signatures", {}), Beside("signatures", {"signatures"})}

Whole1 == CHOOSE c \in Sealed : c.rows[2].key = 0 /\ c.members[2].blocks = Trailed
                                /\ c.rows[2].size = 1 /\ c.limit = 4
RefusedRekeys ==
  UNION {{[ok EXCEPT !.new = ""], [ok EXCEPT !.mimetype = FALSE], [ok EXCEPT !.latched = FALSE]} :
           ok \in {Rekeyed(Whole1), Beside("mimetype", {})}}

RekeyCalls ==
  Listed \cup RefusedRekeys
  \cup {Rekeyed(c) : c \in Sealed \cup WholesomeCbc \cup Refused \cup Keyed}
  \cup {Rekeyed(c) : c \in {d \in Damaged : d.rows[1].cipher # "blowfish"}}
  \cup {Rekeyed(c) : c \in {d \in Sized : d.rows[1].cipher = "gcm"}}
=============================================================================
