------------------------------ MODULE MCEncrypt ------------------------------
(* Calls for Encrypt: a package of every length, one refusal of each kind, and *)
(* for one package, costs on both sides of every limit and hosts short of      *)
(* memory, cores or threads.                                                   *)
EXTENDS Encrypt

C(t, m, p)  == [t |-> t, m |-> m, p |-> p]
Default     == C(3, 20, 2)
Machine     == [memory |-> 40, cores |-> 2, threads |-> 4]
SomeCosts   == {C(t, 20, 2) : t \in {-1, 0, 1, 40}} \cup {C(3, m, 2) : m \in {-1, 0, 15, 16, 17}}
               \cup {C(3, 40, p) : p \in {-1, 0, 1, 3, 4, 5}} \cup {C(0, -1, 1), C(40, 40, 3), C(3, 23, 3)}
Hosts       == {[memory |-> n, cores |-> k, threads |-> j] : n \in {19, 20}, k \in {1, 3}, j \in 0..2}
L(t, m, p)  == [t |-> t, m |-> m, p |-> p]
SomeLimits  == {Permissive, L(2, 40, 40), L(40, 19, 40), L(40, 40, 1), L(40, 40, 3), L(40, 40, 4), L(0, 0, 0)}

Plain(n, limit) ==
  [password |-> TRUE, zip |-> TRUE, mode |-> "plain", latched |-> FALSE, fatal |-> FALSE,
   mimetype |-> TRUE, length |-> n, ceiling |-> limit, costs |-> Default, host |-> Machine]
Ok == Plain(1, MaxInput)

MCAsked ==
  {Plain(n, MaxInput) : n \in {0, 1, 4, 5, 8, 9, 12}} \cup {Plain(4, 3)}
  \cup {[Ok EXCEPT !.password = FALSE], [Ok EXCEPT !.zip = FALSE], [Ok EXCEPT !.fatal = TRUE],
        [Ok EXCEPT !.mimetype = FALSE], [Ok EXCEPT !.mode = "per-entry"],
        [Ok EXCEPT !.mode = "wholesome", !.latched = TRUE]}
  \cup {[Ok EXCEPT !.costs = c] : c \in SomeCosts} \cup {[Ok EXCEPT !.host = h] : h \in Hosts}
=============================================================================
