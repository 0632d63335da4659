----------------------------- MODULE MCCliOutput -----------------------------
(* Small instances of CliOutput: which run writes beside which target.       *)
EXTENDS CliOutput, TLC

CONSTANTS p1, p2, t1, t2

OneTarget    == (p1 :> t1)
SharedTarget == (p1 :> t1) @@ (p2 :> t1)

AtOnce(procs) == [p \in procs |-> {}]
Alone      == AtOnce({p1})
Together   == AtOnce({p1, p2})
InTurn     == (p1 :> {}) @@ (p2 :> {p1})

\* Files differ only in what is in them and in who leads to them.
InodesAlike == Permutations(Inodes)
=============================================================================
