----------------------------- MODULE MCLinking -----------------------------
(* Two identities, two accounts, and the processes that fight for them.    *)
EXTENDS Linking, TLC

CONSTANTS p1, p2, d1, d2, o1, o2, t1, t2, osu, taiko

Symmetry == Permutations(Procs) \cup Permutations(Tokens)
            \cup Permutations(Discords) \cup Permutations(Accounts)
=============================================================================
