------------------------------- MODULE MCAuth -------------------------------
(* An instance of Auth small enough for TLC: two accounts, each derived from *)
(* a key of its own.                                                         *)
EXTENDS Auth, TLC

CONSTANTS a1, a2, k1, k2

MCAccounts == {a1, a2}
MCKeys == {k1, k2}
MCAddressOf == (k1 :> a1) @@ (k2 :> a2)

\* a1 may come under the key of a2.
MCKeySets == (a1 :> {{}, {k2}}) @@ (a2 :> {{}})

Symmetry == Permutations(Challenges) \cup Permutations(Sessions)
              \cup Permutations(Requests)
=============================================================================
