-------------------------- MODULE MCVaultProposals --------------------------
(* Instances of VaultProposals small enough for TLC. *)
EXTENDS VaultInvariant, TLC

CONSTANTS k1, k2

AllOfOne == [type |-> "AllOf", count |-> 0, signers |-> {k1}]
TwoOfTwo == [type |-> "CountOf", count |-> 2, signers |-> {k1, k2}]

MCKeys == {k1, k2}
DriftingRules == {TwoOfTwo, AllOfOne}

Symmetry == Permutations(Accounts) \cup Permutations(Requests)
              \cup Permutations(Intents)
=============================================================================
