-------------------------- MODULE MCTeamProposals --------------------------
(* Instances of TeamProposals small enough for TLC. *)
EXTENDS TeamInvariant, TLC

CONSTANTS k1, k2

AllOf(signers) == [type |-> "AllOf", count |-> 0, signers |-> signers]
CountOf(n, signers) == [type |-> "CountOf", count |-> n, signers |-> signers]

MCKeys == {k1, k2}

\* Every rule team proposals can install, and rules nobody can satisfy.
MCRules ==
  {AllOf(s) : s \in SUBSET MCKeys \ {{}}} \cup {CountOf(1, MCKeys)}
             \cup {CountOf(2, {k}) : k \in MCKeys}

\* A team's badge starts with one signer; an imported vault may have others.
OneSigner == {[e \in Entities |-> AllOf({k1})]}
TwoSigners == {[e \in Entities |-> AllOf(MCKeys)]}
MixedSigners ==
  {[e \in Entities |-> IF e = Badge THEN AllOf({k1}) ELSE AllOf(MCKeys)]}

\* For instances in which every account founded the team and every key signs.
FullSymmetry == Permutations(Accounts) \cup Permutations(MCKeys)
                  \cup Permutations(Requests) \cup Permutations(Intents)

Symmetry == Permutations(Proposals) \cup Permutations(Intents)

\* For instances in which every account founded the team.
FounderSymmetry == Symmetry \cup Permutations(Accounts)
=============================================================================
