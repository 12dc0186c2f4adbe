---------------------------- MODULE MCAccessRules ----------------------------
(* An instance of AccessRules small enough for TLC. *)
EXTENDS AccessRules, TLC

CONSTANTS k1, k2, k3, v2, v3

Text(resource, key, form) == [resource |-> resource, key |-> key, form |-> form]

\* Three signers, two of them with one id but of different kinds; one of them in
\* another spelling, one without brackets; an NFT that is no key.
MCTexts ==
  {Text("ed25519", k1, "lower"), Text("ed25519", k1, "upper"),
   Text("secp256k1", k1, "lower"), Text("secp256k1", k1, "bare"),
   Text("ed25519", k2, "lower"), Text("other", k3, "lower")}

MCPublicKeys == {Text("ed25519", k2, "public")}

\* Accounts to import: one under keys, one with a rule of another form.
MCOwnRules ==
  v2 :> CountOf(1, <<Text("other", k3, "lower"), Text("ed25519", k2, "lower")>>)
    @@ v3 :> Composite(<<Text("ed25519", k1, "lower")>>)

\* Accounts are interchangeable.
Symmetry == Permutations(Accounts)
=============================================================================
