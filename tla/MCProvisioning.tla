--------------------------- MODULE MCProvisioning ---------------------------
(* Instances of Provisioning small enough for TLC. *)
EXTENDS Provisioning, TLC

CONSTANTS t2, b2

\* One team is there already, the other is still to be created.
OneTeam == t2 :> b2
=============================================================================
