--------------------------- MODULE MCProposalPage ---------------------------
(* An instance of ProposalPage small enough for TLC. *)
EXTENDS ProposalPage

Text(ms, zone) == [ms |-> ms, zone |-> zone]

\* A deadline as the forms write it, cut to seconds and without a zone, for a
\* proposal created within a second; and one as other clients may write it.
MCRows == {Columns(7, Text(20, "none"), 5), Columns(0, Text(88, "Z"), 5)}

MCServerZone == 0
MCClientZone == -20
=============================================================================
