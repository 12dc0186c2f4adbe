--------------------------- MODULE ProposalStatus ---------------------------
(***************************************************************************)
(* What the project's glossary promises of a proposal                      *)
(* (UBIQUITOUS_LANGUAGE.md:33-49): it collects signatures until it is      *)
(* ready, is handed to the ledger once, and from then on only reports what *)
(* the ledger decided; committed, failed, expired and invalid are final.   *)
(*                                                                         *)
(* VaultProposals implements this when the handlers of a proposal do not   *)
(* overlap and are not cut short; its concurrent runs show where overlap   *)
(* and crashes break it.                                                   *)
(***************************************************************************)
CONSTANT Proposals

VARIABLES
  status,   \* [Proposals -> STRING], what the team is shown
  handed,   \* [Proposals -> BOOLEAN], has a transaction been handed over?
  outcome   \* [Proposals -> {"open", "executed", "refused"}], the ledger's verdict

statusVars == <<status, handed, outcome>>

Pending == {"created", "signing", "ready"}

Init ==
  /\ status = [p \in Proposals |-> "absent"]
  /\ handed = [p \in Proposals |-> FALSE]
  /\ outcome = [p \in Proposals |-> "open"]

\* The status of p moves along one edge of the glossary's state machine.
Move(p, from, to) ==
  /\ status[p] \in from
  /\ status' = [status EXCEPT ![p] = to]

Create(p) == Move(p, {"absent"}, "created") /\ UNCHANGED <<handed, outcome>>

Collect(p) ==
  /\ \/ Move(p, {"created"}, "signing")
     \/ Move(p, {"created", "signing"}, "ready")
  /\ UNCHANGED <<handed, outcome>>

\* Before anything is handed over a proposal may lapse: one by one, or all
\* that are late at once.
Lapse ==
  \E late \in SUBSET {p \in Proposals : status[p] \in Pending /\ ~ handed[p]} :
    /\ status' = [p \in Proposals |-> IF p \in late THEN "expired" ELSE status[p]]
    /\ UNCHANGED <<handed, outcome>>

Invalidate(p) ==
  /\ ~ handed[p]
  /\ Move(p, {"ready"}, "invalid")
  /\ UNCHANGED <<handed, outcome>>

HandOver(p) ==
  /\ status[p] = "ready" /\ ~ handed[p]
  /\ handed' = [handed EXCEPT ![p] = TRUE]
  /\ UNCHANGED <<status, outcome>>

\* The ledger may be quicker than the server's own record of the submission.
Decide(p) ==
  /\ handed[p] /\ outcome[p] = "open"
  /\ \E o \in {"executed", "refused"} : outcome' = [outcome EXCEPT ![p] = o]
  /\ UNCHANGED <<status, handed>>

Submitted(p) ==
  /\ handed[p]
  /\ Move(p, {"ready"}, "submitted")
  /\ UNCHANGED <<handed, outcome>>

Report(p) ==
  /\ \/ outcome[p] = "executed" /\ Move(p, {"submitted"}, "committed")
     \/ outcome[p] = "refused" /\ Move(p, {"submitted"}, "failed")
  /\ UNCHANGED <<handed, outcome>>

Next ==
  \/ \E p \in Proposals :
       \/ Create(p) \/ Collect(p) \/ Invalidate(p) \/ HandOver(p)
       \/ Decide(p) \/ Submitted(p) \/ Report(p)
  \/ Lapse

Spec == Init /\ [][Next]_statusVars
=============================================================================
