---------------------------- MODULE ProposalRepo ----------------------------
(***************************************************************************)
(* The proposals and proposal_signatures tables, and the statements the    *)
(* handlers run against them.  Each operator is one SQL statement, hence   *)
(* one atomic step; no handler wraps two of them in a transaction, and no  *)
(* UPDATE but the dashboard's expiry sweep looks at the current status.    *)
(*                                                                         *)
(* Definitions marked VARIANT are faulty forms of the definition that      *)
(* follows; no specification uses them.  Each property of a run is known   *)
(* to fail when one of them replaces the definition (PROJECT.json).        *)
(***************************************************************************)
EXTENDS Ledger

CONSTANTS
  Accounts,    \* accounts of team members, as authenticated by a session
  Deadlines    \* the maxProposerTimestamps a proposal may be given

ASSUME DeadlinesAssumption == Deadlines \subseteq Nat

VARIABLES
  row,        \* [Proposals -> RowType], table proposals
  signature   \* [Proposals -> SUBSET SignatureType], table proposal_signatures

repoVars == <<row, signature>>

PendingStatuses == {"created", "signing", "ready"}

TerminalStatuses == {"committed", "failed", "expired", "invalid"}

Statuses == PendingStatuses \cup {"submitted"} \cup TerminalStatuses

ASSUME NullColumnAssumption == Null \notin Accounts \cup Statuses

RowType ==
  [status : Statuses \cup {"absent"},
   entity : Entities \cup {Null},
   deadline : Deadlines \cup {0},
   hash : Intents \cup {Null}]

NoRow == [status |-> "absent", entity |-> Null, deadline |-> 0, hash |-> Null]

SignatureType == [account : Accounts, key : Keys]

RepoTypeOK ==
  /\ row \in [Proposals -> RowType]
  /\ signature \in [Proposals -> SUBSET SignatureType]

RepoInit ==
  /\ row = [p \in Proposals |-> NoRow]
  /\ signature = [p \in Proposals |-> {}]

KeysOf(sigs) == {s.key : s \in sigs}

\* isExpired: strictly after the deadline.
IsExpired(p) == row[p].deadline < now

\* maxProposerTimestampExclusive: from its deadline on a subintent cannot commit.
Lapsed(p) == row[p].deadline <= now

\* The WHERE clause of the dashboard's sweep.  It compares texts: a deadline,
\* cut to seconds, is a prefix of the time of its own second, hence smaller.
Sweeps(p) == row[p].deadline <= now /\ row[p].status \in PendingStatuses

-----------------------------------------------------------------------------
(* The statements. *)

Insert(p, e, deadline) ==
  /\ row[p].status = "absent"
  /\ row' = [row EXCEPT ![p] = [status |-> "created", entity |-> e,
                                deadline |-> deadline, hash |-> Null]]
  /\ UNCHANGED signature

\* The unique constraint is on (proposal, account): the key plays no part.
HasSigned(p, a) == \E s \in signature[p] : s.account = a

AddSignature(p, a, k) ==
  /\ ~ HasSigned(p, a)
  /\ signature' = [signature EXCEPT ![p] = @ \cup {[account |-> a, key |-> k]}]
  /\ UNCHANGED row

\* updateStatus, and setTerminalStatus (whose reason text is left out).
UpdateStatus(p, status) ==
  /\ row' = [row EXCEPT ![p].status = status]
  /\ UNCHANGED signature

\* VARIANT: the status is written, the hash is not.
SetSubmittedStatusOnly(p, i) ==
  row' = [row EXCEPT ![p].status = "submitted"] /\ UNCHANGED signature

\* VARIANT: the hash is written, the status is not.
SetSubmittedHashOnly(p, i) ==
  row' = [row EXCEPT ![p].hash = i] /\ UNCHANGED signature

SetSubmitted(p, i) ==
  /\ row' = [row EXCEPT ![p].status = "submitted", ![p].hash = i]
  /\ UNCHANGED signature

\* The UPDATE of listAllPending, over all proposals of the team at once.
ExpirePending ==
  /\ \E p \in Proposals : Sweeps(p)
  /\ row' = [p \in Proposals |->
               IF Sweeps(p) THEN [row[p] EXCEPT !.status = "expired"] ELSE row[p]]
  /\ UNCHANGED signature

-----------------------------------------------------------------------------
(* What the tables and the ledger say in the glossary's terms.             *)

StatusOf == [p \in Proposals |-> row[p].status]

HandedOver == [p \in Proposals |-> Handed(p) # {}]

Refused(p) ==
  /\ Handed(p) # {}
  /\ \A i \in Handed(p) : intent[i].state \in {"failure", "rejected"}

Outcome == [p \in Proposals |->
  IF Executed(p) THEN "executed" ELSE IF Refused(p) THEN "refused" ELSE "open"]

Glossary == INSTANCE ProposalStatus WITH
  status <- StatusOf, handed <- HandedOver, outcome <- Outcome

-----------------------------------------------------------------------------
(* What the rows must agree on with the ledger and the clock, whichever    *)
(* handlers write them.                                                    *)

PastReady == {"ready", "submitted", "committed", "failed", "invalid"}

\* A status refreshStatus reports as final was the ledger's verdict on a
\* transaction of this proposal: nothing is committed that was not executed,
\* nothing failed that was not refused, though the Gateway lags and the row
\* may be rewritten between the query and the update.
SettledByLedger ==
  \A p \in Proposals :
    /\ row[p].status = "committed" => Executed(p)
    /\ row[p].status = "failed" =>
         \E i \in Handed(p) : intent[i].state \in {"failure", "rejected"}

\* transactionIntentHash is only ever a transaction the Gateway accepted for
\* this very proposal, and it is there whenever the status says submitted or
\* later: setSubmitted comes after the submission, never before.
HashNamesOwnIntent ==
  \A p \in Proposals :
    /\ row[p].hash # Null => intent[row[p].hash].proposal = p
    /\ row[p].status \in {"submitted", "committed", "failed"} => row[p].hash # Null

\* However often it was submitted, one transaction was handed over.
HandedOnce(p) == \A i, j \in Handed(p) : i = j

\* No proposal is marked expired while its subintent could still commit, by
\* sign, by submit or by the dashboard's sweep, though they compare the deadline
\* in two ways.
ExpiredMeansLate ==
  \A p \in Proposals : row[p].status = "expired" => Lapsed(p)
=============================================================================
