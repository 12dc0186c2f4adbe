--------------------------- MODULE VaultInvariant ---------------------------
(***************************************************************************)
(* The inductive invariant of VaultProposals: what each program point of   *)
(* each handler knows, although every other request may have written the   *)
(* same row since it read it.  It rests on one observation: whatever       *)
(* justifies a status (a quorum on record, a verdict of the ledger, a      *)
(* deadline gone by) never goes away again, so a handler that established  *)
(* it may write that status however late it does so.                       *)
(***************************************************************************)
EXTENDS VaultProposals

\* What entitles a handler to write status s into the row of p.
Justified(p, s) ==
  /\ s \in PastReady => Met(p, signature[p])
  /\ s \in {"submitted", "committed", "failed"} => row[p].hash # Null
  /\ s = "committed" => Executed(p)
  /\ s = "failed" => \E i \in Handed(p) : intent[i].state \in {"failure", "rejected"}
  /\ s = "expired" => Lapsed(p)
  /\ s = "invalid" =>
       \E low, high \in past[row[p].entity] : Threshold(low) < Threshold(high)

\* The rule in force is on record; an intent belongs to a proposal from the
\* moment it is handed over, and only proposals that exist have intents.
LedgerInv ==
  /\ \A e \in Entities : rule[e] \in past[e]
  /\ \A i \in Intents :
       IF intent[i].proposal = Null
         THEN intent[i].state = "absent"
         ELSE intent[i].state # "absent" /\ row[intent[i].proposal].status # "absent"

\* A row that is not there has no signatures; one that is has its vault, a
\* finite set of signatures by keys that were signers, and an own intent.
RowInv(p) ==
  /\ row[p].status = "absent" => signature[p] = {} /\ row[p].hash = Null
  /\ row[p].status # "absent" => row[p].entity \in Entities
  /\ IsFiniteSet(signature[p])
  /\ \A s \in signature[p] : WasSigner(p, s.key)
  /\ row[p].hash # Null => intent[row[p].hash].proposal = p
  /\ Justified(p, row[p].status)

ActiveInv(r) ==
  ~ At(r, "idle") =>
    ProposalOf(r) \in Proposals /\ row[ProposalOf(r)].status # "absent"

\* sign: the key was a signer of the rule read, and a status it is about to
\* write is justified by the signatures counted.
SignInv(r) ==
  LET p == ProposalOf(r) IN
    /\ req[r].pc \in SignPcs => req[r].account \in Accounts /\ req[r].key \in Keys
    /\ req[r].pc \in {"sign.addSignature", "sign.getSignatures"} =>
         req[r].rule \in past[row[p].entity]
    /\ At(r, "sign.addSignature") => req[r].key \in req[r].rule.signers
    /\ At(r, "sign.updateStatus") =>
         req[r].write \in {"ready", "signing"} /\ Justified(p, req[r].write)

\* submit: the row was ready when it began, hence a quorum was on record
\* before it read the signatures; what it read is still on record.
SubmitInv(r) ==
  LET p == ProposalOf(r) IN
    /\ req[r].pc \in SubmitPcs => Met(p, signature[p])
    /\ req[r].pc \in SubmitPcs \ {"submit.isExpired", "submit.getSignatures"} =>
         req[r].sigs \subseteq signature[p] /\ Met(p, req[r].sigs)
    /\ At(r, "submit.invalidate") => Justified(p, "invalid")
    /\ At(r, "submit.setSubmitted") =>
         req[r].hash \in Intents /\ intent[req[r].hash].proposal = p

\* refreshStatus: it asks about an intent of this proposal, and a verdict it
\* is about to write is the ledger's.
RefreshInv(r) ==
  LET p == ProposalOf(r) IN
    /\ req[r].pc \in RefreshPcs =>
         /\ Met(p, signature[p]) /\ row[p].hash # Null
         /\ req[r].hash \in Intents /\ intent[req[r].hash].proposal = p
    /\ At(r, "refresh.updateStatus") =>
         req[r].write \in {"committed", "failed"} /\ Justified(p, req[r].write)

ExpireInv(r) == At(r, "expire") => Justified(ProposalOf(r), "expired")

RequestInv(r) ==
  ActiveInv(r) /\ SignInv(r) /\ SubmitInv(r) /\ RefreshInv(r) /\ ExpireInv(r)

\* What every step of every handler, of the ledger and of time preserves, and
\* from which the safety properties of VaultProposals follow.
IInv ==
  /\ TypeOK
  /\ LedgerInv
  /\ \A p \in Proposals : RowInv(p)
  /\ \A r \in Requests : RequestInv(r)
  /\ IntentsAreBacked

-----------------------------------------------------------------------------
(* The further invariant of requests that take turns and run to their end.   *)

OneByOne == ~ Faults /\ \A r, q \in Requests : r = q

\* Between the hand-over and the record of it the row still says ready.
Sending(p) == \E r \in Requests : At(r, "submit.setSubmitted") /\ ProposalOf(r) = p

HandedInv(p) ==
  /\ HandedOnce(p)
  /\ Handed(p) # {} => row[p].status \in {"submitted", "committed", "failed"} \/ Sending(p)

\* The status a handler read is still that of the row when it writes the next.
TurnInv(r) ==
  LET status == row[ProposalOf(r)].status IN
    /\ req[r].pc \in SignPcs => status = req[r].seen /\ Signable(status)
    /\ At(r, "sign.updateStatus") /\ req[r].write = "signing" => req[r].seen = "created"
    /\ At(r, "expire") => status \in PendingStatuses
    /\ req[r].pc \in SubmitPcs => status = "ready"
    /\ req[r].pc \in RefreshPcs => status = "submitted"

TurnsInv ==
  /\ \A p \in Proposals : HandedInv(p)
  /\ \A r \in Requests : TurnInv(r)
=============================================================================
