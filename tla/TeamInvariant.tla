--------------------------- MODULE TeamInvariant ---------------------------
(***************************************************************************)
(* The inductive invariant of TeamProposals: what each program point of    *)
(* each handler knows while other requests write the same rows, proposals  *)
(* that commit change the very rules it is reading, and the members and    *)
(* badges it was let in by are gone.                                       *)
(***************************************************************************)
EXTENDS TeamProposals

\* Somebody can satisfy the rule.
Open(ru) == Threshold(ru) \in 1 .. Cardinality(ru.signers)

\* What a proposal stores about its kind and the rules it will set.
DetailInv(d) ==
  d.kind \in Kinds /\ \A e \in DOMAIN d.plan : Open(d.plan[e])

\* Every entity consulted had asked for no more than n signatures at one time.
Enough(p, es, n) == \A e \in es : \E ru \in past[e] : n >= Threshold(ru)

Met(p) == Enough(p, Consulted(p), Cardinality(signature[p]))

\* What entitles a handler to write status s into the row of p.
Justified(p, s) ==
  /\ s \in PastReady => Met(p)
  /\ s \in {"submitted", "committed", "failed"} => row[p].hash # Null
  /\ s = "committed" => Executed(p)
  /\ s = "failed" => RefusedOnce(p)
  /\ s = "expired" => Lapsed(p)

\* The rule in force is on record, and so is the proposal of every intent.
LedgerInv ==
  /\ \A e \in Entities : rule[e] \in past[e]
  /\ \A i \in Intents :
       IF intent[i].proposal = Null
         THEN intent[i].state = "absent"
         ELSE intent[i].state # "absent" /\ row[intent[i].proposal].status # "absent"

RowInv(p) ==
  /\ row[p].status = "absent" => row[p].hash = Null
  /\ row[p].status # "absent" => row[p].entity \in Entities /\ DetailInv(detail[p])
  /\ IsFiniteSet(signature[p])
  /\ row[p].hash # Null => intent[row[p].hash].proposal = p
  /\ Justified(p, row[p].status)

\* A request that has got past the gate is about a draft or a proposal on record.
ActiveInv(r) ==
  /\ req[r].pc \in {"membership", "gate"} \cup SignPcs => req[r].account \in Accounts
  /\ req[r].pc \in CreatePcs => req[r].draft \in DraftType /\ DetailInv(req[r].draft.detail)
  /\ req[r].pc \in {"expire"} \cup SignPcs \cup SubmitPcs \cup RefreshPcs =>
       ProposalOf(r) \in Proposals /\ row[ProposalOf(r)].status # "absent"
  /\ At(r, "expire") => Lapsed(ProposalOf(r))

\* What was counted is still on record, and the largest threshold read so far
\* covers every rule that has been read.
ReadInv(r) ==
  LET p == ProposalOf(r) IN
    req[r].pc \in {"sign.readRules", "submit.readRules"} =>
      /\ req[r].sigs \subseteq signature[p]
      /\ Enough(p, Consulted(p) \ req[r].unread, req[r].need)

SignInv(r) == req[r].pc \in SignPcs => req[r].key \in Keys

\* submit: the row was ready when it began, hence every threshold had been met.
SubmitInv(r) ==
  /\ req[r].pc \in SubmitPcs => Met(ProposalOf(r))
  /\ At(r, "submit.setSubmitted") =>
       req[r].hash \in Intents /\ intent[req[r].hash].proposal = ProposalOf(r)

\* refreshStatus: the verdict it is about to write, in the row and then in the
\* member table, is the ledger's.
RefreshInv(r) ==
  LET p == ProposalOf(r) IN
    /\ req[r].pc \in RefreshPcs => Met(p) /\ row[p].hash # Null
    /\ req[r].pc \in {"refresh.check", "refresh.updateStatus"} =>
         req[r].hash \in Intents /\ intent[req[r].hash].proposal = p
    /\ At(r, "refresh.updateStatus") =>
         req[r].write \in {"committed", "failed"} /\ Justified(p, req[r].write)
    /\ At(r, "refresh.confirmMember") => detail[p].kind = "add_member" /\ Executed(p)
    /\ At(r, "refresh.removeMember") =>
         \/ detail[p].kind = "remove_member" /\ Executed(p)
         \/ detail[p].kind = "add_member" /\ RefusedOnce(p)

RequestInv(r) ==
  ActiveInv(r) /\ ReadInv(r) /\ SignInv(r) /\ SubmitInv(r) /\ RefreshInv(r)

\* What every step preserves, and from which the safety properties follow.
IInv ==
  /\ TypeOK
  /\ LedgerInv
  /\ \A p \in Proposals : RowInv(p)
  /\ \A r \in Requests : RequestInv(r)
  /\ MembersWereVotedIn

-----------------------------------------------------------------------------
(* The further invariants of requests that take turns, cut short or not.     *)

Alone == \A r, q \in Requests : r = q

\* The status a handler read is still that of the row when it writes the next,
\* and the verdict it wrote is when it goes on to the member table.
TurnInv(r) ==
  LET p == ProposalOf(r) IN
    /\ req[r].pc \in SignPcs =>
         row[p].status = req[r].seen /\ row[p].status \in {"created", "signing"}
    /\ At(r, "expire") => row[p].status \in PendingStatuses
    /\ req[r].pc \in SubmitPcs => row[p].status = "ready"
    /\ req[r].pc \in {"refresh.check", "refresh.updateStatus"} => row[p].status = "submitted"
    /\ At(r, "refresh.confirmMember") => row[p].status = "committed"
    /\ At(r, "refresh.removeMember") =>
         row[p].status = IF detail[p].kind = "add_member" THEN "failed" ELSE "committed"

\* Members are founders, or the proposal that added them is committed for good.
StandingInv ==
  \A a \in Accounts : member[a] = "confirmed" =>
    a \in Founders \/ \E p \in Proposals : Adds(p, a) /\ row[p].status = "committed"

MembersInv == StandingInv /\ \A r \in Requests : TurnInv(r)

-----------------------------------------------------------------------------
(* What is true besides where they also run to their end.                    *)

OneByOne == ~ Faults /\ Alone

\* Between the hand-over and the record of it the row still says ready.
Sending(p) == \E r \in Requests : At(r, "submit.setSubmitted") /\ ProposalOf(r) = p

HandedInv(p) ==
  /\ HandedOnce(p)
  /\ Handed(p) # {} => row[p].status \in {"submitted", "committed", "failed"} \/ Sending(p)

TurnsInv ==
  /\ \A p \in Proposals : HandedInv(p)
  /\ \A r \in Requests : TurnInv(r)
=============================================================================
