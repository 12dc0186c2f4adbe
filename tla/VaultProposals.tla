--------------------------- MODULE VaultProposals ---------------------------
(***************************************************************************)
(* The vault-proposal handlers of the server (handlers/proposals.ts) as    *)
(* the concurrent programs they are.  A handler is a generator whose every *)
(* yield* to the database or to the Gateway is a point where other         *)
(* requests run; it keeps the row it read first and acts on that copy.     *)
(* Each slot of `req' serves one request at a time: an action is one such  *)
(* call together with the local computation that follows it.               *)
(*                                                                         *)
(* A request that is turned away by the row it reads, without writing      *)
(* anything, is a stuttering step and has no action.                       *)
(***************************************************************************)
EXTENDS ProposalRepo

CONSTANTS
  Requests,   \* slots for requests in flight (bounds the concurrency)
  Faults      \* whether a request may be cut short between two calls

ASSUME FaultsAssumption == Faults \in BOOLEAN

VARIABLE req  \* [Requests -> RequestType], the requests in flight

vars == <<ledgerVars, repoVars, req>>

SignPcs == {"sign.isExpired", "sign.validate", "sign.addSignature",
            "sign.getSignatures", "sign.updateStatus"}

SubmitPcs == {"submit.isExpired", "submit.getSignatures", "submit.validate",
              "submit.invalidate", "submit.send", "submit.setSubmitted"}

RefreshPcs == {"refresh.check", "refresh.updateStatus"}

Pcs == {"idle", "expire"} \cup SignPcs \cup SubmitPcs \cup RefreshPcs

RequestType ==
  [pc : Pcs,
   proposal : Proposals \cup {Null},
   account : Accounts \cup {Null},     \* sign: the session's account
   key : Keys \cup {Null},             \* sign: the key of the signed partial
   seen : Statuses \cup {Null},        \* sign: the status read by getById
   rule : Rules \cup {Null},           \* the rule validate returned
   sigs : SUBSET SignatureType,        \* submit: what getSignatures returned
   hash : Intents \cup {Null},         \* the intent submitted, or asked about
   write : Statuses \cup {Null}]       \* the status about to be written

Idle == [pc |-> "idle", proposal |-> Null, account |-> Null, key |-> Null,
         seen |-> Null, rule |-> Null, sigs |-> {}, hash |-> Null, write |-> Null]

TypeOK ==
  /\ LedgerTypeOK
  /\ RepoTypeOK
  /\ req \in [Requests -> RequestType]

Init ==
  /\ LedgerInit
  /\ RepoInit
  /\ req = [r \in Requests |-> Idle]

-----------------------------------------------------------------------------
(* Slots. *)

At(r, pc) == req[r].pc = pc

Begin(r, local) == req' = [req EXCEPT ![r] = local]

Goto(r, pc) == req' = [req EXCEPT ![r].pc = pc]

Finish(r) == req' = [req EXCEPT ![r] = Idle]

ProposalOf(r) == req[r].proposal

RuleOf(p) == rule[row[p].entity]

-----------------------------------------------------------------------------
(* create: preview, epoch and subintent leave no trace before the insert.  *)

Create(p, e, deadline) ==
  /\ Insert(p, e, deadline)
  /\ UNCHANGED <<ledgerVars, req>>

-----------------------------------------------------------------------------
(* sign *)

Signable(status) == status \in {"created", "signing"}

SignGetById(r, p, a, k) ==
  /\ At(r, "idle")
  /\ Signable(row[p].status)
  /\ Begin(r, [Idle EXCEPT !.pc = "sign.isExpired", !.proposal = p,
                           !.account = a, !.key = k, !.seen = row[p].status])
  /\ UNCHANGED <<ledgerVars, repoVars>>

SignIsExpired(r) ==
  /\ At(r, "sign.isExpired")
  /\ Goto(r, IF IsExpired(ProposalOf(r)) THEN "expire" ELSE "sign.validate")
  /\ UNCHANGED <<ledgerVars, repoVars>>

\* setTerminalStatus 'expired', reached from sign and from submit.
Expire(r) ==
  /\ At(r, "expire")
  /\ UpdateStatus(ProposalOf(r), "expired")
  /\ Finish(r)
  /\ UNCHANGED ledgerVars

\* VARIANT: any key may sign.
SignValidateAnyKey(r) ==
  /\ At(r, "sign.validate")
  /\ req' = [req EXCEPT ![r].pc = "sign.addSignature",
                        ![r].rule = RuleOf(ProposalOf(r))]
  /\ UNCHANGED <<ledgerVars, repoVars>>

SignValidate(r) ==
  /\ At(r, "sign.validate")
  /\ LET ru == RuleOf(ProposalOf(r)) IN
       IF req[r].key \in ru.signers
         THEN req' = [req EXCEPT ![r].pc = "sign.addSignature", ![r].rule = ru]
         ELSE Finish(r)
  /\ UNCHANGED <<ledgerVars, repoVars>>

SignAddSignature(r) ==
  /\ At(r, "sign.addSignature")
  /\ \/ /\ AddSignature(ProposalOf(r), req[r].account, req[r].key)
        /\ Goto(r, "sign.getSignatures")
     \/ /\ HasSigned(ProposalOf(r), req[r].account)
        /\ Finish(r)
        /\ UNCHANGED repoVars
  /\ UNCHANGED ledgerVars

\* VARIANT: one signature short counts as enough.
StatusAfterSignEarly(sigs, ru, seen) ==
  IF Cardinality(sigs) + 1 >= Threshold(ru) THEN "ready"
  ELSE IF seen = "created" THEN "signing" ELSE Null

\* VARIANT: the first signature never completes a proposal.
StatusAfterFirstSign(sigs, ru, seen) ==
  IF seen = "created" THEN "signing"
  ELSE IF Cardinality(sigs) >= Threshold(ru) THEN "ready" ELSE Null

\* The status sign writes, if any: it looks at the signatures of now, the
\* threshold of the rule read before, and the status read first of all.
StatusAfterSign(sigs, ru, seen) ==
  IF Cardinality(sigs) >= Threshold(ru) THEN "ready"
  ELSE IF seen = "created" THEN "signing"
  ELSE Null

SignGetSignatures(r) ==
  /\ At(r, "sign.getSignatures")
  /\ LET s == StatusAfterSign(signature[ProposalOf(r)], req[r].rule, req[r].seen) IN
       IF s = Null
         THEN Finish(r)
         ELSE req' = [req EXCEPT ![r].pc = "sign.updateStatus", ![r].write = s]
  /\ UNCHANGED <<ledgerVars, repoVars>>

SignUpdateStatus(r) ==
  /\ At(r, "sign.updateStatus")
  /\ UpdateStatus(ProposalOf(r), req[r].write)
  /\ Finish(r)
  /\ UNCHANGED ledgerVars

-----------------------------------------------------------------------------
(* submit: a proposal already submitted or committed returns its hash.     *)

\* VARIANT: a proposal still collecting signatures may be submitted.
SubmittableWhileSigning(status) == status \in {"signing", "ready"}

\* VARIANT: a submitted proposal goes through submit again.
SubmittableAgain(status) == status \in {"ready", "submitted"}

Submittable(status) == status = "ready"

SubmitGetById(r, p) ==
  /\ At(r, "idle")
  /\ Submittable(row[p].status)
  /\ Begin(r, [Idle EXCEPT !.pc = "submit.isExpired", !.proposal = p])
  /\ UNCHANGED <<ledgerVars, repoVars>>

SubmitIsExpired(r) ==
  /\ At(r, "submit.isExpired")
  /\ Goto(r, IF IsExpired(ProposalOf(r)) THEN "expire" ELSE "submit.getSignatures")
  /\ UNCHANGED <<ledgerVars, repoVars>>

SubmitGetSignatures(r) ==
  /\ At(r, "submit.getSignatures")
  /\ req' = [req EXCEPT ![r].pc = "submit.validate",
                        ![r].sigs = signature[ProposalOf(r)]]
  /\ UNCHANGED <<ledgerVars, repoVars>>

\* Signatures are counted against the threshold of now; that their keys are
\* still signers of the rule is not looked at.
EnoughToSubmit(sigs, ru) == Cardinality(sigs) >= Threshold(ru)

SubmitValidate(r) ==
  /\ At(r, "submit.validate")
  /\ LET ru == RuleOf(ProposalOf(r)) IN
       req' = [req EXCEPT ![r].rule = ru,
                 ![r].pc = IF EnoughToSubmit(req[r].sigs, ru)
                             THEN "submit.send" ELSE "submit.invalidate"]
  /\ UNCHANGED <<ledgerVars, repoVars>>

SubmitInvalidate(r) ==
  /\ At(r, "submit.invalidate")
  /\ UpdateStatus(ProposalOf(r), "invalid")
  /\ Finish(r)
  /\ UNCHANGED ledgerVars

\* The Gateway accepts the transaction, or the call fails before it does
\* (a failure after it did is Abort at "submit.setSubmitted").
SubmitSend(r) ==
  /\ At(r, "submit.send")
  /\ \/ \E i \in Intents :
          /\ SubmitWithSubintent(i, ProposalOf(r), KeysOf(req[r].sigs))
          /\ req' = [req EXCEPT ![r].pc = "submit.setSubmitted", ![r].hash = i]
     \/ Finish(r) /\ UNCHANGED intent
  /\ UNCHANGED <<rule, past, now, repoVars>>

SubmitSetSubmitted(r) ==
  /\ At(r, "submit.setSubmitted")
  /\ SetSubmitted(ProposalOf(r), req[r].hash)
  /\ Finish(r)
  /\ UNCHANGED ledgerVars

-----------------------------------------------------------------------------
(* refreshStatus: settled proposals return what they have.                 *)

Refreshable(p) == row[p].status = "submitted" /\ row[p].hash # Null

RefreshGetById(r, p) ==
  /\ At(r, "idle")
  /\ Refreshable(p)
  /\ Begin(r, [Idle EXCEPT !.pc = "refresh.check", !.proposal = p,
                           !.hash = row[p].hash])
  /\ UNCHANGED <<ledgerVars, repoVars>>

\* VARIANT: whatever is not a success is a failure.
StatusPessimistic(reported) ==
  IF reported = "CommittedSuccess" THEN "committed" ELSE "failed"

\* The status refreshStatus writes for what the Gateway reports, if any.
StatusAfterCheck(reported) ==
  CASE reported = "CommittedSuccess" -> "committed"
    [] reported \in {"CommittedFailure", "Rejected"} -> "failed"
    [] OTHER -> Null

RefreshCheck(r) ==
  /\ At(r, "refresh.check")
  /\ \E reported \in View(intent[req[r].hash].state) :
       LET s == StatusAfterCheck(reported) IN
         IF s = Null
           THEN Finish(r)
           ELSE req' = [req EXCEPT ![r].pc = "refresh.updateStatus", ![r].write = s]
  /\ UNCHANGED <<ledgerVars, repoVars>>

RefreshUpdateStatus(r) ==
  /\ At(r, "refresh.updateStatus")
  /\ UpdateStatus(ProposalOf(r), req[r].write)
  /\ Finish(r)
  /\ UNCHANGED ledgerVars

-----------------------------------------------------------------------------
(* The dashboard's sweep, failures of the server, and the environment.     *)

ListAllPending(r) ==
  /\ At(r, "idle")
  /\ ExpirePending
  /\ UNCHANGED <<ledgerVars, req>>

\* The process stops, the client goes away, or a database call dies: the
\* rest of the handler never runs.
Abort(r) ==
  /\ Faults
  /\ ~ At(r, "idle")
  /\ Finish(r)
  /\ UNCHANGED <<ledgerVars, repoVars>>

LedgerStep ==
  /\ \/ \E i \in Intents, p \in Proposals :
          /\ intent[i].proposal = p
          /\ Execute(i, {row[p].entity}, row[p].deadline)
          /\ UNCHANGED <<rule, past, now>>
     \/ \E i \in Intents : Refuse(i) /\ UNCHANGED <<rule, past, now>>
     \/ \E e \in Entities : ChangeRule(e) /\ UNCHANGED <<intent, now>>
     \/ Tick /\ UNCHANGED <<rule, past, intent>>
  /\ UNCHANGED <<repoVars, req>>

-----------------------------------------------------------------------------
Sign(r) ==
  \/ SignIsExpired(r) \/ SignValidate(r) \/ SignAddSignature(r)
  \/ SignGetSignatures(r) \/ SignUpdateStatus(r)

Submit(r) ==
  \/ SubmitIsExpired(r) \/ SubmitGetSignatures(r) \/ SubmitValidate(r)
  \/ SubmitInvalidate(r) \/ SubmitSend(r) \/ SubmitSetSubmitted(r)

Refresh(r) == RefreshCheck(r) \/ RefreshUpdateStatus(r)

\* A request in flight runs on.
Continue(r) == Expire(r) \/ Sign(r) \/ Submit(r) \/ Refresh(r)

\* A request arrives and its first query is answered.
Arrive(r) ==
  \/ \E p \in Proposals :
       \/ \E a \in Accounts, k \in Keys : SignGetById(r, p, a, k)
       \/ SubmitGetById(r, p)
       \/ RefreshGetById(r, p)
  \/ ListAllPending(r)

Next ==
  \/ \E p \in Proposals, e \in Entities, d \in Deadlines : Create(p, e, d)
  \/ \E r \in Requests : Arrive(r) \/ Continue(r) \/ Abort(r)
  \/ LedgerStep

Spec == Init /\ [][Next]_vars

\* The runtime resumes every fiber whose call has returned.
Fairness == \A r \in Requests : WF_vars(Continue(r))

FairSpec == Spec /\ Fairness

-----------------------------------------------------------------------------
(* Safety under every interleaving, with faults and changing rules.        *)

Met(p, sigs) ==
  \E ru \in past[row[p].entity] : Cardinality(sigs) >= Threshold(ru)

WasSigner(p, k) == \E ru \in past[row[p].entity] : k \in ru.signers

\* A proposal never gets past signing on fewer signatures than some rule its
\* vault has had asked for, in whatever order sign, submit, refreshStatus and
\* the sweep overwrite each other's status, and whichever of them is cut short.
QuorumWasReached ==
  \A p \in Proposals : row[p].status \in PastReady => Met(p, signature[p])

\* Every transaction submit hands to the Gateway carries a set of signatures
\* that are on record, that met a threshold of the vault, and whose keys were
\* all signers of the vault when sign accepted them.
IntentsAreBacked ==
  \A i \in Intents, p \in Proposals : intent[i].proposal = p =>
    /\ \E sigs \in SUBSET signature[p] : Met(p, sigs) /\ intent[i].keys = KeysOf(sigs)
    /\ \A k \in intent[i].keys : WasSigner(p, k)

\* submit marks a proposal invalid only if the threshold of its vault really
\* rose: with rules that keep their threshold no interleaving of signers and
\* submitters can make a ready proposal invalid.
InvalidMeansDrift ==
  \A p \in Proposals : row[p].status = "invalid" =>
    \E low, high \in past[row[p].entity] : Threshold(low) < Threshold(high)

-----------------------------------------------------------------------------
(* What the glossary promises, where requests take turns and run to their   *)
(* end.  Where they overlap or are cut short none of it holds.              *)

\* Every step of the handlers is a step of the glossary's state machine:
\* statuses move along its edges only, a proposal is handed to the ledger out
\* of ready, and committed and failed report the ledger's one verdict.
ImplementsGlossary == Glossary!Spec

\* Signatures that meet every rule the vault has had.
HasQuorum(p) ==
  /\ row[p].status # "absent"
  /\ \A ru \in past[row[p].entity] : Cardinality(signature[p]) >= Threshold(ru)

\* Submitting is idempotent (progress.txt:75): however often submit is called,
\* a proposal is handed to the Gateway as one transaction.
OneTransaction ==
  \A p \in Proposals : Cardinality(Handed(p)) <= 1

\* A quorum of recorded signatures does not leave a proposal waiting for
\* signatures for ever.
QuorumLeadsOn ==
  \A p \in Proposals :
    HasQuorum(p) ~> row[p].status \notin {"created", "signing"}
=============================================================================
