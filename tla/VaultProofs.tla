---------------------------- MODULE VaultProofs ----------------------------
(***************************************************************************)
(* The safety properties of VaultProposals hold for any number of          *)
(* proposals, vaults, rules, accounts, keys, intents and requests in       *)
(* flight, with or without faults.                                         *)
(***************************************************************************)
EXTENDS VaultInvariant, ProposalRepoProofs

USE NullAssumption, NullColumnAssumption

-----------------------------------------------------------------------------
(* Types *)

ReqTypeOK == req \in [Requests -> RequestType]

\* An empty slot, and a slot whose local variables are reset or assigned one
\* by one, are well typed.
LEMMA SlotTypes ==
  ASSUME ReqTypeOK, NEW r \in Requests
  PROVE  /\ Finish(r) => ReqTypeOK'
         /\ \A pc \in Pcs : Goto(r, pc) => ReqTypeOK'
         /\ \A pc \in Pcs, ru \in Rules :
              req' = [req EXCEPT ![r].pc = pc, ![r].rule = ru] => ReqTypeOK'
         /\ \A pc \in Pcs, ru \in Rules :
              req' = [req EXCEPT ![r].rule = ru, ![r].pc = pc] => ReqTypeOK'
         /\ \A pc \in Pcs, s \in Statuses :
              req' = [req EXCEPT ![r].pc = pc, ![r].write = s] => ReqTypeOK'
         /\ \A pc \in Pcs, i \in Intents :
              req' = [req EXCEPT ![r].pc = pc, ![r].hash = i] => ReqTypeOK'
         /\ \A pc \in Pcs, sigs \in SUBSET SignatureType :
              req' = [req EXCEPT ![r].pc = pc, ![r].sigs = sigs] => ReqTypeOK'
<1>1. Idle \in RequestType
  BY DEF Idle, RequestType, Pcs
<1>2. Finish(r) => ReqTypeOK'
  BY <1>1 DEF Finish, ReqTypeOK
<1> QED
  BY <1>2 DEF ReqTypeOK, RequestType, Goto

\* Every step keeps the variables in their types: what a handler writes is a
\* status, an account, a key or an intent because of what its program point
\* knows, not because of the type of its local variables.
LEMMA TypeStep == IInv /\ [Next]_vars => TypeOK'
<1> SUFFICES ASSUME IInv, [Next]_vars PROVE TypeOK'
  OBVIOUS
<1>0. TypeOK /\ ReqTypeOK /\ RowTypeOK
  BY DEF IInv, TypeOK, RepoTypeOK, ReqTypeOK, RowTypeOK
<1>a. ReqTypeOK' /\ RowTypeOK' /\ UNCHANGED <<signature, ledgerVars>> => TypeOK'
  BY <1>0 DEF TypeOK, RepoTypeOK, LedgerTypeOK, ReqTypeOK, RowTypeOK, ledgerVars
<1>b. ReqTypeOK' /\ UNCHANGED <<repoVars, ledgerVars>> => TypeOK'
  BY <1>0, <1>a DEF RowTypeOK, repoVars
<1>c. UNCHANGED req => ReqTypeOK'
  BY <1>0 DEF ReqTypeOK
<1>1. ASSUME NEW p \in Proposals, NEW e \in Entities, NEW d \in Deadlines,
             Create(p, e, d)
      PROVE  TypeOK'
  BY <1>0, <1>1, <1>a, <1>c, RowTypes DEF Create, Insert
<1>2. ASSUME NEW r \in Requests, Arrive(r)
      PROVE  TypeOK'
  <2>1. ASSUME NEW p \in Proposals, NEW a \in Accounts, NEW k \in Keys,
               SignGetById(r, p, a, k)
        PROVE  TypeOK'
    BY <1>0, <2>1, <1>b DEF SignGetById, Begin, Idle, ReqTypeOK, RequestType, Pcs,
         SignPcs, Signable, Statuses, PendingStatuses
  <2>2. ASSUME NEW p \in Proposals, SubmitGetById(r, p)
        PROVE  TypeOK'
    BY <1>0, <2>2, <1>b DEF SubmitGetById, Begin, Idle, ReqTypeOK, RequestType, Pcs,
         SubmitPcs
  <2>3. ASSUME NEW p \in Proposals, RefreshGetById(r, p)
        PROVE  TypeOK'
    BY <1>0, <2>3, <1>b DEF RefreshGetById, Begin, Idle, ReqTypeOK, RequestType, Pcs,
         RefreshPcs, RowTypeOK, RowType
  <2>4. ASSUME ListAllPending(r)
        PROVE  TypeOK'
    BY <1>0, <2>4, <1>a, <1>c, RowTypes DEF ListAllPending, ExpirePending
  <2> QED
    BY <1>2, <2>1, <2>2, <2>3, <2>4 DEF Arrive
<1>3. ASSUME NEW r \in Requests, Continue(r)
      PROVE  TypeOK'
  <2>0. RequestInv(r)
    BY DEF IInv
  <2>a. ~ At(r, "idle") => ProposalOf(r) \in Proposals
    BY <2>0 DEF RequestInv, ActiveInv
  <2>f. Finish(r) => ReqTypeOK'
    BY <1>0, SlotTypes
  <2>p. {"expire"} \cup SignPcs \cup SubmitPcs \cup RefreshPcs \subseteq Pcs
    BY DEF Pcs
  <2>s. {"expired", "invalid", "ready", "signing", "committed", "failed"} \subseteq Statuses
    BY DEF Statuses, PendingStatuses, TerminalStatuses
  <2>r. ASSUME NEW p \in Proposals, row[p].status # "absent"
        PROVE  RuleOf(p) \in Rules
    BY <1>0, <2>r DEF IInv, RowInv, RuleOf, TypeOK, LedgerTypeOK
  <2>1. CASE Expire(r)
    BY <2>1, <1>0, <1>a, <2>a, <2>f, <2>s, RowTypes DEF Expire, UpdateStatus, At
  <2>2. CASE SignIsExpired(r)
    BY <2>2, <1>0, <1>b, <2>p, SlotTypes DEF SignIsExpired, SignPcs
  <2>3. CASE SignValidate(r)
    <3>1. RuleOf(ProposalOf(r)) \in Rules
      BY <2>3, <2>0, <2>r DEF SignValidate, RequestInv, ActiveInv, At
    <3> QED
      BY <2>3, <3>1, <1>0, <1>b, <2>f, <2>p, SlotTypes DEF SignValidate, SignPcs
  <2>4. CASE SignAddSignature(r)
    <3>1. req[r].account \in Accounts /\ req[r].key \in Keys
      BY <2>4, <2>0 DEF SignAddSignature, RequestInv, SignInv, At, SignPcs
    <3>2. ReqTypeOK'
      BY <2>4, <1>0, <2>f, <2>p, SlotTypes DEF SignAddSignature, SignPcs
    <3>3. signature' \in [Proposals -> SUBSET SignatureType]
      BY <2>4, <3>1, <1>0 DEF SignAddSignature, AddSignature, SignatureType,
           repoVars, TypeOK, RepoTypeOK
    <3>4. UNCHANGED <<row, ledgerVars>>
      BY <2>4 DEF SignAddSignature, AddSignature, repoVars
    <3> QED
      BY <3>2, <3>3, <3>4, <1>0 DEF TypeOK, RepoTypeOK, LedgerTypeOK, ReqTypeOK, ledgerVars
  <2>5. CASE SignGetSignatures(r)
    <3> DEFINE s == StatusAfterSign(signature[ProposalOf(r)], req[r].rule, req[r].seen)
    <3>1. s # Null => s \in Statuses
      BY <2>s DEF StatusAfterSign
    <3> HIDE DEF s
    <3>2. IF s = Null THEN Finish(r)
          ELSE req' = [req EXCEPT ![r].pc = "sign.updateStatus", ![r].write = s]
      BY <2>5 DEF SignGetSignatures, s
    <3>3. ReqTypeOK'
      BY <3>1, <3>2, <1>0, <2>f, <2>p, SlotTypes DEF SignPcs
    <3> QED
      BY <2>5, <3>3, <1>b DEF SignGetSignatures
  <2>6. CASE SignUpdateStatus(r)
    <3>1. req[r].write \in Statuses
      BY <2>6, <2>0, <2>s DEF SignUpdateStatus, RequestInv, SignInv
    <3> QED
      BY <2>6, <3>1, <1>0, <1>a, <2>a, <2>f, RowTypes DEF SignUpdateStatus, UpdateStatus, At
  <2>7. CASE SubmitIsExpired(r)
    BY <2>7, <1>0, <1>b, <2>p, SlotTypes DEF SubmitIsExpired, SubmitPcs
  <2>8. CASE SubmitGetSignatures(r)
    <3>1. signature[ProposalOf(r)] \in SUBSET SignatureType
      BY <2>8, <2>0, <1>0 DEF SubmitGetSignatures, RequestInv, ActiveInv, At,
           TypeOK, RepoTypeOK
    <3> QED
      BY <2>8, <3>1, <1>0, <1>b, <2>p, SlotTypes DEF SubmitGetSignatures, SubmitPcs
  <2>9. CASE SubmitValidate(r)
    <3>1. RuleOf(ProposalOf(r)) \in Rules
      BY <2>9, <2>0, <2>r DEF SubmitValidate, RequestInv, ActiveInv, At
    <3> QED
      BY <2>9, <3>1, <1>0, <1>b, <2>p, SlotTypes DEF SubmitValidate, SubmitPcs
  <2>10. CASE SubmitInvalidate(r)
    BY <2>10, <1>0, <1>a, <2>a, <2>f, <2>s, RowTypes DEF SubmitInvalidate, UpdateStatus, At
  <2>11. CASE SubmitSend(r)
    <3>1. ProposalOf(r) \in Proposals /\ KeysOf(req[r].sigs) \subseteq Keys
      BY <2>11, <2>0, <1>0 DEF SubmitSend, RequestInv, ActiveInv, At, KeysOf,
           ReqTypeOK, RequestType, SignatureType
    <3>2. ReqTypeOK'
      BY <2>11, <1>0, <2>f, <2>p, SlotTypes DEF SubmitSend, SubmitPcs
    <3>3. intent' \in [Intents -> IntentType]
      BY <2>11, <3>1, <1>0 DEF SubmitSend, SubmitWithSubintent, IntentType,
           IntentStates, TypeOK, LedgerTypeOK
    <3> QED
      BY <2>11, <3>2, <3>3, <1>0 DEF SubmitSend, TypeOK, LedgerTypeOK, RepoTypeOK,
           ReqTypeOK, repoVars
  <2>12. CASE SubmitSetSubmitted(r)
    <3>1. req[r].hash \in Intents
      BY <2>12, <2>0 DEF SubmitSetSubmitted, RequestInv, SubmitInv
    <3> QED
      BY <2>12, <3>1, <1>0, <1>a, <2>a, <2>f, RowTypes DEF SubmitSetSubmitted, SetSubmitted, At
  <2>13. CASE RefreshCheck(r)
    <3>1. ASSUME NEW reported
          PROVE  StatusAfterCheck(reported) # Null => StatusAfterCheck(reported) \in Statuses
      BY <2>s DEF StatusAfterCheck
    <3>2. ReqTypeOK'
      BY <2>13, <3>1, <1>0, <2>f, <2>p, SlotTypes DEF RefreshCheck, RefreshPcs
    <3> QED
      BY <2>13, <3>2, <1>b DEF RefreshCheck
  <2>14. CASE RefreshUpdateStatus(r)
    <3>1. req[r].write \in Statuses
      BY <2>14, <2>0, <2>s DEF RefreshUpdateStatus, RequestInv, RefreshInv
    <3> QED
      BY <2>14, <3>1, <1>0, <1>a, <2>a, <2>f, RowTypes DEF RefreshUpdateStatus, UpdateStatus, At
  <2> QED
    BY <1>3, <2>1, <2>2, <2>3, <2>4, <2>5, <2>6, <2>7, <2>8, <2>9, <2>10, <2>11,
       <2>12, <2>13, <2>14 DEF Continue, Sign, Submit, Refresh
<1>4. ASSUME NEW r \in Requests, Abort(r)
      PROVE  TypeOK'
  BY <1>0, <1>4, <1>b, SlotTypes DEF Abort
<1>5. CASE LedgerStep
  <2> USE DEF TypeOK, LedgerTypeOK
  <2>1. ASSUME NEW i \in Intents, NEW p \in Proposals,
               Execute(i, {row[p].entity}, row[p].deadline)
        PROVE  intent' \in [Intents -> IntentType]
    BY <1>0, <2>1 DEF Execute, IntentType, IntentStates
  <2>2. ASSUME NEW i \in Intents, Refuse(i)
        PROVE  intent' \in [Intents -> IntentType]
    BY <1>0, <2>2 DEF Refuse, IntentType, IntentStates
  <2>3. ASSUME NEW e \in Entities, ChangeRule(e)
        PROVE  rule' \in [Entities -> Rules] /\ past' \in [Entities -> SUBSET Rules]
    BY <1>0, <2>3 DEF ChangeRule
  <2>4. Tick => now' \in 0 .. MaxTime
    BY <1>0, MaxTimeAssumption DEF Tick
  <2>5. LedgerTypeOK' /\ UNCHANGED <<repoVars, req>>
    BY <1>0, <1>5, <2>1, <2>2, <2>3, <2>4 DEF LedgerStep
  <2> QED
    BY <1>0, <2>5 DEF repoVars, RepoTypeOK
<1>6. CASE UNCHANGED vars
  BY <1>0, <1>6, <1>b, <1>c DEF vars
<1> QED
  BY <1>1, <1>2, <1>3, <1>4, <1>5, <1>6 DEF Next

-----------------------------------------------------------------------------
(* What never goes away *)

\* No statement of the server takes a fact off the record.
LEMMA RowsGrowStep == IInv /\ [Next]_vars => RowsGrow
<1> SUFFICES ASSUME IInv, [Next]_vars PROVE RowsGrow
  OBVIOUS
<1>0. RepoTypeOK /\ \A p \in Proposals : row[p].status = "absent" => row[p].hash = Null
  BY DEF IInv, TypeOK, RowInv
<1>a. UNCHANGED repoVars => RowsGrow
  BY <1>0 DEF repoVars, RowsGrow
<1>b. ASSUME NEW p \in Proposals, NEW s \in Statuses, UpdateStatus(p, s)
      PROVE  RowsGrow
  BY <1>0, <1>b, StatementsGrow
<1>1. ASSUME NEW p \in Proposals, NEW e \in Entities, NEW d \in Deadlines,
             Create(p, e, d)
      PROVE  RowsGrow
  BY <1>0, <1>1, StatementsGrow DEF Create
<1>2. ASSUME NEW r \in Requests, Arrive(r)
      PROVE  RowsGrow
  <2>1. CASE ListAllPending(r)
    <3>1. PICK p \in Proposals : Sweeps(p)
      BY <2>1 DEF ListAllPending, ExpirePending
    <3> QED
      BY <1>0, <2>1, StatementsGrow DEF ListAllPending
  <2>2. CASE UNCHANGED repoVars
    BY <2>2, <1>a
  <2> QED
    BY <1>2, <2>1, <2>2 DEF Arrive, SignGetById, SubmitGetById, RefreshGetById
<1>3. ASSUME NEW r \in Requests, Continue(r)
      PROVE  RowsGrow
  <2>0. RequestInv(r)
    BY DEF IInv
  <2>a. ~ At(r, "idle") => ProposalOf(r) \in Proposals
    BY <2>0 DEF RequestInv, ActiveInv
  <2>1. CASE Expire(r)
    BY <2>1, <2>a, <1>b, KnownStatuses DEF Expire, At
  <2>2. CASE SignAddSignature(r)
    BY <2>2, <2>a, <1>0, <1>a, StatementsGrow DEF SignAddSignature, At
  <2>3. CASE SignUpdateStatus(r)
    BY <2>0, <2>3, <2>a, <1>b, KnownStatuses DEF SignUpdateStatus, RequestInv, SignInv, At
  <2>4. CASE SubmitInvalidate(r)
    BY <2>4, <2>a, <1>b, KnownStatuses DEF SubmitInvalidate, At
  <2>5. CASE SubmitSetSubmitted(r)
    BY <2>0, <2>5, <2>a, <1>0, StatementsGrow DEF SubmitSetSubmitted, RequestInv, SubmitInv, At
  <2>6. CASE RefreshUpdateStatus(r)
    BY <2>0, <2>6, <2>a, <1>b, KnownStatuses DEF RefreshUpdateStatus, RequestInv,
       RefreshInv, At
  <2>7. CASE UNCHANGED repoVars
    BY <2>7, <1>a
  <2> QED
    BY <1>3, <2>1, <2>2, <2>3, <2>4, <2>5, <2>6, <2>7 DEF Continue, Sign, Submit,
       Refresh, SignIsExpired, SignValidate, SignGetSignatures, SubmitIsExpired,
       SubmitGetSignatures, SubmitValidate, SubmitSend, RefreshCheck, repoVars
<1>4. ASSUME NEW r \in Requests, Abort(r)
      PROVE  RowsGrow
  BY <1>4, <1>a DEF Abort
<1>5. CASE UNCHANGED vars
  BY <1>5, <1>a DEF vars
<1>6. CASE LedgerStep
  BY <1>6, <1>a DEF LedgerStep
<1> QED
  BY <1>1, <1>2, <1>3, <1>4, <1>5, <1>6 DEF Next

\* The ledger does not go back on an intent, a rule it has had, or time.
LEMMA LedgerGrowsStep ==
  IInv /\ [Next]_vars =>
    IntentsGrow /\ now <= now' /\ \A e \in Entities : past[e] \subseteq past'[e]
<1> SUFFICES ASSUME IInv, [Next]_vars
             PROVE  /\ IntentsGrow
                    /\ now <= now'
                    /\ \A e \in Entities : past[e] \subseteq past'[e]
  OBVIOUS
<1>0. LedgerTypeOK /\ LedgerInv
      /\ \A i \in Intents : intent[i].state = "absent" => intent[i].proposal = Null
  BY DEF IInv, TypeOK, LedgerInv
<1>n. now <= now
  BY <1>0 DEF LedgerTypeOK
<1>1. CASE UNCHANGED ledgerVars
  BY <1>1, <1>n DEF ledgerVars, IntentsGrow
<1>2. ASSUME NEW r \in Requests, SubmitSend(r)
      PROVE  IntentsGrow /\ UNCHANGED <<past, now>>
  BY <1>2, <1>0, VerdictsGrow DEF SubmitSend, IntentsGrow
<1>3. CASE LedgerStep
  <2>1. ASSUME NEW e \in Entities, ChangeRule(e)
        PROVE  \A f \in Entities : past[f] \subseteq past'[f]
    BY <2>1, <1>0 DEF ChangeRule, LedgerTypeOK
  <2>2. Tick => now <= now'
    BY <1>0, MaxTimeAssumption DEF Tick, LedgerTypeOK
  <2>3. UNCHANGED intent => IntentsGrow
    BY DEF IntentsGrow
  <2> QED
    BY <1>0, <1>3, <1>n, <2>1, <2>2, <2>3, VerdictsGrow DEF LedgerStep
<1>4. ASSUME NEW r \in Requests, Continue(r), ~ SubmitSend(r)
      PROVE  UNCHANGED ledgerVars
  BY <1>4 DEF Continue, Sign, Submit, Refresh, Expire, SignIsExpired, SignValidate,
     SignAddSignature, SignGetSignatures, SignUpdateStatus, SubmitIsExpired,
     SubmitGetSignatures, SubmitValidate, SubmitInvalidate, SubmitSetSubmitted,
     RefreshCheck, RefreshUpdateStatus
<1>5. ASSUME NEW r \in Requests, Arrive(r) \/ Abort(r)
      PROVE  UNCHANGED ledgerVars
  BY <1>5 DEF Arrive, SignGetById, SubmitGetById, RefreshGetById, ListAllPending, Abort
<1>6. ASSUME NEW p \in Proposals, NEW e \in Entities, NEW d \in Deadlines,
             Create(p, e, d)
      PROVE  UNCHANGED ledgerVars
  BY <1>6 DEF Create
<1> QED
  BY <1>1, <1>2, <1>3, <1>4, <1>5, <1>6, <1>n DEF Next, vars

\* Every step is growth: of the rows, of their signatures and of the ledger.
LEMMA GrowsStep == IInv /\ [Next]_vars => Grows
BY RowsGrowStep, LedgerGrowsStep DEF Grows

-----------------------------------------------------------------------------
(* Counting signatures *)

\* A set of signatures that met a threshold of the vault still does when more
\* signatures and more rules have come on record.
LEMMA MetGrows ==
  ASSUME IInv, Grows, NEW p \in Proposals, row[p].status # "absent",
         NEW S, NEW T, S \subseteq T, IsFiniteSet(T), Met(p, S)
  PROVE  Met(p, T) /\ Met(p, T)'
<1>1. PICK ru \in past[row[p].entity] : Cardinality(S) >= Threshold(ru)
  BY DEF Met
<1>2. row[p].entity \in Entities /\ ru \in Rules
  BY <1>1 DEF IInv, RowInv, TypeOK, LedgerTypeOK
<1>3. Cardinality(T) >= Threshold(ru)
  <2>1. /\ Cardinality(S) \in Nat /\ Cardinality(T) \in Nat
        /\ Cardinality(S) <= Cardinality(T)
    BY FS_Subset, FS_CardinalityType
  <2> QED
    BY <2>1, <1>1, <1>2, ThresholdType
<1>4. ru \in past'[row'[p].entity]
  BY <1>1, <1>2 DEF Grows, RowsGrow
<1> QED
  BY <1>1, <1>3, <1>4 DEF Met

-----------------------------------------------------------------------------
(* What a step does to one signature set, one row, one intent *)

\* A signature appears only when sign inserts it.
LEMMA SignatureStep ==
  IInv /\ [Next]_vars =>
    \A p \in Proposals :
      \/ signature'[p] = signature[p]
      \/ \E r \in Requests :
           /\ At(r, "sign.addSignature") /\ ProposalOf(r) = p
           /\ signature'[p] = signature[p] \cup
                {[account |-> req[r].account, key |-> req[r].key]}
<1> SUFFICES ASSUME IInv, [Next]_vars, NEW p \in Proposals
             PROVE  \/ signature'[p] = signature[p]
                    \/ \E r \in Requests :
                         /\ At(r, "sign.addSignature") /\ ProposalOf(r) = p
                         /\ signature'[p] = signature[p] \cup
                              {[account |-> req[r].account, key |-> req[r].key]}
  OBVIOUS
<1>0. signature \in [Proposals -> SUBSET SignatureType]
  BY DEF IInv, TypeOK, RepoTypeOK
<1>1. ASSUME NEW r \in Requests, SignAddSignature(r)
      PROVE  \/ signature'[p] = signature[p]
             \/ /\ At(r, "sign.addSignature") /\ ProposalOf(r) = p
                /\ signature'[p] = signature[p] \cup
                     {[account |-> req[r].account, key |-> req[r].key]}
  BY <1>1, <1>0 DEF SignAddSignature, AddSignature, repoVars
<1>2. ASSUME NEW r \in Requests, Continue(r), ~ SignAddSignature(r)
      PROVE  UNCHANGED signature
  BY <1>2 DEF Continue, Sign, Submit, Refresh, Expire, SignIsExpired, SignValidate,
     SignGetSignatures, SignUpdateStatus, SubmitIsExpired, SubmitGetSignatures,
     SubmitValidate, SubmitInvalidate, SubmitSend, SubmitSetSubmitted, RefreshCheck,
     RefreshUpdateStatus, UpdateStatus, SetSubmitted, repoVars
<1>3. ASSUME NEW r \in Requests, Arrive(r) \/ Abort(r)
      PROVE  UNCHANGED signature
  BY <1>3 DEF Arrive, SignGetById, SubmitGetById, RefreshGetById, ListAllPending,
     ExpirePending, Abort, repoVars
<1>4. ASSUME NEW q \in Proposals, NEW e \in Entities, NEW d \in Deadlines,
             Create(q, e, d)
      PROVE  UNCHANGED signature
  BY <1>4 DEF Create, Insert
<1>5. LedgerStep \/ UNCHANGED vars => UNCHANGED signature
  BY DEF LedgerStep, vars, repoVars
<1> QED
  BY <1>1, <1>2, <1>3, <1>4, <1>5 DEF Next

\* Inserting a signature leaves finitely many of them, so they can be counted.
LEMMA FiniteSignatures ==
  IInv /\ [Next]_vars => \A p \in Proposals : IsFiniteSet(signature'[p])
<1> SUFFICES ASSUME IInv, [Next]_vars, NEW p \in Proposals
             PROVE  IsFiniteSet(signature'[p])
  OBVIOUS
<1>1. IsFiniteSet(signature[p])
  BY DEF IInv, RowInv
<1>2. ASSUME NEW x PROVE IsFiniteSet(signature[p] \cup {x})
  BY <1>1, FS_AddElement
<1> QED
  BY <1>1, <1>2, SignatureStep

\* A row is written only when it is inserted, with a status the writer is
\* entitled to, or with an intent that was handed over for it.
RowWrite(p) ==
  \/ row'[p] = row[p]
  \/ /\ row[p].status = "absent"
     /\ \E e \in Entities, d \in Deadlines :
          row'[p] = [status |-> "created", entity |-> e, deadline |-> d, hash |-> Null]
  \/ \E s \in Statuses :
       /\ row[p].status # "absent" /\ Justified(p, s)
       /\ row'[p] = [row[p] EXCEPT !.status = s]
  \/ \E i \in Intents :
       /\ row[p].status # "absent" /\ Met(p, signature[p]) /\ intent[i].proposal = p
       /\ row'[p] = [row[p] EXCEPT !.status = "submitted", !.hash = i]

\* Every write to a row is one a handler was entitled to when it wrote it.
LEMMA RowStep == IInv /\ [Next]_vars => \A p \in Proposals : RowWrite(p)
<1> SUFFICES ASSUME IInv, [Next]_vars, NEW p \in Proposals PROVE RowWrite(p)
  OBVIOUS
<1>0. row \in [Proposals -> RowType]
  BY DEF IInv, TypeOK, RepoTypeOK
<1>s. {"expired", "invalid", "ready", "signing", "committed", "failed"} \subseteq Statuses
  BY DEF Statuses, PendingStatuses, TerminalStatuses
<1>a. UNCHANGED row => RowWrite(p)
  BY DEF RowWrite
<1>b. ASSUME NEW q \in Proposals, NEW s \in Statuses, UpdateStatus(q, s),
             row[q].status # "absent", Justified(q, s)
      PROVE  RowWrite(p)
  BY <1>b, <1>0 DEF UpdateStatus, RowWrite
<1>1. ASSUME NEW q \in Proposals, NEW e \in Entities, NEW d \in Deadlines,
             Create(q, e, d)
      PROVE  RowWrite(p)
  BY <1>1, <1>0 DEF Create, Insert, RowWrite
<1>2. ASSUME NEW r \in Requests, Arrive(r)
      PROVE  RowWrite(p)
  <2>1. CASE ListAllPending(r)
    <3>1. Sweeps(p) => Justified(p, "expired") /\ row[p].status # "absent"
      BY DEF Sweeps, Justified, Lapsed, PastReady, PendingStatuses
    <3> QED
      BY <2>1, <3>1, <1>0, <1>s DEF ListAllPending, ExpirePending, RowWrite
  <2>2. CASE UNCHANGED row
    BY <2>2, <1>a
  <2> QED
    BY <1>2, <2>1, <2>2 DEF Arrive, SignGetById, SubmitGetById, RefreshGetById, repoVars
<1>3. ASSUME NEW r \in Requests, Continue(r)
      PROVE  RowWrite(p)
  <2>0. RequestInv(r)
    BY DEF IInv
  <2>a. ~ At(r, "idle") =>
          ProposalOf(r) \in Proposals /\ row[ProposalOf(r)].status # "absent"
    BY <2>0 DEF RequestInv, ActiveInv
  <2>1. CASE Expire(r)
    BY <2>1, <2>0, <2>a, <1>b, <1>s DEF Expire, RequestInv, ExpireInv, At
  <2>2. CASE SignUpdateStatus(r)
    BY <2>2, <2>0, <2>a, <1>b, <1>s DEF SignUpdateStatus, RequestInv, SignInv, At
  <2>3. CASE SubmitInvalidate(r)
    BY <2>3, <2>0, <2>a, <1>b, <1>s DEF SubmitInvalidate, RequestInv, SubmitInv, At
  <2>4. CASE SubmitSetSubmitted(r)
    <3> DEFINE q == ProposalOf(r)
               i == req[r].hash
    <3>1. /\ q \in Proposals /\ row[q].status # "absent"
          /\ i \in Intents /\ intent[i].proposal = q /\ Met(q, signature[q])
      BY <2>4, <2>0, <2>a DEF SubmitSetSubmitted, RequestInv, SubmitInv, At, SubmitPcs
    <3>2. row' = [row EXCEPT ![q].status = "submitted", ![q].hash = i]
      BY <2>4 DEF SubmitSetSubmitted, SetSubmitted
    <3> HIDE DEF q, i
    <3>3. row'[p] = IF p = q THEN [row[p] EXCEPT !.status = "submitted", !.hash = i]
                             ELSE row[p]
      BY <3>1, <3>2, <1>0
    <3> QED
      BY <3>1, <3>3 DEF RowWrite
  <2>5. CASE RefreshUpdateStatus(r)
    BY <2>5, <2>0, <2>a, <1>b, <1>s DEF RefreshUpdateStatus, RequestInv, RefreshInv, At
  <2>6. CASE UNCHANGED row
    BY <2>6, <1>a
  <2> QED
    BY <1>3, <2>1, <2>2, <2>3, <2>4, <2>5, <2>6 DEF Continue, Sign, Submit, Refresh,
       SignIsExpired, SignValidate, SignAddSignature, AddSignature, SignGetSignatures,
       SubmitIsExpired, SubmitGetSignatures, SubmitValidate, SubmitSend, RefreshCheck,
       repoVars
<1>4. ASSUME NEW r \in Requests, Abort(r)
      PROVE  RowWrite(p)
  BY <1>4, <1>a DEF Abort, repoVars
<1>5. LedgerStep \/ UNCHANGED vars => UNCHANGED row
  BY DEF LedgerStep, vars, repoVars
<1> QED
  BY <1>1, <1>2, <1>3, <1>4, <1>5, <1>a DEF Next

\* An intent appears when submit hands over signatures that are on record and
\* met a threshold; after that the ledger alone decides its state.
IntentWrite(i) ==
  \/ intent'[i] = intent[i]
  \/ /\ intent[i].proposal # Null
     /\ intent'[i].proposal = intent[i].proposal /\ intent'[i].keys = intent[i].keys
     /\ intent'[i].state # "absent"
  \/ \E p \in Proposals : \E sigs \in SUBSET signature[p] :
       /\ row[p].status # "absent" /\ Met(p, sigs)
       /\ intent'[i] = [state |-> "pending", proposal |-> p, keys |-> KeysOf(sigs)]

\* An intent changes only when submit hands it over or the ledger settles it.
LEMMA IntentStep == IInv /\ [Next]_vars => \A i \in Intents : IntentWrite(i)
<1> SUFFICES ASSUME IInv, [Next]_vars, NEW i \in Intents PROVE IntentWrite(i)
  OBVIOUS
<1>0. intent \in [Intents -> IntentType] /\ LedgerInv
  BY DEF IInv, TypeOK, LedgerTypeOK
<1>a. UNCHANGED intent => IntentWrite(i)
  BY DEF IntentWrite
<1>1. ASSUME NEW r \in Requests, SubmitSend(r)
      PROVE  IntentWrite(i)
  <2> DEFINE p == ProposalOf(r)
             sigs == req[r].sigs
  <2>1. /\ p \in Proposals /\ row[p].status # "absent"
        /\ sigs \in SUBSET signature[p] /\ Met(p, sigs)
    BY <1>1 DEF SubmitSend, IInv, RequestInv, ActiveInv, SubmitInv, At, SubmitPcs
  <2>2. \/ UNCHANGED intent
        \/ \E j \in Intents : intent' = [intent EXCEPT ![j] =
             [state |-> "pending", proposal |-> p, keys |-> KeysOf(sigs)]]
    BY <1>1 DEF SubmitSend, SubmitWithSubintent
  <2> HIDE DEF p, sigs
  <2> QED
    BY <2>1, <2>2, <1>0 DEF IntentWrite
<1>2. CASE LedgerStep
  <2>1. ASSUME NEW j \in Intents, NEW p \in Proposals,
               Execute(j, {row[p].entity}, row[p].deadline)
        PROVE  IntentWrite(i)
    BY <2>1, <1>0 DEF Execute, LedgerInv, IntentWrite, IntentType
  <2>2. ASSUME NEW j \in Intents, Refuse(j)
        PROVE  IntentWrite(i)
    BY <2>2, <1>0 DEF Refuse, LedgerInv, IntentWrite, IntentType
  <2> QED
    BY <1>2, <2>1, <2>2, <1>a DEF LedgerStep
<1>3. ASSUME NEW r \in Requests, Continue(r), ~ SubmitSend(r)
      PROVE  UNCHANGED intent
  BY <1>3 DEF Continue, Sign, Submit, Refresh, Expire, SignIsExpired, SignValidate,
     SignAddSignature, SignGetSignatures, SignUpdateStatus, SubmitIsExpired,
     SubmitGetSignatures, SubmitValidate, SubmitInvalidate, SubmitSetSubmitted,
     RefreshCheck, RefreshUpdateStatus, ledgerVars
<1>4. ASSUME NEW r \in Requests, Arrive(r) \/ Abort(r)
      PROVE  UNCHANGED intent
  BY <1>4 DEF Arrive, SignGetById, SubmitGetById, RefreshGetById, ListAllPending,
     Abort, ledgerVars
<1>5. ASSUME NEW p \in Proposals, NEW e \in Entities, NEW d \in Deadlines,
             Create(p, e, d)
      PROVE  UNCHANGED intent
  BY <1>5 DEF Create, ledgerVars
<1>6. UNCHANGED vars => UNCHANGED intent
  BY DEF vars, ledgerVars
<1> QED
  BY <1>1, <1>2, <1>3, <1>4, <1>5, <1>6, <1>a DEF Next

-----------------------------------------------------------------------------
(* The parts of the invariant, one by one *)

\* Whatever entitles a handler to write a status stays true.
LEMMA JustifiedGrows ==
  ASSUME IInv, TypeOK', Grows, NEW p \in Proposals, row[p].status # "absent",
         IsFiniteSet(signature'[p]), NEW s, Justified(p, s)
  PROVE  Justified(p, s)'
<1>1. s \in PastReady => Met(p, signature[p])'
  <2>1. signature[p] \subseteq signature'[p]
    BY DEF Grows, RowsGrow
  <2>2. ASSUME Met(p, signature[p]) PROVE Met(p, signature[p])'
    <3> DEFINE S == signature[p]
               T == signature'[p]
    <3>1. \E ru \in past'[row'[p].entity] : Cardinality(T) >= Threshold(ru)
      BY <2>1, <2>2, MetGrows DEF Met
    <3> QED
      BY <3>1 DEF Met
  <2> QED
    BY <2>2 DEF Justified
<1>2. s \in {"submitted", "committed", "failed"} => (row[p].hash # Null)'
  BY DEF Justified, Grows, RowsGrow
<1>4. s = "committed" => Executed(p)'
  BY VerdictsStay DEF Justified
<1>5. s = "failed" => (\E i \in Handed(p) : intent[i].state \in {"failure", "rejected"})'
  BY VerdictsStay DEF Justified
<1>6. s = "expired" => Lapsed(p)'
  BY LapsedStays DEF Justified, IInv, TypeOK
<1>7. s = "invalid" =>
        (\E low, high \in past[row[p].entity] : Threshold(low) < Threshold(high))'
  <2>1. past[row[p].entity] \subseteq past'[row'[p].entity]
    BY DEF Grows, RowsGrow, IInv, RowInv
  <2> QED
    BY <2>1 DEF Justified
<1> QED
  BY <1>1, <1>2, <1>4, <1>5, <1>6, <1>7 DEF Justified

\* Rules stay on record, and only submit, of a proposal that exists, hands
\* over intents.
LEMMA LedgerInvStep == IInv /\ Grows /\ [Next]_vars => LedgerInv'
<1> SUFFICES ASSUME IInv, Grows, [Next]_vars PROVE LedgerInv'
  OBVIOUS
<1>0. LedgerInv /\ LedgerTypeOK
  BY DEF IInv, TypeOK
<1>1. ASSUME NEW e \in Entities PROVE rule'[e] \in past'[e]
  <2>1. CASE UNCHANGED rule
    BY <2>1, <1>0 DEF LedgerInv, Grows
  <2>2. ASSUME NEW f \in Entities, ChangeRule(f) PROVE rule'[e] \in past'[e]
    BY <2>2, <1>0 DEF ChangeRule, LedgerInv, LedgerTypeOK
  <2>3. ASSUME NEW r \in Requests, Continue(r) PROVE UNCHANGED rule
    BY <2>3 DEF Continue, Sign, Submit, Refresh, Expire, SignIsExpired, SignValidate,
       SignAddSignature, SignGetSignatures, SignUpdateStatus, SubmitIsExpired,
       SubmitGetSignatures, SubmitValidate, SubmitInvalidate, SubmitSend,
       SubmitSetSubmitted, RefreshCheck, RefreshUpdateStatus, ledgerVars
  <2>4. ASSUME NEW r \in Requests, Arrive(r) \/ Abort(r) PROVE UNCHANGED rule
    BY <2>4 DEF Arrive, SignGetById, SubmitGetById, RefreshGetById, ListAllPending,
       Abort, ledgerVars
  <2>5. ASSUME NEW p \in Proposals, NEW f \in Entities, NEW d \in Deadlines,
               Create(p, f, d)
        PROVE  UNCHANGED rule
    BY <2>5 DEF Create, ledgerVars
  <2>6. LedgerStep => UNCHANGED rule \/ \E f \in Entities : ChangeRule(f)
    BY DEF LedgerStep
  <2>7. UNCHANGED vars => UNCHANGED rule
    BY DEF vars, ledgerVars
  <2> QED
    BY <2>1, <2>2, <2>3, <2>4, <2>5, <2>6, <2>7 DEF Next
<1>2. ASSUME NEW i \in Intents
      PROVE  IF intent'[i].proposal = Null
               THEN intent'[i].state = "absent"
               ELSE /\ intent'[i].state # "absent"
                    /\ row'[intent'[i].proposal].status # "absent"
  <2>1. IntentWrite(i)
    BY IntentStep
  <2>2. intent[i] \in IntentType
    BY <1>0 DEF LedgerTypeOK
  <2>3. CASE intent'[i] = intent[i]
    <3>1. \A p \in Proposals : row[p].status # "absent" => row'[p].status # "absent"
      BY DEF Grows, RowsGrow
    <3> QED
      BY <2>2, <2>3, <3>1, <1>0 DEF LedgerInv, IntentType
  <2>4. CASE /\ intent[i].proposal # Null
             /\ intent'[i].proposal = intent[i].proposal
             /\ intent'[i].state # "absent"
    <3>1. \A p \in Proposals : row[p].status # "absent" => row'[p].status # "absent"
      BY DEF Grows, RowsGrow
    <3>2. intent[i].proposal \in Proposals
      BY <2>2, <2>4 DEF IntentType
    <3> QED
      BY <2>4, <3>1, <3>2, <1>0 DEF LedgerInv
  <2>5. ASSUME NEW p \in Proposals, row[p].status # "absent", NEW sigs,
               intent'[i] = [state |-> "pending", proposal |-> p, keys |-> KeysOf(sigs)]
        PROVE  /\ intent'[i].proposal # Null
               /\ intent'[i].state # "absent"
               /\ row'[intent'[i].proposal].status # "absent"
    BY <2>5 DEF Grows, RowsGrow
  <2> QED
    BY <2>1, <2>3, <2>4, <2>5 DEF IntentWrite
<1> QED
  BY <1>1, <1>2 DEF LedgerInv

\* Each row keeps its invariant, whoever writes it and however late.
LEMMA RowInvStep ==
  ASSUME IInv, TypeOK', Grows, [Next]_vars, NEW p \in Proposals
  PROVE  RowInv(p)'
<1>0. /\ RowInv(p) /\ RowWrite(p) /\ row[p] \in RowType /\ row'[p] \in RowType
      /\ IsFiniteSet(signature'[p])
  BY RowStep, FiniteSignatures DEF IInv, TypeOK, RepoTypeOK
<1>f. \/ row'[p] = row[p]
      \/ /\ row[p].status = "absent" /\ row'[p].status = "created"
         /\ row'[p].entity \in Entities /\ row'[p].hash = Null
      \/ \E s \in Statuses :
           /\ row[p].status # "absent" /\ Justified(p, s) /\ row'[p].status = s
           /\ row'[p].entity = row[p].entity /\ row'[p].hash = row[p].hash
      \/ \E i \in Intents :
           /\ row[p].status # "absent" /\ Met(p, signature[p]) /\ intent[i].proposal = p
           /\ row'[p].status = "submitted"
           /\ row'[p].entity = row[p].entity /\ row'[p].hash = i
  <2>1. CASE row'[p] = row[p]
    BY <2>1
  <2>2. ASSUME NEW e \in Entities, NEW d \in Deadlines, row'[p] =
                 [status |-> "created", entity |-> e, deadline |-> d, hash |-> Null]
        PROVE  row'[p].status = "created" /\ row'[p].entity \in Entities /\ row'[p].hash = Null
    BY <2>2
  <2>3. ASSUME NEW s, row'[p] = [row[p] EXCEPT !.status = s]
        PROVE  /\ row'[p].status = s
               /\ row'[p].entity = row[p].entity /\ row'[p].hash = row[p].hash
    BY <2>3, <1>0 DEF RowType
  <2>4. ASSUME NEW i, row'[p] = [row[p] EXCEPT !.status = "submitted", !.hash = i]
        PROVE  /\ row'[p].status = "submitted"
               /\ row'[p].entity = row[p].entity /\ row'[p].hash = i
    BY <2>4, <1>0 DEF RowType
  <2> QED
    BY <1>0, <2>1, <2>2, <2>3, <2>4 DEF RowWrite
<1>1. row'[p].status = "absent" => row[p].status = "absent" /\ row'[p] = row[p]
  <2>1. "absent" \notin Statuses
    BY DEF Statuses, PendingStatuses, TerminalStatuses
  <2> QED
    BY <1>f, <2>1
<1>2. row'[p].status = "absent" => signature'[p] = {}
  <2>1. ASSUME NEW r \in Requests, At(r, "sign.addSignature"), ProposalOf(r) = p
        PROVE  row[p].status # "absent"
    BY <2>1 DEF IInv, RequestInv, ActiveInv, At
  <2> QED
    BY <2>1, <1>0, <1>1, SignatureStep DEF RowInv
<1>3. row'[p].status # "absent" => row'[p].entity \in Entities
  BY <1>0, <1>f DEF RowInv
<1>4. ASSUME NEW s \in signature'[p] PROVE WasSigner(p, s.key)'
  <2>1. row[p].status # "absent"
    BY <1>4, <1>0, <1>2, SignatureStep DEF IInv, RequestInv, ActiveInv, At, RowInv
  <2>2. past[row[p].entity] \subseteq past'[row'[p].entity]
    BY <2>1, <1>0 DEF Grows, RowsGrow, RowInv
  <2>3. CASE s \in signature[p]
    <3>1. PICK ru \in past[row[p].entity] : s.key \in ru.signers
      BY <2>3, <1>0 DEF RowInv, WasSigner
    <3> QED
      BY <3>1, <2>2 DEF WasSigner
  <2>4. CASE s \notin signature[p]
    <3>1. PICK r \in Requests : /\ At(r, "sign.addSignature") /\ ProposalOf(r) = p
                               /\ s = [account |-> req[r].account, key |-> req[r].key]
      BY <2>4, <1>4, SignatureStep
    <3>2. req[r].rule \in past[row[p].entity] /\ s.key \in req[r].rule.signers
      BY <3>1 DEF IInv, RequestInv, SignInv, At
    <3> QED
      BY <3>2, <2>2 DEF WasSigner
  <2> QED
    BY <2>3, <2>4
<1>5. row'[p].hash # Null => intent'[row'[p].hash].proposal = p
  <2>1. ASSUME NEW i \in Intents, intent[i].proposal = p PROVE intent'[i].proposal = p
    BY <2>1 DEF Grows, IntentsGrow
  <2>2. row[p].hash # Null => row[p].hash \in Intents /\ intent[row[p].hash].proposal = p
    BY <1>0 DEF RowInv, RowType
  <2> QED
    BY <1>f, <2>1, <2>2
<1>6. Justified(p, row[p].status)' 
  <2> DEFINE s == row'[p].status
  <2>1. CASE row[p].status = "absent"
    <3>1. s \in {"absent", "created"}
      BY <2>1, <1>f
    <3> QED
      BY <3>1 DEF Justified, PastReady
  <2>2. CASE row[p].status # "absent"
    <3>1. ASSUME NEW t, Justified(p, t), s = t
          PROVE  Justified(p, row[p].status)'
      <4>1. Justified(p, t)'
        BY <3>1, <2>2, <1>0, JustifiedGrows
      <4> QED
        BY <4>1, <3>1 DEF Justified
    <3>2. CASE s = row[p].status
      BY <3>1, <3>2, <1>0 DEF RowInv
    <3>3. ASSUME NEW t \in Statuses, Justified(p, t), s = t
          PROVE  Justified(p, row[p].status)'
      BY <3>1, <3>3
    <3>4. ASSUME NEW i \in Intents, Met(p, signature[p]), s = "submitted",
                 row'[p].hash = i
          PROVE  Justified(p, row[p].status)'
      <4>1. s = "submitted" /\ row'[p].hash # Null
        BY <3>4
      <4>2. Met(p, signature[p])'
        <5> DEFINE S == signature[p]
                   T == signature'[p]
        <5>1. S \subseteq T
          BY DEF Grows, RowsGrow
        <5>2. \E ru \in past'[row'[p].entity] : Cardinality(T) >= Threshold(ru)
          BY <5>1, <3>4, <2>2, <1>0, MetGrows DEF Met
        <5> QED
          BY <5>2 DEF Met
      <4> QED
        BY <4>1, <4>2 DEF Justified
    <3> QED
      BY <3>2, <3>3, <3>4, <2>2, <1>f
  <2> QED
    BY <2>1, <2>2
<1> QED
  BY <1>0, <1>1, <1>2, <1>3, <1>4, <1>5, <1>6 DEF RowInv

\* What submit hands over is backed when it does so, and stays backed.
LEMMA IntentsAreBackedStep ==
  IInv /\ Grows /\ [Next]_vars => IntentsAreBacked'
<1> SUFFICES ASSUME IInv, Grows, [Next]_vars,
                    NEW i \in Intents, NEW p \in Proposals, intent'[i].proposal = p
             PROVE  /\ (\E sigs \in SUBSET signature[p] :
                           Met(p, sigs) /\ intent[i].keys = KeysOf(sigs))'
                    /\ \A k \in intent'[i].keys : WasSigner(p, k)'
  BY DEF IntentsAreBacked
<1>1. PICK sigs \in SUBSET signature[p] :
        /\ row[p].status # "absent" /\ Met(p, sigs)
        /\ intent'[i].keys = KeysOf(sigs)
  <2>1. CASE intent[i].proposal = p
    <3>1. intent'[i].keys = intent[i].keys /\ row[p].status # "absent"
      BY <2>1 DEF Grows, IntentsGrow, IInv, LedgerInv
    <3> QED
      BY <2>1, <3>1 DEF IInv, IntentsAreBacked
  <2>2. CASE intent[i].proposal # p
    <3>1. IntentWrite(i)
      BY IntentStep
    <3>2. PICK q \in Proposals : \E S \in SUBSET signature[q] :
            /\ row[q].status # "absent" /\ Met(q, S)
            /\ intent'[i] = [state |-> "pending", proposal |-> q, keys |-> KeysOf(S)]
      BY <3>1, <2>2 DEF IntentWrite
    <3>3. q = p
      BY <3>2
    <3> QED
      BY <3>2, <3>3
  <2> QED
    BY <2>1, <2>2
<1>2. past[row[p].entity] \subseteq past'[row'[p].entity] /\ sigs \subseteq signature'[p]
  BY <1>1 DEF Grows, RowsGrow, IInv, RowInv
<1>3. (\E S \in SUBSET signature[p] : Met(p, S) /\ intent[i].keys = KeysOf(S))'
  <2>1. Met(p, sigs)'
    BY <1>1, <1>2 DEF Met
  <2> QED
    BY <1>1, <1>2, <2>1 DEF KeysOf
<1>4. ASSUME NEW k \in intent'[i].keys PROVE WasSigner(p, k)'
  <2>1. PICK s \in signature[p] : k = s.key
    BY <1>1, <1>4 DEF KeysOf
  <2>2. WasSigner(p, k)
    BY <2>1 DEF IInv, RowInv
  <2> QED
    BY <2>2, <1>2 DEF WasSigner
<1> QED
  BY <1>3, <1>4

-----------------------------------------------------------------------------
(* Requests in flight *)

\* What a handler knows of its proposal is still true after any step.
LEMMA KnowledgeGrows ==
  ASSUME IInv, TypeOK', Grows, [Next]_vars, NEW p \in Proposals, row[p].status # "absent"
  PROVE  /\ row'[p].status # "absent"
         /\ past[row[p].entity] \subseteq past'[row'[p].entity]
         /\ signature[p] \subseteq signature'[p]
         /\ row[p].hash # Null => row'[p].hash # Null
         /\ \A S : Met(p, S) => Met(p, S)'
         /\ Met(p, signature[p]) => Met(p, signature[p])'
         /\ \A s : Justified(p, s) => Justified(p, s)'
         /\ \A i \in Intents : intent[i].proposal = p => intent'[i].proposal = p
<1>1. /\ row'[p].status # "absent"
      /\ past[row[p].entity] \subseteq past'[row'[p].entity]
      /\ signature[p] \subseteq signature'[p]
      /\ row[p].hash # Null => row'[p].hash # Null
      /\ \A i \in Intents : intent[i].proposal = p => intent'[i].proposal = p
  BY DEF Grows, RowsGrow, IntentsGrow, IInv, RowInv
<1>2. \A S : Met(p, S) => Met(p, S)'
  BY <1>1 DEF Met
<1>3. IsFiniteSet(signature'[p])
  BY FiniteSignatures
<1>4. Met(p, signature[p]) => Met(p, signature[p])'
  <2> DEFINE T == signature'[p]
  <2> SUFFICES ASSUME Met(p, signature[p])
               PROVE  \E ru \in past'[row'[p].entity] : Cardinality(T) >= Threshold(ru)
    BY DEF Met
  <2> QED
    BY <1>1, <1>3, MetGrows DEF Met
<1>5. \A s : Justified(p, s) => Justified(p, s)'
  BY <1>3, JustifiedGrows
<1> QED
  BY <1>1, <1>2, <1>4, <1>5

\* A request whose slot a step leaves alone keeps its invariant, whatever the
\* step does to the tables and to the ledger.
LEMMA RequestStable ==
  ASSUME IInv, TypeOK', Grows, [Next]_vars, NEW r \in Requests, req'[r] = req[r]
  PROVE  RequestInv(r)'
<1> DEFINE p == ProposalOf(r)
<1>0. RequestInv(r)
  BY DEF IInv
<1>1. CASE At(r, "idle")
  BY <1>1 DEF At, RequestInv, ActiveInv, SignInv, SubmitInv, RefreshInv, ExpireInv,
     SignPcs, SubmitPcs, RefreshPcs
<1>2. CASE ~ At(r, "idle")
  <2>0. p \in Proposals /\ row[p].status # "absent" /\ ProposalOf(r)' = p
    BY <1>0, <1>2 DEF RequestInv, ActiveInv, ProposalOf
  <2>1. ActiveInv(r)'
    BY <2>0, KnowledgeGrows DEF ActiveInv
  <2>2. SignInv(r)'
    BY <1>0, <2>0, KnowledgeGrows DEF RequestInv, SignInv, At, ProposalOf
  <2>3. SubmitInv(r)'
    BY <1>0, <2>0, KnowledgeGrows DEF RequestInv, SubmitInv, At, ProposalOf
  <2>4. RefreshInv(r)'
    BY <1>0, <2>0, KnowledgeGrows DEF RequestInv, RefreshInv, At, ProposalOf
  <2>5. ExpireInv(r)'
    BY <1>0, <2>0, KnowledgeGrows DEF RequestInv, ExpireInv, At, ProposalOf
  <2> QED
    BY <2>1, <2>2, <2>3, <2>4, <2>5 DEF RequestInv
<1> QED
  BY <1>1, <1>2

\* An empty slot knows nothing.
LEMMA IdleInv == ASSUME NEW r, At(r, "idle")' PROVE RequestInv(r)'
BY DEF At, RequestInv, ActiveInv, SignInv, SubmitInv, RefreshInv, ExpireInv, SignPcs,
   SubmitPcs, RefreshPcs

\* The action that moves a request from one program point to the next, or ends
\* it, establishes what the next point knows.
LEMMA ContinueInv ==
  ASSUME IInv, TypeOK', Grows, [Next]_vars, NEW r \in Requests, Continue(r)
  PROVE  RequestInv(r)'
<1>0. RequestInv(r) /\ req \in [Requests -> RequestType] /\ req[r] \in RequestType
  BY DEF IInv, TypeOK
<1>1. ~ At(r, "idle")
  BY DEF Continue, Expire, Sign, SignIsExpired, SignValidate, SignAddSignature,
     SignGetSignatures, SignUpdateStatus, Submit, SubmitIsExpired, SubmitGetSignatures,
     SubmitValidate, SubmitInvalidate, SubmitSend, SubmitSetSubmitted, Refresh,
     RefreshCheck, RefreshUpdateStatus, At
<1>2. PICK p \in Proposals : /\ p = ProposalOf(r)
                            /\ row[p].status # "absent" /\ row[p].entity \in Entities
  BY <1>0, <1>1 DEF RequestInv, ActiveInv, IInv, RowInv
<1> USE <1>2
<1>f. ASSUME Finish(r) PROVE RequestInv(r)'
  <2>1. At(r, "idle")'
    BY <1>f, <1>0 DEF Finish, Idle, At
  <2> QED
    BY <2>1, IdleInv
<1>a. ProposalOf(r)' = p => ActiveInv(r)'
  BY <1>2, KnowledgeGrows DEF ActiveInv
<1>r. RuleOf(p) \in past[row[p].entity] /\ RuleOf(p) \in Rules
  BY <1>2 DEF RuleOf, IInv, LedgerInv, TypeOK, LedgerTypeOK
<1>m. Met(p, signature[p]) => Met(p, signature[p])'
  BY <1>2, KnowledgeGrows
<1>n. Null \notin {"ready", "signing", "committed", "failed"}
  BY DEF Statuses, PendingStatuses, TerminalStatuses
<1> USE DEF RequestInv, SignInv, SubmitInv, RefreshInv, ExpireInv, At, SignPcs, SubmitPcs,
      RefreshPcs
<1>3. CASE Expire(r) \/ SignUpdateStatus(r) \/ SubmitInvalidate(r)
             \/ SubmitSetSubmitted(r) \/ RefreshUpdateStatus(r)
  BY <1>3, <1>f DEF Expire, SignUpdateStatus, SubmitInvalidate, SubmitSetSubmitted,
     RefreshUpdateStatus
<1>4. CASE SignIsExpired(r) \/ SubmitIsExpired(r)
  <2>1. /\ ProposalOf(r)' = p /\ req'[r].account = req[r].account /\ req'[r].key = req[r].key
        /\ \/ req'[r].pc = "expire" /\ IsExpired(p)
           \/ req'[r].pc = "sign.validate" /\ At(r, "sign.isExpired")
           \/ req'[r].pc = "submit.getSignatures" /\ At(r, "submit.isExpired")
    BY <1>4, <1>0 DEF SignIsExpired, SubmitIsExpired, Goto, ProposalOf, RequestType
  <2>2. IsExpired(p) => Justified(p, "expired")'
    <3>0. row[p].deadline \in Nat /\ now \in Nat
      <4>1. row[p] \in RowType /\ now \in 0 .. MaxTime
        BY <1>0, <1>a DEF IInv, TypeOK, RepoTypeOK, LedgerTypeOK
      <4>2. Deadlines \cup {0} \subseteq Nat
        BY DeadlinesAssumption
      <4> QED
        BY <4>1, <4>2, MaxTimeAssumption DEF RowType
    <3>1. IsExpired(p) => Justified(p, "expired")
      BY <3>0 DEF IsExpired, Lapsed, Justified, PastReady
    <3> QED
      BY <3>1, <1>2, KnowledgeGrows
  <2> QED
    BY <2>1, <2>2, <1>0, <1>a, <1>m
<1>5. CASE SignValidate(r)
  <2>1. CASE req[r].key \in RuleOf(p).signers
    <3>1. /\ ProposalOf(r)' = p /\ req'[r].account = req[r].account /\ req'[r].key = req[r].key
          /\ req'[r].pc = "sign.addSignature" /\ req'[r].rule = RuleOf(p)
      BY <1>5, <2>1, <1>0 DEF SignValidate, ProposalOf, RequestType
    <3>2. RuleOf(p) \in past'[row'[p].entity]
      BY <1>2, <1>r, KnowledgeGrows
    <3> QED
      BY <1>5, <3>1, <3>2, <2>1, <1>0, <1>a DEF SignValidate
  <2>2. CASE req[r].key \notin RuleOf(p).signers
    BY <1>5, <2>2, <1>f DEF SignValidate
  <2> QED
    BY <2>1, <2>2
<1>6. CASE SignAddSignature(r)
  <2>1. CASE Goto(r, "sign.getSignatures")
    <3>1. /\ ProposalOf(r)' = p /\ req'[r].account = req[r].account /\ req'[r].key = req[r].key
          /\ req'[r].pc = "sign.getSignatures" /\ req'[r].rule = req[r].rule
      BY <2>1, <1>0 DEF Goto, ProposalOf, RequestType
    <3>2. req[r].rule \in past'[row'[p].entity]
      BY <1>6, <1>0, <1>2, KnowledgeGrows DEF SignAddSignature
    <3> QED
      BY <1>6, <3>1, <3>2, <1>0, <1>a DEF SignAddSignature
  <2> QED
    BY <1>6, <2>1, <1>f DEF SignAddSignature
<1>7. CASE SignGetSignatures(r)
  <2> DEFINE s == StatusAfterSign(signature[p], req[r].rule, req[r].seen)
  <2>1. s \in {"ready", "signing", Null} /\ (s = "ready" => Met(p, signature[p]))
    <3>1. req[r].rule \in past[row[p].entity]
      BY <1>7, <1>0 DEF SignGetSignatures
    <3>2. CASE Cardinality(signature[p]) >= Threshold(req[r].rule)
      BY <3>1, <3>2 DEF Met, StatusAfterSign
    <3>3. CASE ~ (Cardinality(signature[p]) >= Threshold(req[r].rule))
      <4>1. s \in {"signing", Null}
        BY <3>3 DEF StatusAfterSign
      <4> QED
        BY <4>1, <1>n
    <3> QED
      BY <3>2, <3>3
  <2> HIDE DEF s
  <2>2. s = Null => RequestInv(r)'
    BY <1>7, <1>f DEF SignGetSignatures, s
  <2>3. CASE s # Null
    <3>1. req' = [req EXCEPT ![r].pc = "sign.updateStatus", ![r].write = s]
      BY <1>7, <2>3 DEF SignGetSignatures, s
    <3>2. /\ ProposalOf(r)' = p /\ req'[r].account = req[r].account /\ req'[r].key = req[r].key
          /\ req'[r].pc = "sign.updateStatus" /\ req'[r].write = s
      BY <3>1, <1>0 DEF ProposalOf, RequestType
    <3>3. \A t \in {"ready", "signing"} : s = t => Justified(p, t)'
      <4>1. \A t \in {"ready", "signing"} : s = t => Justified(p, t)
        BY <2>1 DEF Justified, PastReady
      <4> QED
        BY <4>1, <1>2, KnowledgeGrows
    <3> QED
      BY <1>7, <3>2, <3>3, <2>1, <2>3, <1>0, <1>a DEF SignGetSignatures
  <2> QED
    BY <2>2, <2>3
<1>8. CASE SubmitGetSignatures(r)
  <2>1. /\ ProposalOf(r)' = p /\ req'[r].pc = "submit.validate"
        /\ req'[r].sigs = signature[p]
    BY <1>8, <1>0 DEF SubmitGetSignatures, ProposalOf, RequestType
  <2>2. ASSUME NEW S, S = signature[p] PROVE S \subseteq signature'[p] /\ Met(p, S)'
    <3>1. Met(p, S)
      BY <2>2, <1>8, <1>0 DEF SubmitGetSignatures
    <3> QED
      BY <3>1, <2>2, <1>2, KnowledgeGrows
  <2> QED
    BY <2>1, <2>2, <1>8, <1>0, <1>a, <1>m DEF SubmitGetSignatures, Met
<1>9. CASE SubmitValidate(r)
  <2>1. /\ ProposalOf(r)' = p /\ req'[r].sigs = req[r].sigs
        /\ req'[r].pc = IF EnoughToSubmit(req[r].sigs, RuleOf(p))
                          THEN "submit.send" ELSE "submit.invalidate"
    BY <1>9, <1>0 DEF SubmitValidate, ProposalOf, RequestType
  <2>2. Met(p, signature[p]) /\ req[r].sigs \subseteq signature[p] /\ Met(p, req[r].sigs)
    BY <1>9, <1>0 DEF SubmitValidate
  <2>3. ~ EnoughToSubmit(req[r].sigs, RuleOf(p)) => Justified(p, "invalid")'
    <3>1. ASSUME ~ EnoughToSubmit(req[r].sigs, RuleOf(p))
          PROVE  Justified(p, "invalid")
      <4>1. PICK low \in past[row[p].entity] : Cardinality(req[r].sigs) >= Threshold(low)
        BY <2>2 DEF Met
      <4>2. low \in Rules
        BY <1>2 DEF IInv, TypeOK, LedgerTypeOK
      <4>3. Cardinality(req[r].sigs) \in Nat
        BY <2>2, <1>2, FS_Subset, FS_CardinalityType DEF IInv, RowInv
      <4>4. Threshold(low) \in Nat /\ Threshold(RuleOf(p)) \in Nat
        BY <1>r, <4>2, ThresholdType
      <4>5. Threshold(low) < Threshold(RuleOf(p))
        BY <3>1, <4>1, <4>3, <4>4 DEF EnoughToSubmit
      <4> QED
        BY <4>1, <4>5, <1>r, <2>2 DEF Justified
    <3> QED
      BY <3>1, <1>2, KnowledgeGrows
  <2>4. Met(p, req[r].sigs)' /\ req'[r].sigs \subseteq signature'[p]
    BY <2>1, <2>2, <1>2, KnowledgeGrows DEF Met
  <2> QED
    BY <2>1, <2>2, <2>3, <2>4, <1>a, <1>m
<1>10. CASE SubmitSend(r)
  <2>1. ASSUME NEW i \in Intents,
               SubmitWithSubintent(i, p, KeysOf(req[r].sigs)),
               req' = [req EXCEPT ![r].pc = "submit.setSubmitted", ![r].hash = i]
        PROVE  RequestInv(r)'
    <3>1. /\ ProposalOf(r)' = p /\ req'[r].sigs = req[r].sigs
          /\ req'[r].pc = "submit.setSubmitted" /\ req'[r].hash = i
      BY <2>1, <1>0 DEF ProposalOf, RequestType
    <3>2. intent'[i].proposal = p
      BY <2>1 DEF SubmitWithSubintent, IInv, TypeOK, LedgerTypeOK
    <3>3. Met(p, signature[p]) /\ req[r].sigs \subseteq signature[p] /\ Met(p, req[r].sigs)
      BY <1>10, <1>0 DEF SubmitSend
    <3>4. Met(p, req[r].sigs)' /\ req'[r].sigs \subseteq signature'[p]
      BY <3>1, <3>3, <1>2, KnowledgeGrows DEF Met
    <3> QED
      BY <3>1, <3>2, <3>3, <3>4, <1>a, <1>m
  <2> QED
    BY <1>10, <2>1, <1>f DEF SubmitSend
<1>11. CASE RefreshCheck(r)
  <2>1. PICK reported \in View(intent[req[r].hash].state) :
          IF StatusAfterCheck(reported) = Null
            THEN Finish(r)
            ELSE req' = [req EXCEPT ![r].pc = "refresh.updateStatus",
                                    ![r].write = StatusAfterCheck(reported)]
    BY <1>11 DEF RefreshCheck
  <2> DEFINE s == StatusAfterCheck(reported)
             i == req[r].hash
  <2>2. /\ Met(p, signature[p]) /\ row[p].hash # Null
        /\ i \in Intents /\ intent[i].proposal = p
    BY <1>11, <1>0 DEF RefreshCheck
  <2>3. /\ s \in {"committed", "failed", Null}
        /\ s = "committed" => reported = "CommittedSuccess"
        /\ s = "failed" => reported \in {"CommittedFailure", "Rejected"}
    BY <1>n DEF StatusAfterCheck
  <2>4. /\ reported = "CommittedSuccess" => intent[i].state = "success"
        /\ reported \in {"CommittedFailure", "Rejected"} =>
             intent[i].state \in {"failure", "rejected"}
    BY DEF View
  <2> HIDE DEF s
  <2>5. CASE s # Null
    <3>1. /\ ProposalOf(r)' = p /\ req'[r].hash = i
          /\ req'[r].pc = "refresh.updateStatus" /\ req'[r].write = s
      BY <2>1, <2>5, <1>0 DEF ProposalOf, RequestType, s
    <3>2. \A t \in {"committed", "failed"} : s = t => Justified(p, t)'
      <4>1. \A t \in {"committed", "failed"} : s = t => Justified(p, t)
        BY <2>2, <2>3, <2>4, <2>5 DEF Justified, PastReady, Executed, Handed
      <4> QED
        BY <4>1, <1>2, KnowledgeGrows
    <3>3. row'[p].hash # Null /\ intent'[i].proposal = p
      BY <2>2, <1>2, KnowledgeGrows
    <3> QED
      BY <3>1, <3>2, <3>3, <2>2, <2>3, <2>5, <1>a, <1>m
  <2> QED
    BY <2>1, <2>5, <1>f DEF s
<1> QED
  BY <1>3, <1>4, <1>5, <1>6, <1>7, <1>8, <1>9, <1>10, <1>11 DEF Continue, Sign, Submit,
     Refresh

\* Each request keeps its invariant, whichever request or environment moves.
LEMMA RequestInvStep ==
  ASSUME IInv, TypeOK', Grows, [Next]_vars, NEW r \in Requests
  PROVE  RequestInv(r)'
<1>0. req \in [Requests -> RequestType]
  BY DEF IInv, TypeOK
<1>1. CASE UNCHANGED req
  BY <1>1, RequestStable
<1>2. ASSUME NEW q \in Requests, Continue(q) PROVE RequestInv(r)'
  <2>1. CASE q = r
    BY <1>2, <2>1, ContinueInv
  <2>2. CASE q # r
    <3>1. req'[r] = req[r]
      BY <1>0, <1>2, <2>2 DEF Continue, Expire, Sign, SignIsExpired, SignValidate,
         SignAddSignature, SignGetSignatures, SignUpdateStatus, Submit, SubmitIsExpired,
         SubmitGetSignatures, SubmitValidate, SubmitInvalidate, SubmitSend,
         SubmitSetSubmitted, Refresh, RefreshCheck, RefreshUpdateStatus, Goto, Finish
    <3> QED
      BY <3>1, RequestStable
  <2> QED
    BY <2>1, <2>2
<1>3. ASSUME NEW q \in Requests, Abort(q) PROVE RequestInv(r)'
  <2>1. q = r => At(r, "idle")'
    BY <1>0, <1>3 DEF Abort, Finish, Idle, At
  <2>2. q # r => req'[r] = req[r]
    BY <1>0, <1>3 DEF Abort, Finish
  <2> QED
    BY <2>1, <2>2, IdleInv, RequestStable
<1>4. ASSUME NEW q \in Requests, Arrive(q) PROVE RequestInv(r)'
  <2>1. CASE ListAllPending(q)
    BY <1>1, <2>1 DEF ListAllPending
  <2>2. ASSUME NEW local, Begin(q, local), q # r PROVE RequestInv(r)'
    <3>1. req'[r] = req[r]
      BY <1>0, <2>2 DEF Begin
    <3> QED
      BY <3>1, RequestStable
  <2>3. ASSUME NEW p \in Proposals, NEW a \in Accounts, NEW k \in Keys,
               SignGetById(r, p, a, k)
        PROVE  RequestInv(r)'
    <3>1. /\ req'[r].pc = "sign.isExpired" /\ req'[r].proposal = p
          /\ req'[r].account = a /\ req'[r].key = k
      BY <1>0, <2>3 DEF SignGetById, Begin, Idle
    <3>2. row'[p].status # "absent"
      BY <2>3 DEF SignGetById, Signable, repoVars
    <3> QED
      BY <3>1, <3>2 DEF RequestInv, ActiveInv, SignInv, SubmitInv, RefreshInv, ExpireInv,
         At, ProposalOf, SignPcs, SubmitPcs, RefreshPcs
  <2>4. ASSUME NEW p \in Proposals, SubmitGetById(r, p)
        PROVE  RequestInv(r)'
    <3>1. req'[r].pc = "submit.isExpired" /\ req'[r].proposal = p
      BY <1>0, <2>4 DEF SubmitGetById, Begin, Idle
    <3>2. row[p].status = "ready" /\ Met(p, signature[p])
      BY <2>4 DEF SubmitGetById, Submittable, IInv, RowInv, Justified, PastReady
    <3>3. row'[p].status # "absent" /\ Met(p, signature[p])'
      BY <3>2, KnowledgeGrows
    <3> QED
      BY <3>1, <3>3 DEF RequestInv, ActiveInv, SignInv, SubmitInv, RefreshInv, ExpireInv,
         At, ProposalOf, SignPcs, SubmitPcs, RefreshPcs
  <2>5. ASSUME NEW p \in Proposals, RefreshGetById(r, p)
        PROVE  RequestInv(r)'
    <3>1. /\ req'[r].pc = "refresh.check" /\ req'[r].proposal = p
          /\ req'[r].hash = row[p].hash
      BY <1>0, <2>5 DEF RefreshGetById, Begin, Idle
    <3>2. /\ row[p].status = "submitted" /\ row[p].hash # Null
          /\ Met(p, signature[p]) /\ intent[row[p].hash].proposal = p
      BY <2>5 DEF RefreshGetById, Refreshable, IInv, RowInv, Justified, PastReady
    <3>3. row[p].hash \in Intents
      BY <3>2 DEF IInv, TypeOK, RepoTypeOK, RowType
    <3>4. /\ row'[p].status # "absent" /\ Met(p, signature[p])' /\ row'[p].hash # Null
          /\ intent'[row[p].hash].proposal = p
      BY <3>2, <3>3, KnowledgeGrows
    <3> QED
      BY <3>1, <3>3, <3>4 DEF RequestInv, ActiveInv, SignInv, SubmitInv, RefreshInv,
         ExpireInv, At, ProposalOf, SignPcs, SubmitPcs, RefreshPcs
  <2> QED
    BY <1>4, <2>1, <2>2, <2>3, <2>4, <2>5 DEF Arrive, SignGetById, SubmitGetById,
       RefreshGetById
<1>5. ASSUME NEW p \in Proposals, NEW e \in Entities, NEW d \in Deadlines,
             Create(p, e, d)
      PROVE  RequestInv(r)'
  BY <1>1, <1>5 DEF Create
<1>6. CASE LedgerStep \/ UNCHANGED vars
  BY <1>1, <1>6 DEF LedgerStep, vars
<1> QED
  BY <1>2, <1>3, <1>4, <1>5, <1>6 DEF Next

-----------------------------------------------------------------------------
(* The theorems *)

\* The invariant holds of the empty database and no request in flight.
LEMMA InitInv == Init => IInv
<1> SUFFICES ASSUME Init PROVE IInv
  OBVIOUS
<1> USE DEF Init, LedgerInit, RepoInit
<1>1. TypeOK
  <2>1. Idle \in RequestType /\ NoRow \in RowType /\ Absent \in IntentType
    BY DEF Idle, RequestType, Pcs, NoRow, RowType, Absent, IntentType, IntentStates
  <2>2. now \in 0 .. MaxTime
    BY MaxTimeAssumption
  <2> QED
    BY <2>1, <2>2 DEF TypeOK, LedgerTypeOK, RepoTypeOK
<1>2. LedgerInv
  BY DEF LedgerInv, Absent
<1>3. ASSUME NEW p \in Proposals PROVE RowInv(p)
  BY FS_EmptySet DEF RowInv, NoRow, Justified, PastReady
<1>4. ASSUME NEW r \in Requests PROVE RequestInv(r)
  BY DEF Idle, RequestInv, ActiveInv, SignInv, SubmitInv, RefreshInv, ExpireInv, At,
     SignPcs, SubmitPcs, RefreshPcs
<1>5. IntentsAreBacked
  BY DEF IntentsAreBacked, Absent
<1> QED
  BY <1>1, <1>2, <1>3, <1>4, <1>5 DEF IInv

\* IInv holds in every state: requests may interleave, stop half-way and act on
\* rows that have changed since they read them, rules and time may move on.
THEOREM Invariance == Spec => []IInv
<1>1. IInv /\ [Next]_vars => IInv'
  <2> SUFFICES ASSUME IInv, [Next]_vars PROVE IInv'
    OBVIOUS
  <2>1. TypeOK' /\ Grows
    BY TypeStep, GrowsStep
  <2>2. LedgerInv' /\ IntentsAreBacked'
    BY <2>1, LedgerInvStep, IntentsAreBackedStep
  <2>3. \A p \in Proposals : RowInv(p)'
    BY <2>1, RowInvStep
  <2>4. \A r \in Requests : RequestInv(r)'
    BY <2>1, RequestInvStep
  <2> QED
    BY <2>1, <2>2, <2>3, <2>4 DEF IInv
<1> QED
  BY InitInv, <1>1, PTL DEF Spec

\* Type correctness of the tables, the ledger and every local variable.
THEOREM TypeCorrect == Spec => []TypeOK
<1>1. IInv => TypeOK
  BY DEF IInv
<1> QED
  BY <1>1, Invariance, PTL

\* No proposal is ready, submitted, settled or invalid without signatures that
\* met a threshold its vault has had.
THEOREM QuorumSafety == Spec => []QuorumWasReached
<1>1. IInv => QuorumWasReached
  BY DEF IInv, RowInv, Justified, QuorumWasReached
<1> QED
  BY <1>1, Invariance, PTL

\* Every transaction handed to the Gateway carries recorded signatures of
\* signers of the vault that met a threshold.
THEOREM IntentsSafety == Spec => []IntentsAreBacked
<1>1. IInv => IntentsAreBacked
  BY DEF IInv
<1> QED
  BY <1>1, Invariance, PTL

\* committed and failed are verdicts of the ledger on this proposal.
THEOREM SettlementSafety == Spec => []SettledByLedger
<1>1. IInv => SettledByLedger
  BY DEF IInv, RowInv, Justified, SettledByLedger
<1> QED
  BY <1>1, Invariance, PTL

\* The intent hash of a row is an intent of that very proposal.
THEOREM HashSafety == Spec => []HashNamesOwnIntent
<1>1. IInv => HashNamesOwnIntent
  BY DEF IInv, RowInv, Justified, HashNamesOwnIntent
<1> QED
  BY <1>1, Invariance, PTL

\* expired means the subintent has lapsed, invalid means the threshold rose.
THEOREM EndingSafety == Spec => [](ExpiredMeansLate /\ InvalidMeansDrift)
<1>1. IInv => ExpiredMeansLate /\ InvalidMeansDrift
  BY DEF IInv, RowInv, Justified, ExpiredMeansLate, InvalidMeansDrift
<1> QED
  BY <1>1, Invariance, PTL

-----------------------------------------------------------------------------
(* Requests that take turns *)

\* A step of the handlers or the ledger as the glossary sees it.
Seen == Glossary!Next \/ UNCHANGED Glossary!statusVars

\* With one request, and that not about to record a submission, what was handed
\* over is on record.
LEMMA NobodySends ==
  ASSUME TurnsInv, OneByOne, NEW r \in Requests, ~ At(r, "submit.setSubmitted")
  PROVE  \A p \in Proposals :
           /\ ~ Sending(p)
           /\ Handed(p) # {} => row[p].status \in {"submitted", "committed", "failed"}
<1>1. \A q \in Requests : q = r
  BY DEF OneByOne
<1>2. \A p \in Proposals : ~ Sending(p)
  BY <1>1 DEF Sending
<1> QED
  BY <1>2 DEF TurnsInv, HandedInv

\* The glossary sees nothing of a handler that reads.
LEMMA ReadTurn ==
  ASSUME TurnsInv, OneByOne, NEW r \in Requests, ~ At(r, "submit.setSubmitted"),
         UNCHANGED <<row, intent>>, TurnInv(r)'
  PROVE  TurnsInv' /\ Seen
<1>1. \A q \in Requests : q = r
  BY DEF OneByOne
<1>2. \A p \in Proposals : HandedOnce(p) /\ Handed(p)' = Handed(p)
  BY DEF TurnsInv, HandedInv, Handed
<1>3. \A p \in Proposals : HandedInv(p)'
  BY <1>2, NobodySends DEF HandedInv, HandedOnce
<1> QED
  BY <1>1, <1>3, NothingSeen DEF TurnsInv, Seen

LEMMA IdleTurn ==
  ASSUME NEW r \in Requests, req \in [Requests -> RequestType], Finish(r)
  PROVE  TurnInv(r)'
<1>1. req'[r].pc = "idle"
  BY DEF Finish, Idle
<1> QED
  BY <1>1 DEF TurnInv, At, SignPcs, SubmitPcs, RefreshPcs

\* A handler that writes a status along an edge, and is done.
LEMMA WriteTurn ==
  ASSUME IInv, TurnsInv, OneByOne, NEW r \in Requests, ~ At(r, "submit.setSubmitted"),
         NEW p \in Proposals, NEW s \in Statuses, UpdateStatus(p, s), Edge(p, s),
         UNCHANGED intent, Finish(r)
  PROVE  TurnsInv' /\ Seen
<1>0. RowTypeOK /\ req \in [Requests -> RequestType]
  BY DEF IInv, TypeOK, RepoTypeOK, RowTypeOK
<1>1. \A q \in Requests : TurnInv(q)'
  <2>1. \A q \in Requests : q = r
    BY DEF OneByOne
  <2> QED
    BY <1>0, <2>1, IdleTurn
<1>2. \A q \in Proposals : row'[q].status = IF q = p THEN s ELSE row[q].status
  BY <1>0 DEF UpdateStatus, RowTypeOK, RowType
<1>3. \A q \in Proposals : HandedOnce(q) /\ Handed(q)' = Handed(q)
  BY DEF TurnsInv, HandedInv, Handed
<1>4. Handed(p) # {} => s \in {"committed", "failed"}
  BY NobodySends DEF Edge, PendingStatuses
<1>5. \A q \in Proposals : HandedInv(q)'
  BY <1>2, <1>3, <1>4, NobodySends DEF HandedInv, HandedOnce
<1>6. Glossary!Next
  BY <1>0, <1>3, EdgeStep
<1> QED
  BY <1>1, <1>5, <1>6 DEF TurnsInv, Seen

\* A proposal is created, or the sweep passes, while no request is recording.
LEMMA CreateTurn ==
  ASSUME IInv, TurnsInv, NEW p \in Proposals, NEW e \in Entities, NEW d \in Deadlines,
         Create(p, e, d)
  PROVE  TurnsInv' /\ Seen
<1>0. RowTypeOK /\ req \in [Requests -> RequestType]
  BY DEF IInv, TypeOK, RepoTypeOK, RowTypeOK
<1>1. Insert(p, e, d) /\ UNCHANGED <<intent, req>>
  BY DEF Create, ledgerVars
<1>2. /\ row[p].status = "absent"
      /\ \A q \in Proposals : q # p => row'[q] = row[q]
  BY <1>0, <1>1 DEF Insert, RowTypeOK
<1>3. \A q \in Proposals : Handed(q)' = Handed(q)
  BY <1>1 DEF Handed
<1>4. Handed(p) = {}
  BY <1>2 DEF IInv, LedgerInv, Handed
<1>5. \A q \in Proposals : HandedInv(q)'
  <2>1. \A q \in Proposals : Sending(q)' <=> Sending(q)
    BY <1>1 DEF Sending, At, ProposalOf
  <2> QED
    BY <1>2, <1>3, <1>4, <2>1 DEF TurnsInv, HandedInv, HandedOnce
<1>6. ASSUME NEW r \in Requests
      PROVE  TurnInv(r)'
  <2>1. CASE At(r, "idle")
    BY <1>1, <2>1 DEF At, TurnInv, SignPcs, SubmitPcs, RefreshPcs
  <2>2. CASE ~ At(r, "idle")
    <3>1. ProposalOf(r) \in Proposals /\ ProposalOf(r) # p
      BY <1>2, <2>2 DEF IInv, RequestInv, ActiveInv
    <3>2. row'[ProposalOf(r)] = row[ProposalOf(r)] /\ ProposalOf(r)' = ProposalOf(r)
      BY <1>1, <1>2, <3>1 DEF ProposalOf
    <3>3. TurnInv(r)
      BY DEF TurnsInv
    <3> QED
      BY <1>1, <3>2, <3>3 DEF TurnInv, At, ProposalOf
  <2> QED
    BY <2>1, <2>2
<1>7. Glossary!Next
  BY <1>0, <1>1, InsertionStep
<1> QED
  BY <1>5, <1>6, <1>7 DEF TurnsInv, Seen

LEMMA ArriveTurn ==
  ASSUME IInv, TurnsInv, OneByOne, NEW r \in Requests, Arrive(r)
  PROVE  TurnsInv' /\ Seen
<1>0. RowTypeOK /\ req \in [Requests -> RequestType]
  BY DEF IInv, TypeOK, RepoTypeOK, RowTypeOK
<1>1. At(r, "idle") /\ ~ At(r, "submit.setSubmitted")
  BY DEF Arrive, SignGetById, SubmitGetById, RefreshGetById, ListAllPending, At
<1>2. ASSUME NEW p \in Proposals, NEW a \in Accounts, NEW k \in Keys, SignGetById(r, p, a, k)
      PROVE  TurnsInv' /\ Seen
  <2>1. /\ UNCHANGED <<row, intent>> /\ Signable(row[p].status)
        /\ req'[r].pc = "sign.isExpired" /\ req'[r].proposal = p
        /\ req'[r].seen = row[p].status
    BY <1>0, <1>2 DEF SignGetById, Begin, Idle, ledgerVars, repoVars
  <2>2. TurnInv(r)'
    BY <2>1 DEF TurnInv, At, ProposalOf, SignPcs, SubmitPcs, RefreshPcs, Signable
  <2> QED
    BY <1>1, <2>1, <2>2, ReadTurn
<1>3. ASSUME NEW p \in Proposals, SubmitGetById(r, p)
      PROVE  TurnsInv' /\ Seen
  <2>1. /\ UNCHANGED <<row, intent>> /\ row[p].status = "ready"
        /\ req'[r].pc = "submit.isExpired" /\ req'[r].proposal = p
    BY <1>0, <1>3 DEF SubmitGetById, Submittable, Begin, Idle, ledgerVars, repoVars
  <2>2. TurnInv(r)'
    BY <2>1 DEF TurnInv, At, ProposalOf, SignPcs, SubmitPcs, RefreshPcs
  <2> QED
    BY <1>1, <2>1, <2>2, ReadTurn
<1>4. ASSUME NEW p \in Proposals, RefreshGetById(r, p)
      PROVE  TurnsInv' /\ Seen
  <2>1. /\ UNCHANGED <<row, intent>> /\ row[p].status = "submitted"
        /\ req'[r].pc = "refresh.check" /\ req'[r].proposal = p
    BY <1>0, <1>4 DEF RefreshGetById, Refreshable, Begin, Idle, ledgerVars, repoVars
  <2>2. TurnInv(r)'
    BY <2>1 DEF TurnInv, At, ProposalOf, SignPcs, SubmitPcs, RefreshPcs
  <2> QED
    BY <1>1, <2>1, <2>2, ReadTurn
<1>5. CASE ListAllPending(r)
  <2>1. ExpirePending /\ UNCHANGED <<intent, req>>
    BY <1>5 DEF ListAllPending, ledgerVars
  <2>2. \A p \in Proposals : Sweeps(p) => Handed(p) = {}
    BY <1>1, NobodySends DEF Sweeps, PendingStatuses
  <2>3. \A p \in Proposals : HandedInv(p)'
    <3>1. \A p \in Proposals : HandedOnce(p) /\ Handed(p)' = Handed(p)
      BY <2>1 DEF TurnsInv, HandedInv, Handed
    <3>2. \A p \in Proposals : Handed(p) # {} => row'[p] = row[p]
      BY <1>0, <2>1, <2>2 DEF ExpirePending, RowTypeOK
    <3> QED
      BY <1>1, <3>1, <3>2, NobodySends DEF HandedInv, HandedOnce
  <2>4. \A q \in Requests : TurnInv(q)'
    <3>1. \A q \in Requests : q = r
      BY DEF OneByOne
    <3> QED
      BY <1>1, <2>1, <3>1 DEF At, TurnInv, SignPcs, SubmitPcs, RefreshPcs
  <2>5. Glossary!Next
    BY <1>0, <2>1, <2>2, SweepStep
  <2> QED
    BY <2>3, <2>4, <2>5 DEF TurnsInv, Seen
<1> QED
  BY <1>2, <1>3, <1>4, <1>5 DEF Arrive

LEMMA ContinueTurn ==
  ASSUME IInv, TurnsInv, OneByOne, NEW r \in Requests, Continue(r)
  PROVE  TurnsInv' /\ Seen
<1>0. RowTypeOK /\ req \in [Requests -> RequestType] /\ LedgerTypeOK
  BY DEF IInv, TypeOK, RepoTypeOK, RowTypeOK
<1>1. ~ At(r, "idle") /\ ProposalOf(r) \in Proposals /\ RequestInv(r)
      /\ TurnInv(r)
  BY DEF Continue, Expire, Sign, SignIsExpired, SignValidate, SignAddSignature,
     SignGetSignatures, SignUpdateStatus, Submit, SubmitIsExpired, SubmitGetSignatures,
     SubmitValidate, SubmitInvalidate, SubmitSend, SubmitSetSubmitted, Refresh, RefreshCheck,
     RefreshUpdateStatus, At, IInv, RequestInv, ActiveInv, TurnsInv
<1>2. PICK p \in Proposals : p = ProposalOf(r)
  BY <1>1
<1>3. /\ req[r].proposal = p
      /\ req[r].pc \in SignPcs => row[p].status = req[r].seen /\ Signable(row[p].status)
      /\ At(r, "sign.updateStatus") /\ req[r].write = "signing" => req[r].seen = "created"
      /\ At(r, "expire") => row[p].status \in PendingStatuses
      /\ req[r].pc \in SubmitPcs => row[p].status = "ready"
      /\ req[r].pc \in RefreshPcs => row[p].status = "submitted"
  BY <1>1, <1>2 DEF TurnInv, ProposalOf
<1>4. ~ At(r, "submit.setSubmitted") /\ row[p].status \in PendingStatuses => Handed(p) = {}
  BY NobodySends DEF PendingStatuses
<1>5. HandedOnce(p)
  BY DEF TurnsInv, HandedInv
<1>6. CASE Expire(r)
  <2>1. /\ UpdateStatus(p, "expired") /\ Finish(r) /\ UNCHANGED intent
        /\ At(r, "expire") /\ ~ At(r, "submit.setSubmitted")
    BY <1>2, <1>6 DEF Expire, ledgerVars, At
  <2>2. Edge(p, "expired")
    BY <1>3, <1>4, <2>1 DEF Edge
  <2> QED
    BY <2>1, <2>2, WriteTurn, KnownStatuses
<1>7. CASE SignIsExpired(r) \/ SignValidate(r) \/ SignAddSignature(r) \/ SignGetSignatures(r)
  <2>1. /\ UNCHANGED <<row, intent>> /\ req[r].pc \in SignPcs
        /\ ~ At(r, "submit.setSubmitted")
    BY <1>7 DEF SignIsExpired, SignValidate, SignAddSignature, AddSignature,
       SignGetSignatures, ledgerVars, repoVars, At, SignPcs
  <2>2. row[p].status = req[r].seen /\ Signable(row[p].status)
    BY <1>3, <2>1
  <2>3. CASE Finish(r)
    BY <1>0, <2>1, <2>3, IdleTurn, ReadTurn
  <2>4. CASE /\ req'[r].proposal = p /\ req'[r].seen = req[r].seen
             /\ req'[r].pc \in {"expire", "sign.validate", "sign.addSignature",
                                "sign.getSignatures", "sign.updateStatus"}
             /\ req'[r].pc = "sign.updateStatus" /\ req'[r].write = "signing" =>
                  req[r].seen = "created"
    <3>1. TurnInv(r)'
      BY <2>1, <2>2, <2>4 DEF TurnInv, At, ProposalOf, SignPcs, SubmitPcs, RefreshPcs,
         Signable, PendingStatuses
    <3> QED
      BY <2>1, <3>1, ReadTurn
  <2>5. CASE SignIsExpired(r)
    BY <1>0, <1>3, <2>4, <2>5 DEF SignIsExpired, Goto, RequestType
  <2>6. CASE SignValidate(r)
    BY <1>0, <1>3, <2>3, <2>4, <2>6 DEF SignValidate, RequestType
  <2>7. CASE SignAddSignature(r)
    BY <1>0, <1>3, <2>3, <2>4, <2>7 DEF SignAddSignature, Goto, RequestType
  <2>8. CASE SignGetSignatures(r)
    <3>1. PICK s : /\ s = StatusAfterSign(signature[ProposalOf(r)], req[r].rule, req[r].seen)
                   /\ IF s = Null
                        THEN Finish(r)
                        ELSE req' = [req EXCEPT ![r].pc = "sign.updateStatus", ![r].write = s]
      BY <2>8 DEF SignGetSignatures
    <3>2. s = "signing" => req[r].seen = "created"
      BY <3>1, KnownStatuses DEF StatusAfterSign
    <3> QED
      BY <1>0, <1>3, <2>3, <2>4, <3>1, <3>2 DEF RequestType
  <2> QED
    BY <1>7, <2>5, <2>6, <2>7, <2>8
<1>8. CASE SignUpdateStatus(r)
  <2>1. /\ UpdateStatus(p, req[r].write) /\ Finish(r) /\ UNCHANGED intent
        /\ At(r, "sign.updateStatus") /\ ~ At(r, "submit.setSubmitted")
        /\ req[r].pc \in SignPcs
    BY <1>2, <1>8 DEF SignUpdateStatus, ledgerVars, At, SignPcs
  <2>2. req[r].write \in {"ready", "signing"}
    BY <1>1, <2>1 DEF RequestInv, SignInv
  <2>3. Edge(p, req[r].write)
    BY <1>3, <2>1, <2>2 DEF Edge, Signable
  <2> QED
    BY <2>1, <2>2, <2>3, WriteTurn, KnownStatuses
<1>9. CASE SubmitIsExpired(r) \/ SubmitGetSignatures(r) \/ SubmitValidate(r)
  <2>1. /\ UNCHANGED <<row, intent>> /\ req[r].pc \in SubmitPcs
        /\ ~ At(r, "submit.setSubmitted")
    BY <1>9 DEF SubmitIsExpired, SubmitGetSignatures, SubmitValidate, ledgerVars, repoVars,
       At, SubmitPcs
  <2>2. /\ req'[r].proposal = p
        /\ req'[r].pc \in {"expire", "submit.getSignatures", "submit.validate",
                           "submit.invalidate", "submit.send"}
    BY <1>0, <1>3, <1>9 DEF SubmitIsExpired, SubmitGetSignatures, SubmitValidate, Goto,
       RequestType
  <2>3. TurnInv(r)'
    BY <1>3, <2>1, <2>2 DEF TurnInv, At, ProposalOf, SignPcs, SubmitPcs, RefreshPcs,
       PendingStatuses
  <2> QED
    BY <2>1, <2>3, ReadTurn
<1>10. CASE SubmitInvalidate(r)
  <2>1. /\ UpdateStatus(p, "invalid") /\ Finish(r) /\ UNCHANGED intent
        /\ req[r].pc \in SubmitPcs /\ ~ At(r, "submit.setSubmitted")
    BY <1>2, <1>10 DEF SubmitInvalidate, ledgerVars, At, SubmitPcs
  <2>2. Edge(p, "invalid")
    BY <1>3, <1>4, <2>1 DEF Edge, PendingStatuses
  <2> QED
    BY <2>1, <2>2, WriteTurn, KnownStatuses
<1>11. CASE SubmitSend(r)
  <2>1. /\ UNCHANGED row /\ req[r].pc \in SubmitPcs /\ ~ At(r, "submit.setSubmitted")
    BY <1>11 DEF SubmitSend, repoVars, At, SubmitPcs
  <2>2. row[p].status = "ready" /\ Handed(p) = {}
    BY <1>3, <1>4, <2>1 DEF PendingStatuses
  <2>3. CASE Finish(r) /\ UNCHANGED intent
    BY <1>0, <2>1, <2>3, IdleTurn, ReadTurn
  <2>4. ASSUME NEW i \in Intents, SubmitWithSubintent(i, p, KeysOf(req[r].sigs)),
               req' = [req EXCEPT ![r].pc = "submit.setSubmitted", ![r].hash = i]
        PROVE  TurnsInv' /\ Seen
    <3>1. intent[i].state = "absent" => intent[i].proposal = Null
      BY DEF IInv, LedgerInv
    <3>2. /\ Glossary!Next /\ Handed(p)' = {i}
          /\ \A q \in Proposals : q # p => Handed(q)' = Handed(q)
      BY <1>0, <2>1, <2>2, <2>4, <3>1, HandOverStep
    <3>3. req'[r].pc = "submit.setSubmitted" /\ req'[r].proposal = p
      BY <1>0, <1>3, <2>4 DEF RequestType
    <3>4. TurnInv(r)'
      BY <2>1, <2>2, <3>3 DEF TurnInv, At, ProposalOf, SignPcs, SubmitPcs, RefreshPcs
    <3>5. Sending(p)'
      BY <3>3 DEF Sending, At, ProposalOf
    <3>6. \A q \in Proposals : HandedInv(q)'
      <4>1. HandedInv(p)'
        BY <3>2, <3>5 DEF HandedInv, HandedOnce
      <4>2. \A q \in Proposals : q # p => HandedInv(q)'
        BY <2>1, <3>2, NobodySends DEF TurnsInv, HandedInv, HandedOnce
      <4> QED
        BY <4>1, <4>2
    <3>7. \A q \in Requests : TurnInv(q)'
      BY <3>4 DEF OneByOne
    <3> QED
      BY <3>2, <3>6, <3>7 DEF TurnsInv, Seen
  <2> QED
    BY <1>2, <1>11, <2>3, <2>4 DEF SubmitSend
<1>12. CASE SubmitSetSubmitted(r)
  <2>1. PICK i \in Intents : i = req[r].hash /\ intent[i].proposal = p
    BY <1>1, <1>2, <1>12 DEF RequestInv, SubmitInv, SubmitSetSubmitted
  <2>2. /\ SetSubmitted(p, i) /\ Finish(r) /\ UNCHANGED intent /\ row[p].status = "ready"
    BY <1>2, <1>3, <1>12, <2>1 DEF SubmitSetSubmitted, ledgerVars, At, SubmitPcs
  <2>3. \A q \in Proposals : HandedOnce(q) /\ Handed(q)' = Handed(q)
    BY <2>2 DEF TurnsInv, HandedInv, Handed
  <2>4. \A q \in Proposals : q # p => row'[q].status = row[q].status
    BY <1>0, <2>2 DEF SetSubmitted, RowTypeOK, RowType
  <2>5. row'[p].status = "submitted"
    BY <1>0, <2>2 DEF SetSubmitted, RowTypeOK, RowType
  <2>6. \A q \in Proposals : q # p => ~ Sending(q)
    BY <1>2 DEF OneByOne, Sending
  <2>7. \A q \in Proposals : HandedInv(q)'
    BY <2>3, <2>4, <2>5, <2>6 DEF TurnsInv, HandedInv, HandedOnce
  <2>8. \A q \in Requests : TurnInv(q)'
    BY <1>0, <2>2, IdleTurn DEF OneByOne
  <2>9. Glossary!Next
    BY <1>0, <2>1, <2>2, RecordStep DEF Handed
  <2> QED
    BY <2>7, <2>8, <2>9 DEF TurnsInv, Seen
<1>13. CASE RefreshCheck(r)
  <2>1. /\ UNCHANGED <<row, intent>> /\ req[r].pc \in RefreshPcs
        /\ ~ At(r, "submit.setSubmitted")
    BY <1>13 DEF RefreshCheck, ledgerVars, repoVars, At, RefreshPcs
  <2>2. \/ Finish(r)
        \/ req'[r].proposal = p /\ req'[r].pc = "refresh.updateStatus"
    BY <1>0, <1>3, <1>13 DEF RefreshCheck, RequestType
  <2>3. CASE Finish(r)
    BY <1>0, <2>1, <2>3, IdleTurn, ReadTurn
  <2>4. CASE req'[r].proposal = p /\ req'[r].pc = "refresh.updateStatus"
    <3>1. TurnInv(r)'
      BY <1>3, <2>1, <2>4 DEF TurnInv, At, ProposalOf, SignPcs, SubmitPcs, RefreshPcs
    <3> QED
      BY <2>1, <3>1, ReadTurn
  <2> QED
    BY <2>2, <2>3, <2>4
<1>14. CASE RefreshUpdateStatus(r)
  <2>1. /\ UpdateStatus(p, req[r].write) /\ Finish(r) /\ UNCHANGED intent
        /\ At(r, "refresh.updateStatus") /\ ~ At(r, "submit.setSubmitted")
        /\ req[r].pc \in RefreshPcs
    BY <1>2, <1>14 DEF RefreshUpdateStatus, ledgerVars, At, RefreshPcs
  <2>2. req[r].write \in {"committed", "failed"} /\ Justified(p, req[r].write)
    BY <1>1, <1>2, <2>1 DEF RequestInv, RefreshInv
  <2>3. Edge(p, req[r].write)
    BY <1>3, <1>5, <2>1, <2>2, OneVerdict DEF Edge, Justified
  <2> QED
    BY <2>1, <2>2, <2>3, WriteTurn, KnownStatuses
<1> QED
  BY <1>6, <1>7, <1>8, <1>9, <1>10, <1>11, <1>12, <1>13, <1>14
     DEF Continue, Sign, Submit, Refresh

\* The ledger decides about what was handed over; the rest of its steps the
\* glossary does not see.
LEMMA LedgerTurn ==
  ASSUME IInv, TurnsInv, LedgerStep \/ UNCHANGED vars
  PROVE  TurnsInv' /\ Seen
<1>0. UNCHANGED <<row, req>> /\ LedgerTypeOK
  BY DEF LedgerStep, vars, repoVars, IInv, TypeOK
<1>1. ASSUME \A p \in Proposals : Handed(p)' = Handed(p)
      PROVE  TurnsInv'
  <2>1. \A p \in Proposals : Sending(p)' <=> Sending(p)
    BY <1>0 DEF Sending, At, ProposalOf
  <2>2. \A p \in Proposals : HandedInv(p)'
    BY <1>0, <1>1, <2>1 DEF TurnsInv, HandedInv, HandedOnce
  <2>3. \A r \in Requests : TurnInv(r)'
    BY <1>0 DEF TurnsInv, TurnInv, At, ProposalOf
  <2> QED
    BY <2>2, <2>3 DEF TurnsInv
<1>2. CASE UNCHANGED intent
  <2>1. \A p \in Proposals : Handed(p)' = Handed(p)
    BY <1>2 DEF Handed
  <2> QED
    BY <1>0, <1>1, <1>2, <2>1, NothingSeen DEF Seen
<1>3. ASSUME NEW i \in Intents, Refuse(i) \/ \E touched, d : Execute(i, touched, d)
      PROVE  TurnsInv' /\ Seen
  <2>1. intent[i].state = "pending" /\ intent[i] \in IntentType
    BY <1>0, <1>3 DEF Refuse, Execute, LedgerTypeOK
  <2>2. intent[i].proposal \in Proposals
    BY <2>1 DEF IInv, LedgerInv, IntentType
  <2>3. HandedOnce(intent[i].proposal)
    BY <2>2 DEF TurnsInv, HandedInv
  <2> QED
    BY <1>0, <1>1, <1>3, <2>2, <2>3, VerdictStep DEF Seen
<1> QED
  BY <1>2, <1>3 DEF LedgerStep, vars, ledgerVars

LEMMA TurnStep ==
  ASSUME IInv, TurnsInv, OneByOne, [Next]_vars
  PROVE  TurnsInv' /\ [Glossary!Next]_(Glossary!statusVars)
<1>1. ASSUME NEW r \in Requests, Abort(r)
      PROVE  FALSE
  BY <1>1 DEF Abort, OneByOne
<1> QED
  BY <1>1, CreateTurn, ArriveTurn, ContinueTurn, LedgerTurn DEF Next, Seen

LEMMA TurnsStart ==
  ASSUME Init
  PROVE  TurnsInv
<1>1. \A p \in Proposals : Handed(p) = {}
  BY DEF Init, LedgerInit, Handed, Absent
<1>2. \A r \in Requests : req[r].pc = "idle"
  BY DEF Init, Idle
<1> QED
  BY <1>1, <1>2 DEF TurnsInv, HandedInv, HandedOnce, TurnInv, At, SignPcs, SubmitPcs,
     RefreshPcs

\* Where requests take turns and run to their end, the handlers are the status
\* machine of the glossary.
THEOREM GlossarySafety == OneByOne => (Spec => ImplementsGlossary)
<1> SUFFICES ASSUME OneByOne PROVE Spec => ImplementsGlossary
  OBVIOUS
<1>1. Init => TurnsInv /\ Glossary!Init
  BY TurnsStart, GlossaryStart DEF Init
<1>2. IInv /\ TurnsInv /\ [Next]_vars => TurnsInv' /\ [Glossary!Next]_(Glossary!statusVars)
  BY TurnStep
<1> QED
  BY <1>1, <1>2, Invariance, PTL DEF Spec, ImplementsGlossary, Glossary!Spec

\* However often submit is called, a proposal is handed to the Gateway as one
\* transaction.
THEOREM OneTransactionSafety == OneByOne => (Spec => []OneTransaction)
<1> SUFFICES ASSUME OneByOne PROVE Spec => []OneTransaction
  OBVIOUS
<1>1. Init => TurnsInv
  BY TurnsStart
<1>2. IInv /\ TurnsInv /\ [Next]_vars => TurnsInv'
  BY TurnStep
<1>3. ASSUME TurnsInv
      PROVE  OneTransaction
  <2>1. SUFFICES ASSUME NEW p \in Proposals
                 PROVE  Cardinality(Handed(p)) <= 1
    BY DEF OneTransaction
  <2>2. HandedOnce(p)
    BY <1>3 DEF TurnsInv, HandedInv
  <2>3. CASE Handed(p) = {}
    BY <2>3, FS_EmptySet
  <2>4. CASE Handed(p) # {}
    <3>1. PICK i \in Handed(p) : Handed(p) = {i}
      BY <2>2, <2>4 DEF HandedOnce
    <3>2. Cardinality({i}) = 1
      BY FS_Singleton
    <3> QED
      BY <3>1, <3>2
  <2> QED
    BY <2>3, <2>4
<1> QED
  BY <1>1, <1>2, <1>3, Invariance, PTL DEF Spec
=============================================================================
