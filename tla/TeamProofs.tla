----------------------------- MODULE TeamProofs -----------------------------
(***************************************************************************)
(* The safety properties of TeamProposals hold for any number of           *)
(* proposals, entities, accounts, keys, intents, badges and requests in    *)
(* flight, with or without faults and transfers of badges.                 *)
(***************************************************************************)
EXTENDS TeamInvariant, ProposalRepoProofs

USE NullAssumption, NullColumnAssumption, TeamAssumption

-----------------------------------------------------------------------------
(* The rules a proposal carries *)

\* Whoever asks for thresholds that fit gets rules that can be stored, and that
\* somebody can satisfy.
LEMMA PlanTypes ==
  ASSUME NEW signers \in SUBSET Keys, NEW es \in SUBSET Entities, NEW asked \in [es -> Asked],
         Fits(signers, asked)
  PROVE  /\ Plan(signers, asked) \in PlanType
         /\ \A e \in DOMAIN Plan(signers, asked) : Open(Plan(signers, asked)[e])
<1>1. Cardinality(signers) \in Nat
  BY KeysAssumption, FS_Subset, FS_CardinalityType
<1>2. ASSUME NEW e \in es
      PROVE  /\ MultisigRule(signers, asked[e]) \in Rules
             /\ Open(MultisigRule(signers, asked[e]))
  <2>1. asked[e] \in Asked /\ asked[e] \in Nat \ {0} /\ asked[e] <= Cardinality(signers)
    BY DEF Fits
  <2>2. MultisigRule(signers, asked[e]) \in Rules
    BY <2>1, RulesClosedAssumption
  <2>3. Open(MultisigRule(signers, asked[e]))
    BY <1>1, <2>1 DEF MultisigRule, Open, Threshold
  <2> QED
    BY <2>2, <2>3
<1>3. Plan(signers, asked) \in [es -> Rules]
  BY <1>2 DEF Plan
<1> QED
  BY <1>2, <1>3 DEF Plan, PlanType

\* What a stored plan says of an entity is a rule.
LEMMA PlanRules == \A plan \in PlanType : \A e \in DOMAIN plan : plan[e] \in Rules
BY DEF PlanType

-----------------------------------------------------------------------------
(* Types *)

ReqTypeOK == req \in [Requests -> RequestType]

\* A slot stays well typed when some of its local variables are assigned.
LEMMA SlotUpdates ==
  ASSUME NEW x \in RequestType, NEW pc \in Pcs
  PROVE  /\ Idle \in RequestType
         /\ [x EXCEPT !.pc = pc] \in RequestType
         /\ \A a \in Accounts : [Idle EXCEPT !.pc = pc, !.account = a] \in RequestType
         /\ \A d \in DraftType : [x EXCEPT !.pc = pc, !.draft = d] \in RequestType
         /\ \A es \in SUBSET Entities, n \in Nat :
              [x EXCEPT !.unread = es, !.need = n] \in RequestType
         /\ \A es \in SUBSET Entities, sigs \in SUBSET SignatureType :
              [x EXCEPT !.pc = pc, !.need = 0, !.sigs = sigs, !.unread = es] \in RequestType
         /\ \A p \in Proposals, k \in Keys, s \in Statuses :
              [x EXCEPT !.pc = pc, !.proposal = p, !.key = k, !.seen = s] \in RequestType
         /\ \A p \in Proposals : [x EXCEPT !.pc = pc, !.proposal = p] \in RequestType
         /\ \A p \in Proposals, i \in Intents :
              [x EXCEPT !.pc = pc, !.proposal = p, !.hash = i] \in RequestType
         /\ \A s \in Statuses : [x EXCEPT !.pc = pc, !.write = s] \in RequestType
<1>1. Idle \in RequestType
  BY DEF Idle, RequestType, Pcs
<1>2. [x EXCEPT !.pc = pc] \in RequestType
  BY DEF RequestType
<1>3. ASSUME NEW a \in Accounts
      PROVE  [Idle EXCEPT !.pc = pc, !.account = a] \in RequestType
  BY <1>1 DEF RequestType
<1>4. ASSUME NEW d \in DraftType
      PROVE  [x EXCEPT !.pc = pc, !.draft = d] \in RequestType
  BY DEF RequestType
<1>5. ASSUME NEW es \in SUBSET Entities, NEW n \in Nat
      PROVE  [x EXCEPT !.unread = es, !.need = n] \in RequestType
  BY DEF RequestType
<1>6. ASSUME NEW es \in SUBSET Entities, NEW sigs \in SUBSET SignatureType
      PROVE  [x EXCEPT !.pc = pc, !.need = 0, !.sigs = sigs, !.unread = es] \in RequestType
  BY DEF RequestType
<1>7. ASSUME NEW p \in Proposals
      PROVE  [x EXCEPT !.pc = pc, !.proposal = p] \in RequestType
  BY DEF RequestType
<1>8. ASSUME NEW p \in Proposals, NEW k \in Keys, NEW s \in Statuses
      PROVE  [x EXCEPT !.pc = pc, !.proposal = p, !.key = k, !.seen = s] \in RequestType
  BY DEF RequestType
<1>9. ASSUME NEW p \in Proposals, NEW i \in Intents
      PROVE  [x EXCEPT !.pc = pc, !.proposal = p, !.hash = i] \in RequestType
  BY DEF RequestType
<1>10. ASSUME NEW s \in Statuses
       PROVE  [x EXCEPT !.pc = pc, !.write = s] \in RequestType
  BY DEF RequestType
<1> QED
  BY <1>1, <1>2, <1>3, <1>4, <1>5, <1>6, <1>7, <1>8, <1>9, <1>10

\* A slot that is emptied, moves on or is assigned a well typed value is well typed.
LEMMA SlotTypes ==
  ASSUME ReqTypeOK, NEW r \in Requests
  PROVE  /\ Finish(r) => ReqTypeOK'
         /\ \A pc \in Pcs : Goto(r, pc) => ReqTypeOK'
         /\ \A new \in RequestType : Locally(r, new) => ReqTypeOK'
         /\ \A pc \in Pcs, i \in Intents :
              req' = [req EXCEPT ![r].pc = pc, ![r].hash = i] => ReqTypeOK'
<1>0. req[r] \in RequestType
  BY DEF ReqTypeOK
<1>1. ASSUME NEW new \in RequestType, req' = [req EXCEPT ![r] = new] PROVE ReqTypeOK'
  BY <1>1 DEF ReqTypeOK
<1>2. ASSUME NEW pc \in Pcs, Goto(r, pc) PROVE ReqTypeOK'
  <2>1. [req[r] EXCEPT !.pc = pc] \in RequestType
    BY <1>0 DEF RequestType
  <2> QED
    BY <1>2, <2>1 DEF Goto, ReqTypeOK
<1>3. ASSUME NEW pc \in Pcs, NEW i \in Intents,
             req' = [req EXCEPT ![r].pc = pc, ![r].hash = i]
      PROVE  ReqTypeOK'
  <2>1. [req[r] EXCEPT !.pc = pc, !.hash = i] \in RequestType
    BY <1>0 DEF RequestType
  <2>2. req'[r] = [req[r] EXCEPT !.pc = pc, !.hash = i]
    BY <1>3, <1>0 DEF ReqTypeOK, RequestType
  <2> QED
    BY <1>3, <2>1, <2>2 DEF ReqTypeOK
<1>4. Idle \in RequestType
  BY DEF Idle, RequestType, Pcs
<1> QED
  BY <1>1, <1>2, <1>3, <1>4 DEF Finish, Locally

\* The steps of create that put a draft into their slot, or give up.
Composes(r) ==
  \/ CreateAddMember(r) \/ CreateRemoveMember(r) \/ CreateChangeThreshold(r)
  \/ CreateFindBadge(r)

Drafts(r, d) ==
  \E pc \in CreatePcs : Locally(r, [Idle EXCEPT !.pc = pc, !.draft = d])

\* The draft is well typed, and its rules can be satisfied.
LEMMA Drafting ==
  ASSUME TypeOK, NEW r \in Requests, RequestInv(r), Composes(r)
  PROVE  Locally(r, Idle) \/ \E d \in DraftType : DetailInv(d.detail) /\ Drafts(r, d)
<1>1. /\ \A e \in Entities : rule[e].signers \in SUBSET Keys
      /\ badges \in [Accounts -> SUBSET Badges]
  BY RulesAssumption DEF TypeOK, LedgerTypeOK, RuleType
<1>2. ASSUME NEW pc \in CreatePcs, NEW e \in Entities, NEW kind \in Kinds,
             NEW a \in Accounts \cup {Null}, NEW b \in Badges \cup {Null},
             NEW signers \in SUBSET Keys, NEW es \in SUBSET Entities, NEW asked \in [es -> Asked],
             Draft(r, pc, e, kind, a, b, signers, asked)
      PROVE  \E d \in DraftType : DetailInv(d.detail) /\ Drafts(r, d)
  <2>1. PICK t \in Deadlines : Locally(r, [Idle EXCEPT !.pc = pc, !.draft =
            [entity |-> e, deadline |-> t,
             detail |-> [kind |-> kind, target |-> a, recall |-> b,
                         plan |-> Plan(signers, asked)]]])
    BY <1>2 DEF Draft
  <2>2. /\ Plan(signers, asked) \in PlanType
        /\ \A f \in DOMAIN Plan(signers, asked) : Open(Plan(signers, asked)[f])
    BY <1>2, PlanTypes DEF Draft
  <2> DEFINE plan == Plan(signers, asked)
             detailOf == [kind |-> kind, target |-> a, recall |-> b, plan |-> plan]
             d == [entity |-> e, deadline |-> t, detail |-> detailOf]
  <2> HIDE DEF plan
  <2>3. d \in DraftType
    BY <2>2 DEF DraftType, DetailType, plan
  <2>4. DetailInv(d.detail)
    BY <2>2 DEF DetailInv, plan
  <2>5. Drafts(r, d)
    BY <2>1 DEF Drafts, plan
  <2> QED
    BY <2>3, <2>4, <2>5
<1>3. \A asked \in Thresholds : \E es \in SUBSET Entities : asked \in [es -> Asked]
  BY DEF Thresholds, Vaults
<1>4. CASE CreateAddMember(r)
  <2>1. PICK a \in Accounts, k \in Keys \ rule[Badge].signers, asked \in Thresholds :
          Draft(r, "create.addMember", Badge, "add_member", a, Null,
                rule[Badge].signers \cup {k}, asked)
    BY <1>4 DEF CreateAddMember
  <2>2. rule[Badge].signers \cup {k} \in SUBSET Keys
    BY <1>1
  <2> QED
    BY <1>2, <1>3, <2>1, <2>2 DEF CreatePcs, Kinds
<1>5. CASE CreateRemoveMember(r)
  <2>1. PICK a \in Accounts, k \in rule[Badge].signers, asked \in Thresholds :
          Draft(r, "create.findBadge", Badge, "remove_member", a, Null,
                rule[Badge].signers \ {k}, asked)
    BY <1>5 DEF CreateRemoveMember
  <2>2. rule[Badge].signers \ {k} \in SUBSET Keys
    BY <1>1
  <2> QED
    BY <1>2, <1>3, <2>1, <2>2 DEF CreatePcs, Kinds
<1>6. CASE CreateChangeThreshold(r)
  <2>1. PICK v \in Vaults, t \in Asked :
          Draft(r, "create.insert", v, "change_threshold", Null, Null,
                rule[v].signers, [e \in {v} |-> t])
    BY <1>6 DEF CreateChangeThreshold
  <2>2. v \in Entities /\ rule[v].signers \in SUBSET Keys
        /\ {v} \in SUBSET Entities /\ [e \in {v} |-> t] \in [{v} -> Asked]
    BY <1>1 DEF Vaults
  <2> QED
    BY <1>2, <2>1, <2>2 DEF CreatePcs, Kinds
<1>7. CASE CreateFindBadge(r)
  <2> DEFINE old == req[r].draft
  <2>1. old \in DraftType /\ DetailInv(old.detail)
    BY <1>7 DEF CreateFindBadge, RequestInv, ActiveInv, At, CreatePcs
  <2>2. old.detail \in DetailType
    BY <2>1 DEF DraftType
  <2>3. ASSUME NEW b \in Badges, NEW t \in Deadlines,
               Locally(r, [Idle EXCEPT !.pc = "create.insert", !.draft =
                 [old EXCEPT !.deadline = t, !.detail.recall = b]])
        PROVE  \E d \in DraftType : DetailInv(d.detail) /\ Drafts(r, d)
    <3> DEFINE d == [old EXCEPT !.deadline = t, !.detail.recall = b]
               detailOf == [old.detail EXCEPT !.recall = b]
    <3>1. detailOf \in DetailType /\ DetailInv(detailOf)
      BY <2>1, <2>2 DEF DetailType, DetailInv
    <3>2. d.detail = detailOf /\ d \in DraftType
      BY <2>1, <2>2, <3>1 DEF DraftType
    <3>3. Drafts(r, d)
      BY <2>3 DEF Drafts, CreatePcs
    <3> QED
      BY <3>1, <3>2, <3>3
  <2> QED
    BY <1>7, <2>3 DEF CreateFindBadge
<1> QED
  BY <1>4, <1>5, <1>6, <1>7 DEF Composes

\* All of them leave the tables and the ledger alone.
LEMMA ComposesFrame ==
  ASSUME NEW r, Composes(r)
  PROVE  UNCHANGED <<chainVars, repoVars, teamVars>>
BY DEF Composes, CreateAddMember, CreateRemoveMember, CreateChangeThreshold, CreateFindBadge,
   Draft, Locally

\* Every step keeps the variables in their types.
LEMMA TypeStep == IInv /\ [Next]_vars => TypeOK'
<1> SUFFICES ASSUME IInv, [Next]_vars PROVE TypeOK'
  OBVIOUS
<1> USE DEF chainVars, ledgerVars, repoVars, teamVars
<1>0. TypeOK /\ ReqTypeOK /\ RowTypeOK
  BY DEF IInv, TypeOK, RepoTypeOK, ReqTypeOK, RowTypeOK
<1>a. ReqTypeOK' /\ UNCHANGED <<chainVars, repoVars, teamVars>> => TypeOK'
  BY <1>0 DEF TypeOK, LedgerTypeOK, RepoTypeOK, TeamRepoTypeOK, ReqTypeOK
<1>b. ReqTypeOK' /\ RowTypeOK' /\ UNCHANGED <<signature, chainVars, teamVars>> => TypeOK'
  BY <1>0 DEF TypeOK, LedgerTypeOK, RepoTypeOK, TeamRepoTypeOK, ReqTypeOK, RowTypeOK
<1>c. ReqTypeOK' /\ member' \in [Accounts -> MemberStates]
        /\ UNCHANGED <<chainVars, repoVars, detail>> => TypeOK'
  BY <1>0 DEF TypeOK, LedgerTypeOK, RepoTypeOK, TeamRepoTypeOK, ReqTypeOK
<1>d. UNCHANGED req => ReqTypeOK'
  BY <1>0 DEF ReqTypeOK
<1>1. ASSUME NEW r \in Requests, Arrive(r)
      PROVE  TypeOK'
  <2>0. req[r] \in RequestType /\ {"membership", "gate", "sign.isExpired", "submit.isExpired",
                                  "refresh.check"} \subseteq Pcs
    BY <1>0 DEF ReqTypeOK, Pcs, SignPcs, SubmitPcs, RefreshPcs
  <2>i. Idle \in RequestType
    BY DEF Idle, RequestType, Pcs
  <2>1. ASSUME NEW a \in Accounts, Enter(r, a) PROVE TypeOK'
    <3>1. Locally(r, [Idle EXCEPT !.pc = "membership", !.account = a])
      BY <2>1 DEF Enter, Locally
    <3> QED
      BY <1>0, <1>a, <2>0, <3>1, SlotUpdates, SlotTypes DEF Locally
  <2>2. CASE CheckBadge(r) \/ TurnAway(r)
    BY <1>0, <1>a, <2>0, <2>2, SlotTypes DEF CheckBadge, TurnAway
  <2>3. ASSUME NEW p \in Proposals, NEW k \in Keys, SignGetById(r, p, k) PROVE TypeOK'
    <3>1. row[p].status \in Statuses
      BY <2>3 DEF SignGetById, Statuses, PendingStatuses
    <3>2. [req[r] EXCEPT !.pc = "sign.isExpired", !.proposal = p, !.key = k,
                         !.seen = row[p].status] \in RequestType
      BY <2>0, <3>1, SlotUpdates
    <3> QED
      BY <1>0, <1>a, <2>3, <3>2, SlotTypes DEF SignGetById, Locally
  <2>4. ASSUME NEW p \in Proposals, SubmitGetById(r, p) PROVE TypeOK'
    <3>1. [Idle EXCEPT !.pc = "submit.isExpired", !.proposal = p] \in RequestType
      BY <2>0, <2>i, SlotUpdates
    <3> QED
      BY <1>0, <1>a, <2>4, <3>1, SlotTypes DEF SubmitGetById, Locally
  <2>5. ASSUME NEW p \in Proposals, RefreshGetById(r, p) PROVE TypeOK'
    <3>1. row[p].hash \in Intents
      BY <1>0, <2>5 DEF RefreshGetById, RowTypeOK, RowType
    <3>2. [Idle EXCEPT !.pc = "refresh.check", !.proposal = p, !.hash = row[p].hash]
            \in RequestType
      BY <2>0, <2>i, <3>1, SlotUpdates
    <3> QED
      BY <1>0, <1>a, <2>5, <3>2, SlotTypes DEF RefreshGetById, Locally
  <2>6. CASE ListAllPending(r)
    <3>1. PICK p \in Proposals : Sweeps(p)
      BY <2>6 DEF ListAllPending, ExpirePending
    <3> QED
      BY <1>0, <1>b, <1>d, <2>6, RowTypes DEF ListAllPending, ExpirePending
  <2> QED
    BY <1>1, <2>1, <2>2, <2>3, <2>4, <2>5, <2>6 DEF Arrive
<1>2. ASSUME NEW r \in Requests, Continue(r)
      PROVE  TypeOK'
  <2>0. RequestInv(r) /\ req[r] \in RequestType
    BY <1>0 DEF IInv, ReqTypeOK
  <2>p. {"expire"} \cup CreatePcs \cup SignPcs \cup SubmitPcs \cup RefreshPcs \subseteq Pcs
    BY DEF Pcs
  <2>q. req[r].pc \in {"expire"} \cup SignPcs \cup SubmitPcs \cup RefreshPcs =>
          ProposalOf(r) \in Proposals /\ row[ProposalOf(r)].status # "absent"
    BY <2>0 DEF RequestInv, ActiveInv
  <2>f. Finish(r) => ReqTypeOK'
    BY <1>0, SlotTypes
  <2>g. \A pc \in {"expire"} \cup CreatePcs \cup SignPcs \cup SubmitPcs \cup RefreshPcs :
          Goto(r, pc) => ReqTypeOK'
    BY <1>0, <2>p, SlotTypes
  <2>l. ASSUME NEW new \in RequestType, Locally(r, new) PROVE TypeOK'
    BY <1>0, <1>a, <2>l, SlotTypes DEF Locally
  <2>i. Idle \in RequestType
    BY <2>0, <2>p, SlotUpdates DEF CreatePcs
  <2>u. ASSUME NEW s \in Statuses, UpdateStatus(ProposalOf(r), s), ReqTypeOK',
               req[r].pc \in {"expire"} \cup SignPcs \cup SubmitPcs \cup RefreshPcs,
               UNCHANGED <<chainVars, teamVars>>
        PROVE  TypeOK'
    BY <1>0, <1>b, <2>q, <2>u, RowTypes DEF UpdateStatus
  <2>1. CASE Composes(r)
    <3>1. ASSUME NEW d \in DraftType, Drafts(r, d) PROVE TypeOK'
      <4>1. PICK pc \in CreatePcs : Locally(r, [Idle EXCEPT !.pc = pc, !.draft = d])
        BY <3>1 DEF Drafts
      <4>2. [Idle EXCEPT !.pc = pc, !.draft = d] \in RequestType
        BY <2>i, <2>p, SlotUpdates
      <4> QED
        BY <2>l, <4>1, <4>2
    <3> QED
      BY <1>0, <2>0, <2>1, <2>i, <2>l, <3>1, Drafting
  <2>2. CASE CreateInsertMember(r)
    <3>1. member' \in [Accounts -> MemberStates]
      BY <1>0, <2>2 DEF CreateInsertMember, AddMember, TypeOK, TeamRepoTypeOK, MemberStates
    <3> QED
      BY <1>c, <2>2, <2>g, <3>1 DEF CreateInsertMember, CreatePcs
  <2>3. CASE CreateInsert(r)
    <3>1. CASE UNCHANGED <<repoVars, detail>>
      BY <1>a, <2>3, <2>f, <3>1 DEF CreateInsert
    <3>2. ASSUME NEW p \in Proposals,
                 InsertTeamProposal(p, req[r].draft.entity, req[r].draft.deadline,
                                    req[r].draft.detail)
          PROVE  TypeOK'
      <4>1. /\ req[r].draft.entity \in Entities /\ req[r].draft.deadline \in Deadlines
            /\ req[r].draft.detail \in DetailType
        BY <2>0, <2>3 DEF CreateInsert, RequestInv, ActiveInv, At, CreatePcs, DraftType
      <4>2. RowTypeOK' /\ detail' \in [Proposals -> DetailType] /\ UNCHANGED signature
        BY <1>0, <3>2, <4>1, RowTypes DEF InsertTeamProposal, Insert, TypeOK, TeamRepoTypeOK
      <4>3. ReqTypeOK' /\ UNCHANGED <<chainVars, member>>
        BY <2>3, <2>f DEF CreateInsert
      <4> QED
        BY <1>0, <4>2, <4>3 DEF TypeOK, LedgerTypeOK, RepoTypeOK, TeamRepoTypeOK, ReqTypeOK,
           RowTypeOK
    <3> QED
      BY <2>3, <3>1, <3>2 DEF CreateInsert
  <2>4. CASE Expire(r)
    BY <2>4, <2>f, <2>u, KnownStatuses DEF Expire, At
  <2>5. CASE SignIsExpired(r) \/ SubmitIsExpired(r)
    <3>1. PICK pc \in {"expire", "sign.validate", "submit.getSignatures"} :
            Locally(r, [req[r] EXCEPT !.pc = pc])
      BY <2>5 DEF SignIsExpired, SubmitIsExpired
    <3>2. [req[r] EXCEPT !.pc = pc] \in RequestType
      BY <2>0, <2>p, SlotUpdates DEF SignPcs, SubmitPcs
    <3> QED
      BY <2>l, <3>1, <3>2
  <2>6. CASE SignValidate(r)
    <3>1. [req[r] EXCEPT !.pc = "sign.addSignature"] \in RequestType
      BY <2>0, <2>p, SlotUpdates DEF SignPcs
    <3> QED
      BY <2>6, <2>i, <2>l, <3>1 DEF SignValidate
  <2>7. CASE SignAddSignature(r)
    <3>1. req[r].account \in Accounts /\ req[r].key \in Keys
      BY <2>0, <2>7 DEF SignAddSignature, RequestInv, ActiveInv, SignInv, At, SignPcs
    <3>2. ReqTypeOK'
      BY <2>7, <2>f, <2>g DEF SignAddSignature, SignPcs
    <3>3. signature' \in [Proposals -> SUBSET SignatureType]
      BY <2>7, <3>1, <1>0 DEF SignAddSignature, AddSignature, SignatureType, TypeOK, RepoTypeOK
    <3>4. UNCHANGED <<row, chainVars, teamVars>>
      BY <2>7 DEF SignAddSignature, AddSignature
    <3> QED
      BY <1>0, <3>2, <3>3, <3>4 DEF TypeOK, LedgerTypeOK, RepoTypeOK, TeamRepoTypeOK, ReqTypeOK
  <2>8. CASE SignGetSignatures(r) \/ SubmitGetSignatures(r)
    <3>1. PICK pc \in {"sign.readRules", "submit.readRules"} :
            Locally(r, [req[r] EXCEPT !.pc = pc, !.need = 0, !.sigs = signature[ProposalOf(r)],
                                      !.unread = Consulted(ProposalOf(r))])
      BY <2>8 DEF SignGetSignatures, SubmitGetSignatures, GetSignatures
    <3>2. ProposalOf(r) \in Proposals /\ row[ProposalOf(r)].status # "absent"
      BY <2>8, <2>q DEF SignGetSignatures, SubmitGetSignatures, GetSignatures, At, SignPcs,
         SubmitPcs
    <3>3. signature[ProposalOf(r)] \in SUBSET SignatureType
      BY <1>0, <3>2 DEF TypeOK, RepoTypeOK
    <3>4. Consulted(ProposalOf(r)) \in SUBSET Entities
      BY <3>2 DEF Consulted, IInv, RowInv
    <3>5. [req[r] EXCEPT !.pc = pc, !.need = 0, !.sigs = signature[ProposalOf(r)],
                         !.unread = Consulted(ProposalOf(r))] \in RequestType
      BY <2>0, <2>p, <3>3, <3>4, SlotUpdates DEF SignPcs, SubmitPcs
    <3> QED
      BY <2>l, <3>1, <3>5
  <2>9. ASSUME NEW e \in Entities, ReadRule(r, e) PROVE TypeOK'
    <3>1. Larger(req[r].need, Threshold(rule[e])) \in Nat
      BY <1>0, <2>0, ThresholdType DEF Larger, TypeOK, LedgerTypeOK, RequestType
    <3>2. req[r].unread \ {e} \in SUBSET Entities
      BY <2>0 DEF RequestType
    <3>3. [req[r] EXCEPT !.unread = @ \ {e}, !.need = Larger(@, Threshold(rule[e]))]
            \in RequestType
      BY <2>0, <2>p, <3>1, <3>2, SlotUpdates DEF CreatePcs
    <3> QED
      BY <2>9, <2>l, <3>3 DEF ReadRule
  <2>10. CASE SignUpdateStatus(r)
    <3>1. CASE UNCHANGED repoVars
      BY <1>a, <2>10, <2>f, <3>1 DEF SignUpdateStatus
    <3>2. ASSUME NEW s \in {"ready", "signing"}, UpdateStatus(ProposalOf(r), s) PROVE TypeOK'
      BY <2>10, <2>f, <2>u, <3>2, KnownStatuses DEF SignUpdateStatus, At, SignPcs
    <3> QED
      BY <2>10, <3>1, <3>2 DEF SignUpdateStatus
  <2>11. CASE SubmitInvalidate(r)
    BY <2>11, <2>f, <2>u, KnownStatuses DEF SubmitInvalidate, At, SubmitPcs
  <2>12. CASE SubmitSend(r)
    <3>1. ProposalOf(r) \in Proposals /\ KeysOf(req[r].sigs) \in SUBSET Keys
      BY <2>0, <2>12, <2>q DEF SubmitSend, At, SubmitPcs, KeysOf, RequestType, SignatureType
    <3>2. ReqTypeOK'
      BY <1>0, <2>12, <2>f, <2>p, SlotTypes DEF SubmitSend, SubmitPcs
    <3>3. intent' \in [Intents -> IntentType]
      BY <1>0, <2>12, <3>1, IntentTypes DEF SubmitSend, TypeOK, LedgerTypeOK
    <3> QED
      BY <1>0, <2>12, <3>2, <3>3 DEF SubmitSend, TypeOK, LedgerTypeOK, RepoTypeOK,
         TeamRepoTypeOK, ReqTypeOK
  <2>13. CASE SubmitSetSubmitted(r)
    <3>1. req[r].hash \in Intents /\ ProposalOf(r) \in Proposals
      BY <2>0, <2>13, <2>q DEF SubmitSetSubmitted, RequestInv, SubmitInv, At, SubmitPcs
    <3> QED
      BY <1>0, <1>b, <2>13, <2>f, <3>1, RowTypes DEF SubmitSetSubmitted, SetSubmitted
  <2>14. CASE RefreshCheck(r)
    <3>1. \A s : StatusAfterCheck(s) # Null => StatusAfterCheck(s) \in Statuses
      BY KnownStatuses DEF StatusAfterCheck
    <3>2. \A s \in Statuses : [req[r] EXCEPT !.pc = "refresh.updateStatus", !.write = s]
                                \in RequestType
      BY <2>0, <2>p, SlotUpdates DEF RefreshPcs
    <3> QED
      BY <2>14, <2>i, <2>l, <3>1, <3>2 DEF RefreshCheck
  <2>15. CASE RefreshUpdateStatus(r)
    <3>1. req[r].write \in Statuses
      BY <2>0, <2>15, KnownStatuses DEF RefreshUpdateStatus, RequestInv, RefreshInv
    <3>2. ReqTypeOK'
      BY <2>15, <2>f, <2>g DEF RefreshUpdateStatus, MemberWrite, RefreshPcs
    <3> QED
      BY <2>15, <2>u, <3>1, <3>2 DEF RefreshUpdateStatus, At, RefreshPcs
  <2>16. CASE RefreshConfirmMember(r) \/ RefreshRemoveMember(r)
    <3>1. member' \in [Accounts -> MemberStates]
      BY <1>0, <2>16 DEF RefreshConfirmMember, RefreshRemoveMember, ConfirmMember,
         RemoveMember, TypeOK, TeamRepoTypeOK, MemberStates
    <3> QED
      BY <1>c, <2>16, <2>f, <3>1 DEF RefreshConfirmMember, RefreshRemoveMember
  <2> QED
    BY <1>2, <2>1, <2>2, <2>3, <2>4, <2>5, <2>6, <2>7, <2>8, <2>9, <2>10, <2>11, <2>12,
       <2>13, <2>14, <2>15, <2>16 DEF Continue, Create, Composes, Sign, Submit, Refresh
<1>3. ASSUME NEW r \in Requests, Abort(r)
      PROVE  TypeOK'
  BY <1>0, <1>3, <1>a, SlotTypes DEF Abort, Locally, Finish
<1>4. CASE LedgerStep
  <2>1. LedgerTypeOK' /\ badges' \in [Accounts -> SUBSET Badges]
    <3>1. ASSUME NEW i \in Intents, NEW p \in Proposals, ExecuteTeamProposal(i, p)
          PROVE  LedgerTypeOK' /\ badges' \in [Accounts -> SUBSET Badges]
      <4>1. intent' \in [Intents -> IntentType]
        BY <1>0, <3>1, IntentTypes DEF ExecuteTeamProposal, TypeOK
      <4>2. \A e \in DOMAIN detail[p].plan : detail[p].plan[e] \in Rules
        BY <1>0, PlanRules DEF TypeOK, TeamRepoTypeOK, DetailType
      <4>3. rule' \in [Entities -> Rules]
        BY <1>0, <3>1, <4>2 DEF ExecuteTeamProposal, TypeOK, LedgerTypeOK
      <4>4. past' \in [Entities -> SUBSET Rules]
        BY <1>0, <3>1, <4>3 DEF ExecuteTeamProposal, TypeOK, LedgerTypeOK
      <4>5. badges' \in [Accounts -> SUBSET Badges]
        BY <1>0, <3>1 DEF ExecuteTeamProposal, MovesBadges, TypeOK, Badges
      <4> QED
        BY <1>0, <3>1, <4>1, <4>3, <4>4, <4>5 DEF ExecuteTeamProposal, TypeOK, LedgerTypeOK
    <3>2. ASSUME NEW i \in Intents, Refuse(i), UNCHANGED <<rule, past, now, badges>>
          PROVE  LedgerTypeOK' /\ badges' \in [Accounts -> SUBSET Badges]
      <4>1. intent' \in [Intents -> IntentType]
        BY <1>0, <3>2, IntentTypes DEF TypeOK
      <4> QED
        BY <1>0, <3>2, <4>1 DEF TypeOK, LedgerTypeOK
    <3>3. CASE Tick /\ UNCHANGED <<rule, past, intent, badges>>
      BY <1>0, <3>3, MaxTimeAssumption DEF Tick, TypeOK, LedgerTypeOK
    <3>4. CASE TransferBadge /\ UNCHANGED ledgerVars
      BY <1>0, <3>4 DEF TransferBadge, TypeOK, LedgerTypeOK
    <3> QED
      BY <1>4, <3>1, <3>2, <3>3, <3>4 DEF LedgerStep
  <2> QED
    BY <1>0, <1>4, <2>1 DEF LedgerStep, TypeOK, RepoTypeOK, TeamRepoTypeOK
<1>5. CASE UNCHANGED vars
  BY <1>5, <1>a, <1>d DEF vars
<1> QED
  BY <1>1, <1>2, <1>3, <1>4, <1>5 DEF Next

-----------------------------------------------------------------------------
(* What never goes away *)

\* The columns of a proposal on record do not change.
DetailsStay == \A p \in Proposals : row[p].status # "absent" => detail'[p] = detail[p]

\* No statement of the server takes a fact off the record.
LEMMA RowsGrowStep == IInv /\ [Next]_vars => RowsGrow /\ DetailsStay
<1> SUFFICES ASSUME IInv, [Next]_vars PROVE RowsGrow /\ DetailsStay
  OBVIOUS
<1> USE DEF teamVars
<1>0. /\ RepoTypeOK /\ \A p \in Proposals : row[p].status = "absent" => row[p].hash = Null
      /\ detail \in [Proposals -> DetailType]
  BY DEF IInv, TypeOK, RowInv, TeamRepoTypeOK
<1>a. UNCHANGED repoVars => RowsGrow
  BY <1>0 DEF repoVars, RowsGrow
<1>b. ASSUME NEW p \in Proposals, NEW s \in Statuses, UpdateStatus(p, s)
      PROVE  RowsGrow
  BY <1>0, <1>b, StatementsGrow
<1>d. UNCHANGED detail => DetailsStay
  BY DEF DetailsStay
<1>1. ASSUME NEW r \in Requests, Arrive(r)
      PROVE  RowsGrow /\ DetailsStay
  <2>1. CASE ListAllPending(r)
    <3>1. PICK p \in Proposals : Sweeps(p)
      BY <2>1 DEF ListAllPending, ExpirePending
    <3> QED
      BY <1>0, <1>d, <2>1, StatementsGrow DEF ListAllPending
  <2>2. CASE UNCHANGED <<repoVars, teamVars>>
    BY <2>2, <1>a, <1>d
  <2> QED
    BY <1>1, <2>1, <2>2 DEF Arrive, Enter, CheckBadge, TurnAway, SignGetById, SubmitGetById,
       RefreshGetById, Locally
<1>2. ASSUME NEW r \in Requests, Continue(r)
      PROVE  RowsGrow /\ DetailsStay
  <2>0. RequestInv(r)
    BY DEF IInv
  <2>q. req[r].pc \in {"expire"} \cup SignPcs \cup SubmitPcs \cup RefreshPcs =>
          ProposalOf(r) \in Proposals
    BY <2>0 DEF RequestInv, ActiveInv
  <2>1. CASE CreateInsert(r)
    <3>1. CASE UNCHANGED <<repoVars, detail>>
      BY <3>1, <1>a, <1>d
    <3>2. ASSUME NEW p \in Proposals,
                 InsertTeamProposal(p, req[r].draft.entity, req[r].draft.deadline,
                                    req[r].draft.detail)
          PROVE  RowsGrow /\ DetailsStay
      <4>1. req[r].draft.entity \in Entities /\ req[r].draft.deadline \in Deadlines
        BY <2>0, <2>1 DEF CreateInsert, RequestInv, ActiveInv, At, CreatePcs, DraftType
      <4>2. RowsGrow
        BY <1>0, <3>2, <4>1, StatementsGrow DEF InsertTeamProposal
      <4>3. DetailsStay
        BY <1>0, <3>2 DEF InsertTeamProposal, Insert, DetailsStay
      <4> QED
        BY <4>2, <4>3
    <3> QED
      BY <2>1, <3>1, <3>2 DEF CreateInsert
  <2>2. CASE Expire(r)
    BY <2>2, <2>q, <1>b, <1>d, KnownStatuses DEF Expire, At
  <2>3. CASE SignAddSignature(r)
    BY <2>3, <2>q, <1>0, <1>a, <1>d, StatementsGrow DEF SignAddSignature, At, SignPcs
  <2>4. CASE SignUpdateStatus(r)
    BY <2>4, <2>q, <1>a, <1>b, <1>d, KnownStatuses DEF SignUpdateStatus, At, SignPcs
  <2>5. CASE SubmitInvalidate(r)
    BY <2>5, <2>q, <1>b, <1>d, KnownStatuses DEF SubmitInvalidate, At, SubmitPcs
  <2>6. CASE SubmitSetSubmitted(r)
    BY <2>0, <2>6, <2>q, <1>0, <1>d, StatementsGrow DEF SubmitSetSubmitted, RequestInv,
       SubmitInv, At, SubmitPcs
  <2>7. CASE RefreshUpdateStatus(r)
    <3>1. req[r].write \in Statuses
      BY <2>0, <2>7, KnownStatuses DEF RefreshUpdateStatus, RequestInv, RefreshInv
    <3> QED
      BY <2>7, <2>q, <1>b, <1>d, <3>1 DEF RefreshUpdateStatus, At, RefreshPcs
  <2>8. CASE UNCHANGED <<repoVars, detail>>
    BY <2>8, <1>a, <1>d
  <2>9. CASE Create(r)
    <3>1. Composes(r) => UNCHANGED <<repoVars, detail>>
      BY ComposesFrame
    <3> QED
      BY <2>1, <2>8, <2>9, <3>1 DEF Create, Composes, CreateInsertMember, teamVars
  <2> QED
    BY <1>2, <2>2, <2>3, <2>4, <2>5, <2>6, <2>7, <2>8, <2>9 DEF Continue, Sign, Submit,
       Refresh, SignIsExpired, SignValidate, SignGetSignatures, SubmitIsExpired, SubmitGetSignatures,
       GetSignatures, ReadRule, SubmitSend, RefreshCheck, RefreshConfirmMember,
       RefreshRemoveMember, Locally
<1>3. ASSUME NEW r \in Requests, Abort(r)
      PROVE  RowsGrow /\ DetailsStay
  BY <1>3, <1>a, <1>d DEF Abort, Locally
<1>4. CASE LedgerStep \/ UNCHANGED vars
  BY <1>4, <1>a, <1>d DEF LedgerStep, vars
<1> QED
  BY <1>1, <1>2, <1>3, <1>4 DEF Next

\* The server touches the chain only when submit hands over an intent.
LEMMA ChainFrame ==
  ASSUME [Next]_vars
  PROVE  \/ UNCHANGED chainVars
         \/ LedgerStep
         \/ \E r \in Requests : SubmitSend(r)
<1>1. ASSUME NEW r \in Requests, Continue(r), ~ SubmitSend(r)
      PROVE  UNCHANGED chainVars
  <2>1. CASE Create(r)
    BY <2>1, ComposesFrame DEF Create, Composes, CreateInsertMember, CreateInsert
  <2>2. CASE Sign(r) \/ Expire(r) \/ \E e \in Entities : ReadRule(r, e)
    BY <2>2 DEF Sign, Expire, ReadRule, SignIsExpired, SignValidate, SignAddSignature,
       SignGetSignatures, GetSignatures, SignUpdateStatus, Locally
  <2>3. CASE Submit(r)
    BY <1>1, <2>3 DEF Submit, SubmitIsExpired, SubmitGetSignatures, GetSignatures, SubmitInvalidate,
       SubmitSetSubmitted, Locally
  <2>4. CASE Refresh(r)
    BY <2>4 DEF Refresh, RefreshCheck, RefreshUpdateStatus, RefreshConfirmMember,
       RefreshRemoveMember, Locally
  <2> QED
    BY <1>1, <2>1, <2>2, <2>3, <2>4 DEF Continue
<1>2. ASSUME NEW r \in Requests, Arrive(r) \/ Abort(r)
      PROVE  UNCHANGED chainVars
  BY <1>2 DEF Arrive, Enter, CheckBadge, TurnAway, SignGetById, SubmitGetById, RefreshGetById,
     ListAllPending, Abort, Locally
<1> QED
  BY <1>1, <1>2 DEF Next, vars

\* The ledger does not go back on an intent, a rule it has had, or time.
LEMMA LedgerGrowsStep ==
  IInv /\ [Next]_vars =>
    IntentsGrow /\ now <= now' /\ \A e \in Entities : past[e] \subseteq past'[e]
<1> SUFFICES ASSUME IInv, [Next]_vars
             PROVE  /\ IntentsGrow
                    /\ now <= now'
                    /\ \A e \in Entities : past[e] \subseteq past'[e]
  OBVIOUS
<1>0. /\ LedgerTypeOK
      /\ \A i \in Intents : intent[i].state = "absent" => intent[i].proposal = Null
  BY DEF IInv, TypeOK, LedgerInv
<1>n. now <= now
  BY <1>0 DEF LedgerTypeOK
<1>1. CASE UNCHANGED chainVars
  BY <1>1, <1>n DEF chainVars, ledgerVars, IntentsGrow
<1>2. ASSUME NEW r \in Requests, SubmitSend(r)
      PROVE  IntentsGrow /\ UNCHANGED <<past, now>>
  BY <1>2, <1>0, VerdictsGrow DEF SubmitSend, IntentsGrow
<1>3. CASE LedgerStep
  <2>1. ASSUME NEW i \in Intents, NEW p \in Proposals, ExecuteTeamProposal(i, p)
        PROVE  IntentsGrow /\ now' = now /\ \A e \in Entities : past[e] \subseteq past'[e]
    BY <1>0, <2>1, VerdictsGrow DEF ExecuteTeamProposal
  <2>2. Tick => now <= now'
    BY <1>0, MaxTimeAssumption DEF Tick, LedgerTypeOK
  <2>3. UNCHANGED intent => IntentsGrow
    BY DEF IntentsGrow
  <2> QED
    BY <1>0, <1>3, <1>n, <2>1, <2>2, <2>3, VerdictsGrow DEF LedgerStep, ledgerVars
<1> QED
  BY <1>1, <1>2, <1>3, <1>n, ChainFrame

\* Every step is growth: of the rows, of their signatures and of the ledger.
LEMMA GrowsStep == IInv /\ [Next]_vars => Grows /\ DetailsStay
BY RowsGrowStep, LedgerGrowsStep DEF Grows

-----------------------------------------------------------------------------
(* Counting signatures *)

\* A signature appears only when sign inserts it, for a proposal on record.
LEMMA SignatureStep ==
  IInv /\ [Next]_vars =>
    \A p \in Proposals :
      \/ signature'[p] = signature[p]
      \/ row[p].status # "absent" /\ \E x : signature'[p] = signature[p] \cup {x}
<1> SUFFICES ASSUME IInv, [Next]_vars, NEW p \in Proposals
             PROVE  \/ signature'[p] = signature[p]
                    \/ row[p].status # "absent" /\ \E x : signature'[p] = signature[p] \cup {x}
  OBVIOUS
<1>0. signature \in [Proposals -> SUBSET SignatureType]
  BY DEF IInv, TypeOK, RepoTypeOK
<1>1. ASSUME NEW r \in Requests, SignAddSignature(r)
      PROVE  \/ signature'[p] = signature[p]
             \/ row[p].status # "absent" /\ \E x : signature'[p] = signature[p] \cup {x}
  <2>1. row[ProposalOf(r)].status # "absent"
    BY <1>1 DEF IInv, RequestInv, ActiveInv, SignAddSignature, At, SignPcs
  <2> QED
    BY <1>0, <1>1, <2>1 DEF SignAddSignature, AddSignature, repoVars
<1>2. ASSUME NEW r \in Requests, Continue(r), ~ SignAddSignature(r)
      PROVE  UNCHANGED signature
  <2> USE DEF Locally, repoVars
  <2>1. CASE Create(r)
    BY <2>1, ComposesFrame DEF Create, Composes, CreateInsertMember, CreateInsert,
       InsertTeamProposal, Insert
  <2>2. CASE Sign(r) \/ Expire(r) \/ \E e \in Entities : ReadRule(r, e)
    BY <1>2, <2>2 DEF Sign, Expire, ReadRule, SignIsExpired, SignValidate,
       SignGetSignatures, GetSignatures, SignUpdateStatus, UpdateStatus
  <2>3. CASE Submit(r)
    BY <2>3 DEF Submit, SubmitIsExpired, SubmitGetSignatures, GetSignatures, SubmitInvalidate,
       SubmitSend, SubmitSetSubmitted, SetSubmitted, UpdateStatus
  <2>4. CASE Refresh(r)
    BY <2>4 DEF Refresh, RefreshCheck, RefreshUpdateStatus, RefreshConfirmMember,
       RefreshRemoveMember, UpdateStatus
  <2> QED
    BY <1>2, <2>1, <2>2, <2>3, <2>4 DEF Continue
<1>3. ASSUME NEW r \in Requests, Arrive(r) \/ Abort(r)
      PROVE  UNCHANGED signature
  BY <1>3 DEF Arrive, Enter, CheckBadge, TurnAway, SignGetById, SubmitGetById, RefreshGetById,
     ListAllPending, ExpirePending, Abort, Locally, repoVars
<1>4. LedgerStep \/ UNCHANGED vars => UNCHANGED signature
  BY DEF LedgerStep, vars, repoVars
<1> QED
  BY <1>1, <1>2, <1>3, <1>4 DEF Next

\* Inserting a signature leaves finitely many of them, so they can be counted.
LEMMA FiniteSignatures ==
  IInv /\ [Next]_vars => \A p \in Proposals : IsFiniteSet(signature'[p])
<1> SUFFICES ASSUME IInv, [Next]_vars, NEW p \in Proposals
             PROVE  IsFiniteSet(signature'[p])
  OBVIOUS
<1>1. IsFiniteSet(signature[p])
  BY DEF IInv, RowInv
<1>2. ASSUME NEW x PROVE IsFiniteSet(signature[p] \cup {x})
  BY <1>1, FS_AddElement
<1> QED
  BY <1>1, <1>2, SignatureStep

\* What entities were consulted about a proposal on record stays the same.
LEMMA ConsultedStays ==
  ASSUME IInv, Grows, DetailsStay, NEW p \in Proposals, row[p].status # "absent"
  PROVE  Consulted(p) \subseteq Entities /\ Consulted(p)' = Consulted(p)
BY DEF Consulted, Grows, RowsGrow, DetailsStay, IInv, RowInv

\* A number that was enough for some rules of the past still is, and so is any
\* larger one.
LEMMA EnoughGrows ==
  ASSUME IInv, Grows, NEW p \in Proposals, NEW es \in SUBSET Entities,
         NEW m \in Nat, NEW n \in Nat, m <= n, Enough(p, es, m)
  PROVE  Enough(p, es, n) /\ Enough(p, es, n)'
<1> SUFFICES ASSUME NEW e \in es
             PROVE  \E ru \in past[e] : ru \in past'[e] /\ n >= Threshold(ru)
  BY DEF Enough
<1>1. PICK ru \in past[e] : m >= Threshold(ru)
  BY DEF Enough
<1>2. ru \in past'[e] /\ Threshold(ru) \in Nat
  BY ThresholdType DEF Grows, IInv, TypeOK, LedgerTypeOK
<1> QED
  BY <1>1, <1>2

\* Signatures that met every threshold still do when more have come on record.
LEMMA MetGrows ==
  ASSUME IInv, Grows, DetailsStay, NEW p \in Proposals, row[p].status # "absent",
         IsFiniteSet(signature'[p]), Met(p)
  PROVE  Met(p)'
<1>1. /\ Cardinality(signature[p]) \in Nat /\ Cardinality(signature'[p]) \in Nat
      /\ Cardinality(signature[p]) <= Cardinality(signature'[p])
  BY FS_Subset, FS_CardinalityType DEF Grows, RowsGrow
<1>2. PICK es \in SUBSET Entities : es = Consulted(p) /\ es = Consulted(p)'
  BY ConsultedStays
<1>3. PICK n \in Nat : n = Cardinality(signature'[p])
  BY <1>1
<1>4. Enough(p, es, n)'
  BY <1>1, <1>2, <1>3, EnoughGrows DEF Met
<1> QED
  BY <1>2, <1>3, <1>4 DEF Met

\* Whatever entitles a handler to write a status stays true.
LEMMA JustifiedGrows ==
  ASSUME IInv, TypeOK', Grows, DetailsStay, NEW p \in Proposals, row[p].status # "absent",
         IsFiniteSet(signature'[p]), NEW s, Justified(p, s)
  PROVE  Justified(p, s)'
<1>1. s \in PastReady => Met(p)'
  BY MetGrows DEF Justified
<1>2. s \in {"submitted", "committed", "failed"} => (row[p].hash # Null)'
  BY DEF Justified, Grows, RowsGrow
<1>3. s = "committed" => Executed(p)'
  BY VerdictsStay DEF Justified
<1>4. s = "failed" => RefusedOnce(p)'
  BY VerdictsStay DEF Justified, RefusedOnce
<1>5. s = "expired" => Lapsed(p)'
  BY LapsedStays DEF Justified, IInv, TypeOK
<1> QED
  BY <1>1, <1>2, <1>3, <1>4, <1>5 DEF Justified

\* What a handler knows of its proposal is still true after any step.
LEMMA KnowledgeGrows ==
  ASSUME IInv, TypeOK', [Next]_vars, NEW p \in Proposals, row[p].status # "absent"
  PROVE  /\ row'[p].status # "absent"
         /\ detail'[p] = detail[p]
         /\ Consulted(p) \subseteq Entities /\ Consulted(p)' = Consulted(p)
         /\ signature[p] \subseteq signature'[p]
         /\ row[p].hash # Null => row'[p].hash # Null
         /\ Met(p) => Met(p)'
         /\ \A es \in SUBSET Entities, n \in Nat : Enough(p, es, n) => Enough(p, es, n)'
         /\ \A s : Justified(p, s) => Justified(p, s)'
         /\ Executed(p) => Executed(p)'
         /\ RefusedOnce(p) => RefusedOnce(p)'
         /\ IsExpired(p) => Lapsed(p)'
         /\ Lapsed(p) => Lapsed(p)'
         /\ \A i \in Intents : intent[i].proposal = p => intent'[i].proposal = p
<1>0. Grows /\ DetailsStay /\ IsFiniteSet(signature'[p])
  BY GrowsStep, FiniteSignatures
<1>1. /\ row'[p].status # "absent"
      /\ signature[p] \subseteq signature'[p]
      /\ row[p].hash # Null => row'[p].hash # Null
      /\ detail'[p] = detail[p]
  BY <1>0 DEF Grows, RowsGrow, DetailsStay
<1>2. Consulted(p) \subseteq Entities /\ Consulted(p)' = Consulted(p)
  BY <1>0, ConsultedStays
<1>3. \A es \in SUBSET Entities, n \in Nat : Enough(p, es, n) => Enough(p, es, n)'
  BY <1>0, EnoughGrows
<1>4. Met(p) => Met(p)'
  BY <1>0, MetGrows
<1>5. \A s : Justified(p, s) => Justified(p, s)'
  BY <1>0, JustifiedGrows
<1>6. /\ Executed(p) => Executed(p)'
      /\ RefusedOnce(p) => RefusedOnce(p)'
      /\ \A i \in Intents : intent[i].proposal = p => intent'[i].proposal = p
  BY <1>0, VerdictsStay DEF RefusedOnce
<1>7. (IsExpired(p) => Lapsed(p)') /\ (Lapsed(p) => Lapsed(p)')
  BY <1>0, LapsedStays DEF IInv, TypeOK
<1> QED
  BY <1>1, <1>2, <1>3, <1>4, <1>5, <1>6, <1>7

-----------------------------------------------------------------------------
(* What a step does to one row, one intent *)

\* A row is written only when it is inserted, with a status the writer is
\* entitled to, or with an intent that was handed over for it.
RowWrite(p) ==
  \/ row'[p] = row[p]
  \/ /\ row[p].status = "absent" /\ DetailInv(detail'[p])
     /\ \E e \in Entities, d \in Deadlines :
          row'[p] = [status |-> "created", entity |-> e, deadline |-> d, hash |-> Null]
  \/ \E s \in Statuses :
       /\ row[p].status # "absent" /\ Justified(p, s)
       /\ row'[p] = [row[p] EXCEPT !.status = s]
  \/ \E i \in Intents :
       /\ row[p].status # "absent" /\ Met(p) /\ intent[i].proposal = p
       /\ row'[p] = [row[p] EXCEPT !.status = "submitted", !.hash = i]

\* Once every rule has been read, the largest threshold covers them all.
LEMMA ReadingDone ==
  ASSUME IInv, NEW r \in Requests, req[r].pc \in {"sign.readRules", "submit.readRules"},
         req[r].unread = {}, Reached(req[r].sigs, req[r].need)
  PROVE  Met(ProposalOf(r))
<1>1. PICK p \in Proposals : p = ProposalOf(r) /\ row[p].status # "absent"
  BY DEF IInv, RequestInv, ActiveInv, SignPcs, SubmitPcs
<1>2. req[r].sigs \subseteq signature[p] /\ Enough(p, Consulted(p), req[r].need)
  BY <1>1 DEF IInv, RequestInv, ReadInv
<1>3. Cardinality(req[r].sigs) <= Cardinality(signature[p])
      /\ Cardinality(req[r].sigs) \in Nat /\ Cardinality(signature[p]) \in Nat
  BY <1>1, <1>2, FS_Subset, FS_CardinalityType DEF IInv, RowInv
<1>4. req[r].need \in Nat /\ req[r].need <= Cardinality(signature[p])
  BY <1>3 DEF IInv, TypeOK, RequestType, Reached
<1>5. ASSUME NEW e \in Consulted(p)
      PROVE  \E ru \in past[e] : Cardinality(signature[p]) >= Threshold(ru)
  <2>1. PICK ru \in past[e] : req[r].need >= Threshold(ru)
    BY <1>2 DEF Enough
  <2>2. e \in Entities
    BY <1>1 DEF Consulted, IInv, RowInv
  <2>3. Threshold(ru) \in Nat
    BY <2>2, ThresholdType DEF IInv, TypeOK, LedgerTypeOK
  <2> QED
    BY <1>3, <1>4, <2>1, <2>3
<1> QED
  BY <1>1, <1>5 DEF Met, Enough

\* Every write to a row is one a handler was entitled to when it wrote it.
LEMMA RowStep == IInv /\ [Next]_vars => \A p \in Proposals : RowWrite(p)
<1> SUFFICES ASSUME IInv, [Next]_vars, NEW p \in Proposals PROVE RowWrite(p)
  OBVIOUS
<1>0. row \in [Proposals -> RowType] /\ detail \in [Proposals -> DetailType]
  BY DEF IInv, TypeOK, RepoTypeOK, TeamRepoTypeOK
<1>a. UNCHANGED row => RowWrite(p)
  BY DEF RowWrite
<1>b. ASSUME NEW q \in Proposals, NEW s \in Statuses, UpdateStatus(q, s),
             row[q].status # "absent", Justified(q, s)
      PROVE  RowWrite(p)
  BY <1>b, <1>0 DEF UpdateStatus, RowWrite
<1>1. ASSUME NEW r \in Requests, Arrive(r)
      PROVE  RowWrite(p)
  <2>1. CASE ListAllPending(r)
    <3>1. Sweeps(p) => Justified(p, "expired") /\ row[p].status # "absent"
      BY DEF Sweeps, Justified, Lapsed, PastReady, PendingStatuses
    <3> QED
      BY <2>1, <3>1, <1>0, KnownStatuses DEF ListAllPending, ExpirePending, RowWrite
  <2>2. CASE UNCHANGED row
    BY <2>2, <1>a
  <2> QED
    BY <1>1, <2>1, <2>2 DEF Arrive, Enter, CheckBadge, TurnAway, SignGetById, SubmitGetById,
       RefreshGetById, Locally, repoVars
<1>2. ASSUME NEW r \in Requests, Continue(r)
      PROVE  RowWrite(p)
  <2>0. RequestInv(r)
    BY DEF IInv
  <2>q. req[r].pc \in {"expire"} \cup SignPcs \cup SubmitPcs \cup RefreshPcs =>
          ProposalOf(r) \in Proposals /\ row[ProposalOf(r)].status # "absent"
    BY <2>0 DEF RequestInv, ActiveInv
  <2>1. CASE CreateInsert(r)
    <3>1. CASE UNCHANGED repoVars
      BY <3>1, <1>a DEF repoVars
    <3>2. ASSUME NEW q \in Proposals,
                 InsertTeamProposal(q, req[r].draft.entity, req[r].draft.deadline,
                                    req[r].draft.detail)
          PROVE  RowWrite(p)
      <4>1. /\ req[r].draft.entity \in Entities /\ req[r].draft.deadline \in Deadlines
            /\ DetailInv(req[r].draft.detail)
        BY <2>0, <2>1 DEF CreateInsert, RequestInv, ActiveInv, At, CreatePcs, DraftType
      <4>2. CASE p = q
        <5>1. row'[p] = [status |-> "created", entity |-> req[r].draft.entity,
                         deadline |-> req[r].draft.deadline, hash |-> Null]
          BY <1>0, <3>2, <4>2 DEF InsertTeamProposal, Insert
        <5>2. detail'[p] = req[r].draft.detail
          BY <1>0, <3>2, <4>2 DEF InsertTeamProposal
        <5>3. row[p].status = "absent"
          BY <3>2, <4>2 DEF InsertTeamProposal, Insert
        <5> QED
          BY <4>1, <5>1, <5>2, <5>3 DEF RowWrite
      <4>3. CASE p # q
        BY <1>0, <3>2, <4>3 DEF InsertTeamProposal, Insert, RowWrite
      <4> QED
        BY <4>2, <4>3
    <3> QED
      BY <2>1, <3>1, <3>2 DEF CreateInsert
  <2>2. CASE Expire(r)
    <3>1. Justified(ProposalOf(r), "expired")
      BY <2>0, <2>2 DEF Expire, RequestInv, ActiveInv, Justified, PastReady
    <3> QED
      BY <2>2, <2>q, <3>1, <1>b, KnownStatuses DEF Expire, At
  <2>3. CASE SignUpdateStatus(r)
    <3>1. ProposalOf(r) \in Proposals /\ row[ProposalOf(r)].status # "absent"
      BY <2>3, <2>q DEF SignUpdateStatus, At, SignPcs
    <3>2. Justified(ProposalOf(r), "signing")
      BY DEF Justified, PastReady
    <3>3. Reached(req[r].sigs, req[r].need) => Justified(ProposalOf(r), "ready")
      BY <2>3, ReadingDone DEF SignUpdateStatus, At, Justified
    <3> QED
      BY <2>3, <3>1, <3>2, <3>3, <1>a, <1>b, KnownStatuses DEF SignUpdateStatus, repoVars
  <2>4. CASE SubmitInvalidate(r)
    <3>1. Justified(ProposalOf(r), "invalid")
      BY <2>0, <2>4 DEF SubmitInvalidate, RequestInv, SubmitInv, At, SubmitPcs, Justified
    <3> QED
      BY <2>4, <2>q, <3>1, <1>b, KnownStatuses DEF SubmitInvalidate, At, SubmitPcs
  <2>5. CASE SubmitSetSubmitted(r)
    <3> DEFINE q == ProposalOf(r)
               i == req[r].hash
    <3>1. /\ q \in Proposals /\ row[q].status # "absent"
          /\ i \in Intents /\ intent[i].proposal = q /\ Met(q)
      BY <2>5, <2>0, <2>q DEF SubmitSetSubmitted, RequestInv, SubmitInv, At, SubmitPcs
    <3>2. row' = [row EXCEPT ![q].status = "submitted", ![q].hash = i]
      BY <2>5 DEF SubmitSetSubmitted, SetSubmitted
    <3> HIDE DEF q, i
    <3>3. row'[p] = IF p = q THEN [row[p] EXCEPT !.status = "submitted", !.hash = i]
                             ELSE row[p]
      BY <3>1, <3>2, <1>0
    <3> QED
      BY <3>1, <3>3 DEF RowWrite
  <2>6. CASE RefreshUpdateStatus(r)
    <3>1. req[r].write \in Statuses /\ Justified(ProposalOf(r), req[r].write)
      BY <2>0, <2>6, KnownStatuses DEF RefreshUpdateStatus, RequestInv, RefreshInv
    <3> QED
      BY <2>6, <2>q, <3>1, <1>b DEF RefreshUpdateStatus, At, RefreshPcs
  <2>7. CASE UNCHANGED row
    BY <2>7, <1>a
  <2>8. CASE Create(r)
    <3>1. Composes(r) => UNCHANGED row
      BY ComposesFrame DEF repoVars
    <3> QED
      BY <2>1, <2>7, <2>8, <3>1 DEF Create, Composes, CreateInsertMember, repoVars
  <2> QED
    BY <1>2, <2>2, <2>3, <2>4, <2>5, <2>6, <2>7, <2>8 DEF Continue, Sign, Submit,
       Refresh, SignIsExpired, SignValidate, SignAddSignature, AddSignature, SignGetSignatures,
       SubmitIsExpired, SubmitGetSignatures, GetSignatures, ReadRule, SubmitSend, RefreshCheck,
       RefreshConfirmMember, RefreshRemoveMember, Locally, repoVars
<1>3. ASSUME NEW r \in Requests, Abort(r)
      PROVE  RowWrite(p)
  BY <1>3, <1>a DEF Abort, Locally, repoVars
<1>4. LedgerStep \/ UNCHANGED vars => UNCHANGED row
  BY DEF LedgerStep, vars, repoVars
<1> QED
  BY <1>1, <1>2, <1>3, <1>4, <1>a DEF Next

\* An intent is handed over for a proposal on record; after that the ledger alone
\* decides its state.
IntentWrite(i) ==
  \/ intent'[i] = intent[i]
  \/ /\ intent[i].proposal # Null /\ intent'[i].proposal = intent[i].proposal
     /\ intent'[i].state # "absent"
  \/ /\ intent'[i].state = "pending"
     /\ intent'[i].proposal \in Proposals /\ row[intent'[i].proposal].status # "absent"

\* An intent changes only when submit hands it over or the ledger settles it.
LEMMA IntentStep == IInv /\ [Next]_vars => \A i \in Intents : IntentWrite(i)
<1> SUFFICES ASSUME IInv, [Next]_vars, NEW i \in Intents PROVE IntentWrite(i)
  OBVIOUS
<1>0. intent \in [Intents -> IntentType] /\ LedgerInv
  BY DEF IInv, TypeOK, LedgerTypeOK
<1>a. UNCHANGED intent => IntentWrite(i)
  BY DEF IntentWrite
<1>1. ASSUME NEW r \in Requests, SubmitSend(r)
      PROVE  IntentWrite(i)
  <2> DEFINE p == ProposalOf(r)
  <2>1. p \in Proposals /\ row[p].status # "absent"
    BY <1>1 DEF SubmitSend, IInv, RequestInv, ActiveInv, At, SubmitPcs
  <2>2. \/ UNCHANGED intent
        \/ \E j \in Intents : intent' = [intent EXCEPT ![j] =
             [state |-> "pending", proposal |-> p, keys |-> KeysOf(req[r].sigs)]]
    BY <1>1 DEF SubmitSend, SubmitWithSubintent
  <2> HIDE DEF p
  <2> QED
    BY <1>0, <1>a, <2>1, <2>2 DEF IntentWrite
<1>2. CASE LedgerStep
  <2>1. ASSUME NEW j \in Intents, NEW p \in Proposals, ExecuteTeamProposal(j, p)
        PROVE  IntentWrite(i)
    BY <2>1, <1>0 DEF ExecuteTeamProposal, Execute, LedgerInv, IntentWrite, IntentType
  <2>2. ASSUME NEW j \in Intents, Refuse(j)
        PROVE  IntentWrite(i)
    BY <2>2, <1>0 DEF Refuse, LedgerInv, IntentWrite, IntentType
  <2> QED
    BY <1>2, <2>1, <2>2, <1>a DEF LedgerStep, ledgerVars
<1>3. UNCHANGED chainVars => UNCHANGED intent
  BY DEF chainVars, ledgerVars
<1> QED
  BY <1>1, <1>2, <1>3, <1>a, ChainFrame

\* The ledger's rules stay on record, and its intents name proposals on record.
LEMMA LedgerInvStep == IInv /\ TypeOK' /\ [Next]_vars => LedgerInv'
<1> SUFFICES ASSUME IInv, TypeOK', [Next]_vars PROVE LedgerInv'
  OBVIOUS
<1>0. LedgerTypeOK /\ LedgerInv
  BY DEF IInv, TypeOK
<1>1. \A e \in Entities : rule'[e] \in past'[e]
  <2>1. CASE UNCHANGED <<rule, past>>
    BY <2>1, <1>0 DEF LedgerInv
  <2>2. ASSUME NEW i \in Intents, NEW p \in Proposals, ExecuteTeamProposal(i, p)
        PROVE  \A e \in Entities : rule'[e] \in past'[e]
    BY <2>2 DEF ExecuteTeamProposal
  <2>3. CASE UNCHANGED chainVars
    BY <2>1, <2>3 DEF chainVars, ledgerVars
  <2>4. CASE LedgerStep
    BY <2>1, <2>2, <2>4 DEF LedgerStep, ledgerVars
  <2>5. ASSUME NEW r \in Requests, SubmitSend(r) PROVE UNCHANGED <<rule, past>>
    BY <2>5 DEF SubmitSend
  <2> QED
    BY <2>1, <2>3, <2>4, <2>5, ChainFrame
<1>2. ASSUME NEW i \in Intents
      PROVE  IF intent'[i].proposal = Null
               THEN intent'[i].state = "absent"
               ELSE /\ intent'[i].state # "absent"
                    /\ row'[intent'[i].proposal].status # "absent"
  <2>1. IntentWrite(i) /\ intent[i] \in IntentType
    BY <1>0, IntentStep DEF LedgerTypeOK
  <2>2. \A p \in Proposals : row[p].status # "absent" => row'[p].status # "absent"
    BY GrowsStep DEF Grows, RowsGrow
  <2>3. CASE intent'[i] = intent[i]
    BY <1>0, <2>1, <2>2, <2>3 DEF LedgerInv, IntentType
  <2>4. CASE /\ intent[i].proposal # Null /\ intent'[i].proposal = intent[i].proposal
             /\ intent'[i].state # "absent"
    <3>1. intent[i].proposal \in Proposals
      BY <2>1, <2>4 DEF IntentType
    <3> QED
      BY <1>0, <2>2, <2>4, <3>1 DEF LedgerInv
  <2>5. CASE /\ intent'[i].state = "pending" /\ intent'[i].proposal \in Proposals
             /\ row[intent'[i].proposal].status # "absent"
    BY <2>2, <2>5
  <2> QED
    BY <2>1, <2>3, <2>4, <2>5 DEF IntentWrite
<1> QED
  BY <1>1, <1>2 DEF LedgerInv

\* Each row keeps its invariant, whoever writes it and however late.
LEMMA RowInvStep ==
  ASSUME IInv, TypeOK', [Next]_vars, NEW p \in Proposals
  PROVE  RowInv(p)'
<1>0. /\ RowInv(p) /\ RowWrite(p) /\ row[p] \in RowType
      /\ IsFiniteSet(signature'[p])
  BY RowStep, FiniteSignatures DEF IInv, TypeOK, RepoTypeOK
<1>f. \/ /\ row'[p].status = row[p].status
         /\ row'[p].entity = row[p].entity /\ row'[p].hash = row[p].hash
      \/ /\ row[p].status = "absent" /\ row'[p].status = "created"
         /\ row'[p].entity \in Entities /\ row'[p].hash = Null /\ DetailInv(detail'[p])
      \/ \E s \in Statuses :
           /\ row[p].status # "absent" /\ Justified(p, s) /\ row'[p].status = s
           /\ row'[p].entity = row[p].entity /\ row'[p].hash = row[p].hash
      \/ \E i \in Intents :
           /\ row[p].status # "absent" /\ Met(p) /\ intent[i].proposal = p
           /\ row'[p].status = "submitted"
           /\ row'[p].entity = row[p].entity /\ row'[p].hash = i
  <2>1. CASE row'[p] = row[p]
    BY <2>1
  <2>2. ASSUME NEW e \in Entities, NEW d \in Deadlines, row'[p] =
                 [status |-> "created", entity |-> e, deadline |-> d, hash |-> Null]
        PROVE  row'[p].status = "created" /\ row'[p].entity \in Entities /\ row'[p].hash = Null
    BY <2>2
  <2>3. ASSUME NEW s, row'[p] = [row[p] EXCEPT !.status = s]
        PROVE  /\ row'[p].status = s
               /\ row'[p].entity = row[p].entity /\ row'[p].hash = row[p].hash
    BY <2>3, <1>0 DEF RowType
  <2>4. ASSUME NEW i, row'[p] = [row[p] EXCEPT !.status = "submitted", !.hash = i]
        PROVE  /\ row'[p].status = "submitted"
               /\ row'[p].entity = row[p].entity /\ row'[p].hash = i
    BY <2>4, <1>0 DEF RowType
  <2> QED
    BY <1>0, <2>1, <2>2, <2>3, <2>4 DEF RowWrite
<1>1. row'[p].status = "absent" => row'[p].hash = Null
  BY <1>0, <1>f, KnownStatuses DEF RowInv
<1>2. row'[p].status # "absent" => row'[p].entity \in Entities /\ DetailInv(detail'[p])
  <2>1. row[p].status # "absent" =>
          row[p].entity \in Entities /\ DetailInv(detail[p]) /\ detail'[p] = detail[p]
    BY <1>0, KnowledgeGrows DEF RowInv
  <2> QED
    BY <1>f, <2>1
<1>3. row'[p].hash # Null => intent'[row'[p].hash].proposal = p
  <2>1. ASSUME NEW i \in Intents, intent[i].proposal = p PROVE intent'[i].proposal = p
    BY <2>1, GrowsStep, VerdictsStay
  <2>2. row[p].hash # Null => row[p].hash \in Intents /\ intent[row[p].hash].proposal = p
    BY <1>0 DEF RowInv, RowType
  <2> QED
    BY <1>f, <2>1, <2>2
<1>4. Justified(p, row[p].status)'
  <2>1. ASSUME NEW t \in {"absent", "created"}, row'[p].status = t
        PROVE  Justified(p, row[p].status)'
    BY <2>1 DEF Justified, PastReady
  <2>2. ASSUME NEW t, Justified(p, t), row'[p].status = t, row[p].status # "absent"
        PROVE  Justified(p, row[p].status)'
    <3>1. Justified(p, t)'
      BY <2>2, KnowledgeGrows
    <3> QED
      BY <2>2, <3>1 DEF Justified
  <2>3. ASSUME NEW i \in Intents, row[p].status # "absent", Met(p),
               row'[p].status = "submitted", row'[p].hash = i
        PROVE  Justified(p, row[p].status)'
    <3>1. Met(p)'
      BY <2>3, KnowledgeGrows
    <3> QED
      BY <2>3, <3>1 DEF Justified
  <2> QED
    BY <1>0, <1>f, <2>1, <2>2, <2>3 DEF RowInv
<1> QED
  BY <1>0, <1>1, <1>2, <1>3, <1>4 DEF RowInv

-----------------------------------------------------------------------------
(* Requests in flight *)

\* A slot that is empty, or waits at the gate, knows nothing of a proposal.
LEMMA WaitingInv ==
  ASSUME NEW r,
         \/ req'[r].pc = "idle"
         \/ req'[r].pc \in {"membership", "gate"} /\ req'[r].account \in Accounts
  PROVE  RequestInv(r)'
BY DEF At, RequestInv, ActiveInv, ReadInv, SignInv, SubmitInv, RefreshInv, CreatePcs, SignPcs,
   SubmitPcs, RefreshPcs

\* So does one that drafts a proposal.
LEMMA DraftingInv ==
  ASSUME NEW r, req'[r].pc \in CreatePcs, req'[r].draft \in DraftType,
         DetailInv(req'[r].draft.detail)
  PROVE  RequestInv(r)'
BY DEF At, RequestInv, ActiveInv, ReadInv, SignInv, SubmitInv, RefreshInv, CreatePcs, SignPcs,
   SubmitPcs, RefreshPcs, DetailInv

\* A request whose slot a step leaves alone keeps its invariant, whatever the
\* step does to the tables and to the ledger.
LEMMA RequestStable ==
  ASSUME IInv, TypeOK', [Next]_vars, NEW r \in Requests, req'[r] = req[r]
  PROVE  RequestInv(r)'
<1>0. RequestInv(r) /\ req[r] \in RequestType
  BY DEF IInv, TypeOK
<1>1. CASE req[r].pc \in {"idle", "membership", "gate"}
  BY <1>0, <1>1, WaitingInv DEF RequestInv, ActiveInv
<1>2. CASE req[r].pc \in CreatePcs
  BY <1>0, <1>2, DraftingInv DEF RequestInv, ActiveInv
<1>3. CASE req[r].pc \in {"expire"} \cup SignPcs \cup SubmitPcs \cup RefreshPcs
  <2>0. PICK p \in Proposals : p = ProposalOf(r) /\ p = ProposalOf(r)' /\ row[p].status # "absent"
    BY <1>0, <1>3 DEF RequestInv, ActiveInv, ProposalOf
  <2>1. ActiveInv(r)'
    BY <1>0, <1>3, <2>0, KnowledgeGrows DEF RequestInv, ActiveInv, At, CreatePcs, SignPcs,
       SubmitPcs, RefreshPcs
  <2>2. ReadInv(r)'
    <3> SUFFICES ASSUME req[r].pc \in {"sign.readRules", "submit.readRules"}
                 PROVE  /\ req[r].sigs \subseteq signature'[p]
                        /\ Enough(p, Consulted(p) \ req[r].unread, req[r].need)'
      BY <2>0 DEF ReadInv
    <3> DEFINE es == Consulted(p) \ req[r].unread
    <3>1. req[r].sigs \subseteq signature[p] /\ Enough(p, es, req[r].need)
      BY <1>0, <2>0 DEF RequestInv, ReadInv
    <3>2. es \in SUBSET Entities /\ req[r].need \in Nat /\ Consulted(p)' = Consulted(p)
      BY <1>0, <2>0, KnowledgeGrows DEF RequestType
    <3>3. PICK fs \in SUBSET Entities, n \in Nat :
            fs = es /\ n = req[r].need /\ fs = (Consulted(p) \ req[r].unread)' /\ n = req'[r].need
      BY <3>2
    <3> HIDE DEF es
    <3>4. Enough(p, fs, n)'
      BY <2>0, <3>1, <3>3, KnowledgeGrows
    <3> QED
      BY <2>0, <3>1, <3>3, <3>4, KnowledgeGrows
  <2>3. SignInv(r)'
    BY <1>0 DEF RequestInv, SignInv
  <2>4. SubmitInv(r)'
    BY <1>0, <2>0, KnowledgeGrows DEF RequestInv, SubmitInv, At
  <2>5. RefreshInv(r)'
    BY <1>0, <2>0, KnowledgeGrows DEF RequestInv, RefreshInv, At
  <2> QED
    BY <2>1, <2>2, <2>3, <2>4, <2>5 DEF RequestInv
<1> QED
  BY <1>0, <1>1, <1>2, <1>3 DEF RequestType, Pcs

\* sign and submit, between the gate and the row they write: the proposal is on
\* record, and the key was asked for.
LEMMA SignPoint ==
  ASSUME NEW r, NEW p \in Proposals, ProposalOf(r)' = p, row'[p].status # "absent",
         req'[r].pc \in SignPcs \ {"sign.readRules"},
         req'[r].account \in Accounts, req'[r].key \in Keys
  PROVE  RequestInv(r)'
BY DEF At, RequestInv, ActiveInv, ReadInv, SignInv, SubmitInv, RefreshInv, CreatePcs, SignPcs,
   SubmitPcs, RefreshPcs

\* submit: every threshold had been met.
LEMMA SubmitPoint ==
  ASSUME NEW r, NEW p \in Proposals, ProposalOf(r)' = p, row'[p].status # "absent", Met(p)',
         \/ req'[r].pc \in {"submit.isExpired", "submit.getSignatures"}
         \/ /\ req'[r].pc = "submit.setSubmitted"
            /\ req'[r].hash \in Intents /\ intent'[req'[r].hash].proposal = p
  PROVE  RequestInv(r)'
BY DEF At, RequestInv, ActiveInv, ReadInv, SignInv, SubmitInv, RefreshInv, CreatePcs, SignPcs,
   SubmitPcs, RefreshPcs

\* Reading the rules: what has been read so far is covered.
LEMMA ReadPoint ==
  ASSUME NEW r, NEW p \in Proposals, ProposalOf(r)' = p, row'[p].status # "absent",
         \/ /\ req'[r].pc = "sign.readRules"
            /\ req'[r].account \in Accounts /\ req'[r].key \in Keys
         \/ req'[r].pc = "submit.readRules" /\ Met(p)',
         req'[r].sigs \subseteq signature'[p],
         Enough(p, Consulted(p) \ req[r].unread, req[r].need)'
  PROVE  RequestInv(r)'
BY DEF At, RequestInv, ActiveInv, ReadInv, SignInv, SubmitInv, RefreshInv, CreatePcs, SignPcs,
   SubmitPcs, RefreshPcs

\* The row that is late is marked so.
LEMMA ExpirePoint ==
  ASSUME NEW r, NEW p \in Proposals, ProposalOf(r)' = p, row'[p].status # "absent", Lapsed(p)',
         req'[r].pc = "expire"
  PROVE  RequestInv(r)'
BY DEF At, RequestInv, ActiveInv, ReadInv, SignInv, SubmitInv, RefreshInv, CreatePcs, SignPcs,
   SubmitPcs, RefreshPcs

\* refreshStatus: what it asks about, and what it has learned.
LEMMA RefreshPoint ==
  ASSUME NEW r, NEW p \in Proposals, ProposalOf(r)' = p, row'[p].status # "absent", Met(p)',
         row'[p].hash # Null,
         \/ /\ req'[r].pc = "refresh.check"
            /\ req'[r].hash \in Intents /\ intent'[req'[r].hash].proposal = p
         \/ /\ req'[r].pc = "refresh.updateStatus"
            /\ req'[r].hash \in Intents /\ intent'[req'[r].hash].proposal = p
            /\ req'[r].write \in {"committed", "failed"} /\ Justified(p, req[r].write)'
         \/ /\ req'[r].pc = "refresh.confirmMember"
            /\ detail'[p].kind = "add_member" /\ Executed(p)'
         \/ /\ req'[r].pc = "refresh.removeMember"
            /\ \/ detail'[p].kind = "remove_member" /\ Executed(p)'
               \/ detail'[p].kind = "add_member" /\ RefusedOnce(p)'
  PROVE  RequestInv(r)'
BY DEF At, RequestInv, ActiveInv, ReadInv, SignInv, SubmitInv, RefreshInv, CreatePcs, SignPcs,
   SubmitPcs, RefreshPcs

\* A finished request knows nothing.
LEMMA FinishInv ==
  ASSUME IInv, NEW r \in Requests, Finish(r) \/ Locally(r, Idle)
  PROVE  RequestInv(r)'
<1>1. req'[r].pc = "idle"
  BY DEF Finish, Locally, Idle, IInv, TypeOK
<1> QED
  BY <1>1, WaitingInv

\* create: what is drafted can be stored.
LEMMA CreateInv ==
  ASSUME IInv, NEW r \in Requests, Create(r)
  PROVE  RequestInv(r)'
<1>0. RequestInv(r) /\ req \in [Requests -> RequestType] /\ req[r] \in RequestType
  BY DEF IInv, TypeOK
<1>1. CASE Composes(r)
  <2>1. ASSUME NEW d \in DraftType, DetailInv(d.detail), Drafts(r, d)
        PROVE  RequestInv(r)'
    <3>1. PICK pc \in CreatePcs : Locally(r, [Idle EXCEPT !.pc = pc, !.draft = d])
      BY <2>1 DEF Drafts
    <3>2. req'[r].pc = pc /\ req'[r].draft = d
      BY <1>0, <3>1 DEF Locally, Idle
    <3> QED
      BY <2>1, <3>2, DraftingInv
  <2> QED
    BY <1>0, <1>1, <2>1, Drafting, FinishInv DEF IInv
<1>2. CASE CreateInsertMember(r)
  <2>1. req'[r].pc = "create.insert" /\ req'[r].draft = req[r].draft
    BY <1>0, <1>2 DEF CreateInsertMember, Goto, RequestType
  <2>2. req[r].draft \in DraftType /\ DetailInv(req[r].draft.detail)
    BY <1>0, <1>2 DEF CreateInsertMember, RequestInv, ActiveInv, At, CreatePcs
  <2> QED
    BY <2>1, <2>2, DraftingInv DEF CreatePcs
<1>3. CASE CreateInsert(r)
  BY <1>3, FinishInv DEF CreateInsert
<1> QED
  BY <1>1, <1>2, <1>3 DEF Create, Composes

\* Reading one more rule: the largest threshold seen covers that one too.
LEMMA ReadRuleInv ==
  ASSUME IInv, TypeOK', [Next]_vars, NEW r \in Requests, NEW e \in Entities, ReadRule(r, e)
  PROVE  RequestInv(r)'
<1>0. RequestInv(r) /\ req \in [Requests -> RequestType] /\ req[r] \in RequestType
  BY DEF IInv, TypeOK
<1>1. PICK p \in Proposals : p = ProposalOf(r) /\ row[p].status # "absent"
  BY <1>0 DEF ReadRule, RequestInv, ActiveInv, SignPcs, SubmitPcs
<1> DEFINE n == Larger(req[r].need, Threshold(rule[e]))
           es == Consulted(p) \ (req[r].unread \ {e})
<1>2. /\ req[r].need \in Nat /\ Threshold(rule[e]) \in Nat
      /\ n \in Nat /\ req[r].need <= n /\ Threshold(rule[e]) <= n
  <2>1. req[r].need \in Nat /\ Threshold(rule[e]) \in Nat
    BY <1>0, ThresholdType DEF IInv, TypeOK, LedgerTypeOK, RequestType
  <2> QED
    BY <2>1 DEF Larger
<1>3. /\ ProposalOf(r)' = p /\ req'[r].pc = req[r].pc /\ req'[r].account = req[r].account
      /\ req'[r].key = req[r].key /\ req'[r].sigs = req[r].sigs
      /\ req'[r].unread = req[r].unread \ {e} /\ req'[r].need = n
  <2> HIDE DEF n
  <2>1. req' = [req EXCEPT ![r] = [req[r] EXCEPT !.unread = req[r].unread \ {e}, !.need = n]]
    BY DEF ReadRule, Locally, n
  <2> QED
    BY <1>0, <1>1, <2>1 DEF ProposalOf, RequestType
<1>4. /\ req[r].sigs \subseteq signature[p]
      /\ Enough(p, Consulted(p) \ req[r].unread, req[r].need)
  BY <1>0, <1>1 DEF ReadRule, RequestInv, ReadInv
<1>5. Enough(p, es, n)
  <2> SUFFICES ASSUME NEW f \in es PROVE \E ru \in past[f] : n >= Threshold(ru)
    BY DEF Enough
  <2>1. CASE f = e
    BY <1>2, <2>1 DEF IInv, LedgerInv
  <2>2. CASE f # e
    <3>1. PICK ru \in past[f] : req[r].need >= Threshold(ru)
      BY <1>4, <2>2 DEF Enough
    <3>2. f \in Entities
      BY <1>1, KnowledgeGrows
    <3>3. Threshold(ru) \in Nat
      BY <3>2, ThresholdType DEF IInv, TypeOK, LedgerTypeOK
    <3> QED
      BY <1>2, <3>1, <3>3
  <2> QED
    BY <2>1, <2>2
<1>6. PICK fs \in SUBSET Entities, m \in Nat : fs = es /\ m = n
  BY <1>1, <1>2, KnowledgeGrows
<1>7. Enough(p, fs, m)'
  BY <1>1, <1>5, <1>6, KnowledgeGrows
<1> HIDE DEF n
<1>8. Consulted(p)' \ req'[r].unread = fs /\ req'[r].need = m
  BY <1>1, <1>3, <1>6, KnowledgeGrows
<1>9. Enough(p, Consulted(p) \ req[r].unread, req[r].need)'
  BY <1>7, <1>8
<1>10. /\ row'[p].status # "absent" /\ req'[r].sigs \subseteq signature'[p]
       /\ Met(p) => Met(p)'
  BY <1>1, <1>3, <1>4, KnowledgeGrows
<1>11. CASE req[r].pc = "sign.readRules"
  <2>1. req[r].account \in Accounts /\ req[r].key \in Keys
    BY <1>0, <1>11 DEF RequestInv, ActiveInv, SignInv, SignPcs
  <2> QED
    BY <1>3, <1>9, <1>10, <1>11, <2>1, ReadPoint
<1>12. CASE req[r].pc = "submit.readRules"
  <2>1. Met(p)
    BY <1>0, <1>1, <1>12 DEF RequestInv, SubmitInv, SubmitPcs
  <2> QED
    BY <1>3, <1>9, <1>10, <1>12, <2>1, ReadPoint
<1> QED
  BY <1>11, <1>12 DEF ReadRule

\* Before the first rule is read nothing needs to be covered.
LEMMA GetSignaturesInv ==
  ASSUME IInv, TypeOK', [Next]_vars, NEW r \in Requests,
         SignGetSignatures(r) \/ SubmitGetSignatures(r)
  PROVE  RequestInv(r)'
<1>0. RequestInv(r) /\ req \in [Requests -> RequestType] /\ req[r] \in RequestType
  BY DEF IInv, TypeOK
<1>1. PICK p \in Proposals : p = ProposalOf(r) /\ row[p].status # "absent"
  BY <1>0 DEF SignGetSignatures, SubmitGetSignatures, GetSignatures, At, RequestInv, ActiveInv,
     SignPcs, SubmitPcs
<1>2. PICK pc : /\ Locally(r, [req[r] EXCEPT !.pc = pc, !.need = 0, !.sigs = signature[p],
                                             !.unread = Consulted(p)])
                /\ \/ At(r, "sign.getSignatures") /\ pc = "sign.readRules"
                   \/ At(r, "submit.getSignatures") /\ pc = "submit.readRules"
  BY <1>1 DEF SignGetSignatures, SubmitGetSignatures, GetSignatures
<1>3. /\ ProposalOf(r)' = p /\ req'[r].pc = pc /\ req'[r].account = req[r].account
      /\ req'[r].key = req[r].key /\ req'[r].sigs = signature[p]
      /\ req'[r].unread = Consulted(p) /\ req'[r].need = 0
  BY <1>0, <1>1, <1>2 DEF Locally, ProposalOf, RequestType
<1>4. /\ row'[p].status # "absent" /\ Consulted(p)' = Consulted(p)
      /\ signature[p] \subseteq signature'[p] /\ (Met(p) => Met(p)')
  BY <1>1, KnowledgeGrows
<1>5. Consulted(p)' \ req'[r].unread = {}
  BY <1>3, <1>4
<1>6. Enough(p, Consulted(p) \ req[r].unread, req[r].need)'
  BY <1>5 DEF Enough
<1>7. CASE At(r, "sign.getSignatures") /\ pc = "sign.readRules"
  <2>1. req[r].account \in Accounts /\ req[r].key \in Keys
    BY <1>0, <1>7 DEF At, RequestInv, ActiveInv, SignInv, SignPcs
  <2> QED
    BY <1>3, <1>4, <1>6, <1>7, <2>1, ReadPoint
<1>8. CASE At(r, "submit.getSignatures") /\ pc = "submit.readRules"
  <2>1. Met(p)
    BY <1>0, <1>1, <1>8 DEF At, RequestInv, SubmitInv, SubmitPcs
  <2> QED
    BY <1>3, <1>4, <1>6, <1>8, <2>1, ReadPoint
<1> QED
  BY <1>2, <1>7, <1>8

\* The checks of the deadline, and the rest of sign and submit.
LEMMA SignSubmitInv ==
  ASSUME IInv, TypeOK', [Next]_vars, NEW r \in Requests, Expire(r) \/ Sign(r) \/ Submit(r)
  PROVE  RequestInv(r)'
<1>0. RequestInv(r) /\ req \in [Requests -> RequestType] /\ req[r] \in RequestType
  BY DEF IInv, TypeOK
<1>1. PICK p \in Proposals : p = ProposalOf(r) /\ row[p].status # "absent"
  BY <1>0 DEF Expire, Sign, Submit, SignIsExpired, SignValidate, SignAddSignature,
     SignGetSignatures, GetSignatures, SignUpdateStatus, SubmitIsExpired, SubmitGetSignatures,
     SubmitInvalidate, SubmitSend, SubmitSetSubmitted, At, RequestInv, ActiveInv, SignPcs,
     SubmitPcs
<1>k. /\ row'[p].status # "absent" /\ (Met(p) => Met(p)') /\ (IsExpired(p) => Lapsed(p)')
  BY <1>1, KnowledgeGrows
<1>s. req[r].pc \in SignPcs => req[r].account \in Accounts /\ req[r].key \in Keys
  BY <1>0 DEF RequestInv, ActiveInv, SignInv
<1>m. req[r].pc \in SubmitPcs => Met(p)
  BY <1>0, <1>1 DEF RequestInv, SubmitInv
<1>g. ASSUME NEW pc, Goto(r, pc) \/ Locally(r, [req[r] EXCEPT !.pc = pc])
      PROVE  /\ ProposalOf(r)' = p /\ req'[r].pc = pc
             /\ req'[r].account = req[r].account /\ req'[r].key = req[r].key
  BY <1>0, <1>1, <1>g DEF Goto, Locally, ProposalOf, RequestType
<1>2. CASE Expire(r) \/ SignUpdateStatus(r) \/ SubmitInvalidate(r) \/ SubmitSetSubmitted(r)
  BY <1>2, FinishInv DEF Expire, SignUpdateStatus, SubmitInvalidate, SubmitSetSubmitted
<1>3. CASE SignIsExpired(r)
  <2>1. CASE IsExpired(p)
    <3>1. Locally(r, [req[r] EXCEPT !.pc = "expire"])
      BY <1>1, <1>3, <2>1 DEF SignIsExpired
    <3> QED
      BY <1>g, <1>k, <2>1, <3>1, ExpirePoint
  <2>2. CASE ~ IsExpired(p)
    <3>1. Locally(r, [req[r] EXCEPT !.pc = "sign.validate"]) /\ req[r].pc \in SignPcs
      BY <1>1, <1>3, <2>2 DEF SignIsExpired, At, SignPcs
    <3> QED
      BY <1>g, <1>k, <1>s, <3>1, SignPoint DEF SignPcs
  <2> QED
    BY <2>1, <2>2
<1>4. CASE SignValidate(r)
  <2>1. CASE Locally(r, [req[r] EXCEPT !.pc = "sign.addSignature"])
    BY <1>4, <1>g, <1>k, <1>s, <2>1, SignPoint DEF SignValidate, At, SignPcs
  <2>2. CASE Locally(r, Idle)
    BY <2>2, FinishInv
  <2> QED
    BY <1>4, <2>1, <2>2 DEF SignValidate
<1>5. CASE SignAddSignature(r)
  <2>1. CASE Goto(r, "sign.getSignatures")
    BY <1>5, <1>g, <1>k, <1>s, <2>1, SignPoint DEF SignAddSignature, At, SignPcs
  <2>2. CASE Finish(r)
    BY <2>2, FinishInv
  <2> QED
    BY <1>5, <2>1, <2>2 DEF SignAddSignature
<1>6. CASE SignGetSignatures(r) \/ SubmitGetSignatures(r)
  BY <1>6, GetSignaturesInv
<1>7. CASE SubmitIsExpired(r)
  <2>1. CASE IsExpired(p)
    <3>1. Locally(r, [req[r] EXCEPT !.pc = "expire"])
      BY <1>1, <1>7, <2>1 DEF SubmitIsExpired
    <3> QED
      BY <1>g, <1>k, <2>1, <3>1, ExpirePoint
  <2>2. CASE ~ IsExpired(p)
    <3>1. Locally(r, [req[r] EXCEPT !.pc = "submit.getSignatures"]) /\ req[r].pc \in SubmitPcs
      BY <1>1, <1>7, <2>2 DEF SubmitIsExpired, At, SubmitPcs
    <3> QED
      BY <1>g, <1>k, <1>m, <3>1, SubmitPoint
  <2> QED
    BY <2>1, <2>2
<1>8. CASE SubmitSend(r)
  <2>1. ASSUME NEW i \in Intents, SubmitWithSubintent(i, p, KeysOf(req[r].sigs)),
               req' = [req EXCEPT ![r].pc = "submit.setSubmitted", ![r].hash = i]
        PROVE  RequestInv(r)'
    <3>1. ProposalOf(r)' = p /\ req'[r].pc = "submit.setSubmitted" /\ req'[r].hash = i
      BY <1>0, <1>1, <2>1 DEF ProposalOf, RequestType
    <3>2. intent'[i].proposal = p
      BY <2>1 DEF SubmitWithSubintent, IInv, TypeOK, LedgerTypeOK
    <3>3. Met(p)
      BY <1>8, <1>m DEF SubmitSend, At, SubmitPcs
    <3> QED
      BY <1>k, <3>1, <3>2, <3>3, SubmitPoint
  <2> QED
    BY <1>1, <1>8, <2>1, FinishInv DEF SubmitSend
<1> QED
  BY <1>2, <1>3, <1>4, <1>5, <1>6, <1>7, <1>8 DEF Sign, Submit

\* refreshStatus: the verdict it carries from the Gateway to the row, and from
\* the row to the member table, is the ledger's.
LEMMA RefreshStepInv ==
  ASSUME IInv, TypeOK', [Next]_vars, NEW r \in Requests, Refresh(r)
  PROVE  RequestInv(r)'
<1>0. RequestInv(r) /\ req \in [Requests -> RequestType] /\ req[r] \in RequestType
  BY DEF IInv, TypeOK
<1>p. req[r].pc \in RefreshPcs
  BY DEF Refresh, RefreshCheck, RefreshUpdateStatus, RefreshConfirmMember, RefreshRemoveMember,
     At, RefreshPcs
<1>1. PICK p \in Proposals : p = ProposalOf(r) /\ row[p].status # "absent"
  BY <1>0, <1>p DEF RequestInv, ActiveInv
<1>2. Met(p) /\ row[p].hash # Null
  BY <1>0, <1>1, <1>p DEF RequestInv, RefreshInv
<1>k. /\ row'[p].status # "absent" /\ Met(p)' /\ row'[p].hash # Null /\ detail'[p] = detail[p]
      /\ Executed(p) => Executed(p)'
      /\ RefusedOnce(p) => RefusedOnce(p)'
      /\ \A s : Justified(p, s) => Justified(p, s)'
      /\ \A i \in Intents : intent[i].proposal = p => intent'[i].proposal = p
  BY <1>1, <1>2, KnowledgeGrows
<1>3. CASE RefreshCheck(r)
  <2> DEFINE i == req[r].hash
  <2>1. PICK reported \in View(intent[i].state) :
          IF StatusAfterCheck(reported) = Null
            THEN Locally(r, Idle)
            ELSE Locally(r, [req[r] EXCEPT !.pc = "refresh.updateStatus",
                                           !.write = StatusAfterCheck(reported)])
    BY <1>3 DEF RefreshCheck
  <2>2. i \in Intents /\ intent[i].proposal = p
    BY <1>0, <1>1, <1>3 DEF RefreshCheck, RequestInv, RefreshInv, At
  <2>3. /\ reported = "CommittedSuccess" => Executed(p)
        /\ reported \in {"CommittedFailure", "Rejected"} => RefusedOnce(p)
    BY <2>2 DEF View, Executed, RefusedOnce, Handed
  <2>4. ASSUME NEW s \in {"committed", "failed"}, s = StatusAfterCheck(reported)
        PROVE  Justified(p, s)
    <3>1. /\ s = "committed" => reported = "CommittedSuccess"
          /\ s = "failed" => reported \in {"CommittedFailure", "Rejected"}
      BY <2>4, KnownStatuses DEF StatusAfterCheck
    <3> QED
      BY <1>2, <2>3, <3>1 DEF Justified
  <2>5. CASE StatusAfterCheck(reported) = Null
    BY <2>1, <2>5, FinishInv
  <2>6. CASE StatusAfterCheck(reported) # Null
    <3>1. PICK s \in {"committed", "failed"} : s = StatusAfterCheck(reported)
      BY <2>6 DEF StatusAfterCheck
    <3>2. Locally(r, [req[r] EXCEPT !.pc = "refresh.updateStatus", !.write = s])
      BY <2>1, <2>6, <3>1
    <3>3. /\ ProposalOf(r)' = p /\ req'[r].hash = i /\ req'[r].write = s
          /\ req'[r].pc = "refresh.updateStatus"
      BY <1>0, <1>1, <3>2 DEF Locally, ProposalOf, RequestType
    <3>4. Justified(p, s)'
      BY <1>k, <2>4, <3>1
    <3>5. Justified(p, req[r].write)'
      BY <3>3, <3>4 DEF Justified
    <3>6. intent'[req'[r].hash].proposal = p
      BY <1>k, <2>2, <3>3
    <3> QED
      BY <1>k, <2>2, <3>3, <3>5, <3>6, RefreshPoint
  <2> QED
    BY <2>5, <2>6
<1>4. CASE RefreshUpdateStatus(r)
  <2> DEFINE kind == detail[p].kind
             s == req[r].write
  <2>1. s \in {"committed", "failed"} /\ Justified(p, s)
    BY <1>0, <1>1, <1>4 DEF RefreshUpdateStatus, RequestInv, RefreshInv
  <2>2. (s = "committed" => Executed(p)) /\ (s = "failed" => RefusedOnce(p))
    BY <2>1 DEF Justified
  <2>3. PICK pc : pc = MemberWrite(kind, s)
                  /\ IF pc = "idle" THEN Finish(r) ELSE Goto(r, pc)
    BY <1>1, <1>4 DEF RefreshUpdateStatus
  <2>4. \/ pc = "idle"
        \/ pc = "refresh.confirmMember" /\ kind = "add_member" /\ s = "committed"
        \/ /\ pc = "refresh.removeMember"
           /\ \/ kind = "remove_member" /\ s = "committed"
              \/ kind = "add_member" /\ s = "failed"
    BY <2>3 DEF MemberWrite
  <2>5. CASE pc = "idle"
    BY <2>3, <2>5, FinishInv
  <2>6. CASE pc # "idle"
    <3>1. ProposalOf(r)' = p /\ req'[r].pc = pc
      BY <1>0, <1>1, <2>3, <2>6 DEF Goto, ProposalOf, RequestType
    <3> QED
      BY <1>k, <2>2, <2>4, <2>6, <3>1, RefreshPoint
  <2> QED
    BY <2>5, <2>6
<1>5. CASE RefreshConfirmMember(r) \/ RefreshRemoveMember(r)
  BY <1>5, FinishInv DEF RefreshConfirmMember, RefreshRemoveMember
<1> QED
  BY <1>3, <1>4, <1>5 DEF Refresh

\* A request that arrives, or passes the gate, knows what it has just read.
LEMMA ArriveInv ==
  ASSUME IInv, TypeOK', [Next]_vars, NEW r \in Requests, Arrive(r), ~ ListAllPending(r)
  PROVE  RequestInv(r)'
<1>0. RequestInv(r) /\ req \in [Requests -> RequestType] /\ req[r] \in RequestType
  BY DEF IInv, TypeOK
<1>1. ASSUME NEW a \in Accounts, Enter(r, a) PROVE RequestInv(r)'
  <2>1. req'[r].pc = "membership" /\ req'[r].account = a
    BY <1>0, <1>1 DEF Enter, Idle
  <2> QED
    BY <2>1, WaitingInv
<1>2. CASE CheckBadge(r)
  <2>1. CASE Finish(r)
    BY <2>1, FinishInv
  <2>2. CASE Goto(r, "gate")
    <3>1. req'[r].pc = "gate" /\ req'[r].account = req[r].account
      BY <1>0, <2>2 DEF Goto, RequestType
    <3>2. req[r].account \in Accounts
      BY <1>0, <1>2 DEF CheckBadge, At, RequestInv, ActiveInv
    <3> QED
      BY <3>1, <3>2, WaitingInv
  <2> QED
    BY <1>2, <2>1, <2>2 DEF CheckBadge
<1>3. CASE TurnAway(r)
  BY <1>3, FinishInv DEF TurnAway
<1>4. ASSUME NEW p \in Proposals, NEW k \in Keys, SignGetById(r, p, k) PROVE RequestInv(r)'
  <2>1. /\ ProposalOf(r)' = p /\ req'[r].pc = "sign.isExpired" /\ req'[r].key = k
        /\ req'[r].account = req[r].account
    BY <1>0, <1>4 DEF SignGetById, Locally, ProposalOf, RequestType
  <2>2. req[r].account \in Accounts /\ row'[p].status # "absent"
    BY <1>0, <1>4 DEF SignGetById, Locally, repoVars, At, RequestInv, ActiveInv
  <2> QED
    BY <2>1, <2>2, SignPoint DEF SignPcs
<1>5. ASSUME NEW p \in Proposals, SubmitGetById(r, p) PROVE RequestInv(r)'
  <2>1. ProposalOf(r)' = p /\ req'[r].pc = "submit.isExpired"
    BY <1>0, <1>5 DEF SubmitGetById, Locally, ProposalOf, RequestType
  <2>2. row[p].status = "ready" /\ Met(p)
    BY <1>5 DEF SubmitGetById, Submittable, IInv, RowInv, Justified, PastReady
  <2>3. row'[p].status # "absent" /\ Met(p)'
    BY <2>2, KnowledgeGrows
  <2> QED
    BY <2>1, <2>3, SubmitPoint
<1>6. ASSUME NEW p \in Proposals, RefreshGetById(r, p) PROVE RequestInv(r)'
  <2>1. ProposalOf(r)' = p /\ req'[r].pc = "refresh.check" /\ req'[r].hash = row[p].hash
    BY <1>0, <1>6 DEF RefreshGetById, Locally, ProposalOf, RequestType
  <2>2. /\ row[p].status = "submitted" /\ row[p].hash # Null
        /\ Met(p) /\ intent[row[p].hash].proposal = p
    BY <1>6 DEF RefreshGetById, IInv, RowInv, Justified, PastReady
  <2>3. row[p].hash \in Intents
    BY <2>2 DEF IInv, TypeOK, RepoTypeOK, RowType
  <2>4. /\ row'[p].status # "absent" /\ Met(p)' /\ row'[p].hash # Null
        /\ intent'[row[p].hash].proposal = p
    BY <2>2, <2>3, KnowledgeGrows
  <2> QED
    BY <2>1, <2>3, <2>4, RefreshPoint
<1> QED
  BY <1>1, <1>2, <1>3, <1>4, <1>5, <1>6 DEF Arrive

\* A request moves its own slot only.
LEMMA SlotFrame ==
  ASSUME IInv, NEW r \in Requests, Continue(r) \/ Abort(r) \/ Arrive(r),
         NEW q \in Requests, q # r
  PROVE  req'[q] = req[q]
<1>0. req \in [Requests -> RequestType]
  BY DEF IInv, TypeOK
<1>1. ASSUME Finish(r) \/ \E x : Locally(r, x) \/ Goto(r, x) PROVE req'[q] = req[q]
  BY <1>0, <1>1 DEF Finish, Locally, Goto
<1>2. CASE Create(r)
  <2>1. Composes(r) => \E x : Locally(r, x)
    BY Drafting DEF Drafts, IInv
  <2> QED
    BY <1>1, <1>2, <2>1 DEF Create, Composes, CreateInsertMember, CreateInsert
<1>3. CASE Sign(r) \/ Expire(r)
  BY <1>1, <1>3 DEF Sign, Expire, SignIsExpired, SignValidate, SignAddSignature, SignGetSignatures,
     GetSignatures, SignUpdateStatus
<1>4. CASE Submit(r)
  <2>1. SubmitSend(r) => req'[q] = req[q]
    BY <1>0, <1>1 DEF SubmitSend
  <2> QED
    BY <1>1, <1>4, <2>1 DEF Submit, SubmitIsExpired, SubmitGetSignatures, GetSignatures,
       SubmitInvalidate, SubmitSetSubmitted
<1>5. CASE Refresh(r)
  BY <1>1, <1>5 DEF Refresh, RefreshCheck, RefreshUpdateStatus, RefreshConfirmMember,
     RefreshRemoveMember
<1>6. CASE \E e \in Entities : ReadRule(r, e)
  BY <1>1, <1>6 DEF ReadRule
<1>7. CASE Abort(r)
  BY <1>1, <1>7 DEF Abort
<1>8. CASE Arrive(r)
  <2>1. \A a \in Accounts : Enter(r, a) => req'[q] = req[q]
    BY <1>0 DEF Enter
  <2>2. ListAllPending(r) => req'[q] = req[q]
    BY DEF ListAllPending
  <2> QED
    BY <1>1, <1>8, <2>1, <2>2 DEF Arrive, CheckBadge, TurnAway, SignGetById, SubmitGetById,
       RefreshGetById
<1> QED
  BY <1>2, <1>3, <1>4, <1>5, <1>6, <1>7, <1>8 DEF Continue

\* Each request keeps its invariant, whichever request or environment moves.
LEMMA RequestInvStep ==
  ASSUME IInv, TypeOK', [Next]_vars, NEW r \in Requests
  PROVE  RequestInv(r)'
<1>1. CASE UNCHANGED req
  BY <1>1, RequestStable
<1>2. ASSUME NEW q \in Requests, q # r, Continue(q) \/ Abort(q) \/ Arrive(q)
      PROVE  RequestInv(r)'
  <2>1. req'[r] = req[r]
    BY <1>2, SlotFrame
  <2> QED
    BY <2>1, RequestStable
<1>3. CASE Continue(r)
  BY <1>3, CreateInv, SignSubmitInv, RefreshStepInv, ReadRuleInv DEF Continue
<1>4. CASE Abort(r)
  BY <1>4, FinishInv DEF Abort
<1>5. CASE Arrive(r)
  BY <1>1, <1>5, ArriveInv DEF ListAllPending
<1>6. CASE LedgerStep \/ UNCHANGED vars
  BY <1>1, <1>6 DEF LedgerStep, vars
<1> QED
  BY <1>2, <1>3, <1>4, <1>5, <1>6 DEF Next

-----------------------------------------------------------------------------
(* The member table and the rules in force *)

\* A proposal that has been handed to the Gateway is on record.
LEMMA HandedIsOnRecord ==
  ASSUME IInv, NEW p \in Proposals, Handed(p) # {}
  PROVE  row[p].status # "absent"
BY DEF Handed, IInv, LedgerInv

\* The member table changes in three places.
LEMMA MemberStep ==
  ASSUME IInv, [Next]_vars
  PROVE  \/ UNCHANGED member
         \/ \E a \in Accounts \cup {Null} : AddMember(a)
         \/ \E r \in Requests : RefreshConfirmMember(r) \/ RefreshRemoveMember(r)
<1> USE DEF teamVars
<1>1. ASSUME NEW r \in Requests, Arrive(r) \/ Abort(r)
      PROVE  UNCHANGED member
  BY <1>1 DEF Arrive, Enter, CheckBadge, TurnAway, SignGetById, SubmitGetById, RefreshGetById,
     ListAllPending, Abort, Locally
<1>2. ASSUME NEW r \in Requests, Continue(r)
      PROVE  \/ UNCHANGED member
             \/ \E a \in Accounts \cup {Null} : AddMember(a)
             \/ RefreshConfirmMember(r) \/ RefreshRemoveMember(r)
  <2>1. CASE Create(r)
    <3>1. CreateInsertMember(r) => \E a \in Accounts \cup {Null} : AddMember(a)
      BY DEF CreateInsertMember, At, CreatePcs, IInv, RequestInv, ActiveInv, DraftType, DetailType
    <3> QED
      BY <2>1, <3>1, ComposesFrame DEF Create, Composes, CreateInsert
  <2>2. CASE Sign(r) \/ Expire(r) \/ \E e \in Entities : ReadRule(r, e)
    BY <2>2 DEF Sign, Expire, ReadRule, SignIsExpired, SignValidate, SignAddSignature,
       SignGetSignatures, GetSignatures, SignUpdateStatus, Locally
  <2>3. CASE Submit(r)
    BY <2>3 DEF Submit, SubmitIsExpired, SubmitGetSignatures, GetSignatures, SubmitInvalidate,
       SubmitSend, SubmitSetSubmitted, Locally
  <2>4. CASE Refresh(r)
    BY <2>4 DEF Refresh, RefreshCheck, RefreshUpdateStatus, Locally
  <2> QED
    BY <1>2, <2>1, <2>2, <2>3, <2>4 DEF Continue
<1>3. LedgerStep \/ UNCHANGED vars => UNCHANGED member
  BY DEF LedgerStep, vars
<1> QED
  BY <1>1, <1>2, <1>3 DEF Next

\* Only a proposal that executed confirms a member.
LEMMA MembersStep ==
  IInv /\ TypeOK' /\ [Next]_vars => MembersWereVotedIn'
<1> SUFFICES ASSUME IInv, TypeOK', [Next]_vars, NEW a \in Accounts, member'[a] = "confirmed",
                    a \notin Founders
             PROVE  \E p \in Proposals :
                      detail'[p].kind = "add_member" /\ detail'[p].target = a /\ Executed(p)'
  BY DEF MembersWereVotedIn
<1>0. member \in [Accounts -> MemberStates]
  BY DEF IInv, TypeOK, TeamRepoTypeOK
<1>a. ASSUME NEW p \in Proposals, detail[p].kind = "add_member", detail[p].target = a, Executed(p)
      PROVE  \E q \in Proposals :
                detail'[q].kind = "add_member" /\ detail'[q].target = a /\ Executed(q)'
  <2>1. row[p].status # "absent"
    BY <1>a, HandedIsOnRecord DEF Executed
  <2> QED
    BY <1>a, <2>1, KnowledgeGrows
<1>1. CASE member[a] = "confirmed"
  BY <1>1, <1>a DEF IInv, MembersWereVotedIn
<1>2. CASE member[a] # "confirmed"
  <2>1. ASSUME NEW b, AddMember(b) PROVE FALSE
    BY <1>0, <1>2, <2>1 DEF AddMember
  <2>2. ASSUME NEW r \in Requests, RefreshRemoveMember(r) PROVE FALSE
    BY <1>0, <1>2, <2>2 DEF RefreshRemoveMember, RemoveMember
  <2>3. PICK r \in Requests : RefreshConfirmMember(r)
    BY <1>2, <2>1, <2>2, MemberStep
  <2>4. PICK p \in Proposals : p = ProposalOf(r)
    BY <2>3 DEF RefreshConfirmMember, At, RefreshPcs, IInv, RequestInv, ActiveInv
  <2>5. detail[p].kind = "add_member" /\ Executed(p)
    BY <2>3, <2>4 DEF RefreshConfirmMember, IInv, RequestInv, RefreshInv
  <2>6. detail[p].target = a
    BY <1>0, <1>2, <2>3, <2>4 DEF RefreshConfirmMember, ConfirmMember
  <2> QED
    BY <1>a, <2>5, <2>6
<1> QED
  BY <1>1, <1>2

\* A membership is ended by a refreshStatus that goes by a verdict on record.
LEMMA LeavingStep ==
  ASSUME IInv, [Next]_vars, NEW a \in Accounts, Leaves(a)
  PROVE  \E r \in Requests, p \in Proposals :
           /\ RefreshRemoveMember(r) /\ p = ProposalOf(r) /\ detail[p].target = a
           /\ \/ detail[p].kind = "remove_member" /\ Executed(p)
              \/ detail[p].kind = "add_member" /\ RefusedOnce(p)
<1>0. member \in [Accounts -> MemberStates] /\ member[a] = "confirmed" /\ member'[a] # "confirmed"
  BY DEF IInv, TypeOK, TeamRepoTypeOK, Leaves
<1>1. ASSUME NEW b, AddMember(b) PROVE FALSE
  BY <1>0, <1>1 DEF AddMember
<1>2. ASSUME NEW r \in Requests, RefreshConfirmMember(r) PROVE FALSE
  BY <1>0, <1>2 DEF RefreshConfirmMember, ConfirmMember
<1>3. PICK r \in Requests : RefreshRemoveMember(r)
  BY <1>0, <1>1, <1>2, MemberStep
<1>4. PICK p \in Proposals : p = ProposalOf(r)
  BY <1>3 DEF RefreshRemoveMember, At, RefreshPcs, IInv, RequestInv, ActiveInv
<1>5. \/ detail[p].kind = "remove_member" /\ Executed(p)
      \/ detail[p].kind = "add_member" /\ RefusedOnce(p)
  BY <1>3, <1>4 DEF RefreshRemoveMember, IInv, RequestInv, RefreshInv
<1>6. detail[p].target = a
  BY <1>0, <1>3, <1>4 DEF RefreshRemoveMember, RemoveMember
<1> QED
  BY <1>3, <1>4, <1>5, <1>6

\* It is ended by a removal that executed or an addition that was refused.
LEMMA RemovalStep ==
  ASSUME IInv, [Next]_vars, NEW a \in Accounts, Leaves(a)
  PROVE  VotedOut(a) \/ \E p \in Proposals : Adds(p, a) /\ RefusedOnce(p)
BY LeavingStep DEF VotedOut, Adds

\* A rule in force is one the entity had before, or one a stored proposal carries.
LEMMA OpenStep == IInv /\ NobodyIsLockedOut /\ [Next]_vars => NobodyIsLockedOut'
<1> SUFFICES ASSUME IInv, NobodyIsLockedOut, [Next]_vars, NEW e \in Entities
             PROVE  Open(rule'[e])
  BY DEF NobodyIsLockedOut, Open
<1>0. Open(rule[e])
  BY DEF NobodyIsLockedOut, Open
<1>1. ASSUME NEW i \in Intents, NEW p \in Proposals, ExecuteTeamProposal(i, p)
      PROVE  Open(rule'[e])
  <2>1. DetailInv(detail[p])
    BY <1>1 DEF ExecuteTeamProposal, IInv, LedgerInv, RowInv
  <2>2. rule'[e] = IF e \in DOMAIN detail[p].plan THEN detail[p].plan[e] ELSE rule[e]
    BY <1>1 DEF ExecuteTeamProposal
  <2> QED
    BY <1>0, <2>1, <2>2 DEF DetailInv
<1>2. CASE UNCHANGED rule
  BY <1>0, <1>2
<1>3. LedgerStep =>
        UNCHANGED rule \/ \E i \in Intents, p \in Proposals : ExecuteTeamProposal(i, p)
  BY DEF LedgerStep, ledgerVars
<1>4. (\E r \in Requests : SubmitSend(r)) \/ UNCHANGED chainVars => UNCHANGED rule
  BY DEF SubmitSend, chainVars, ledgerVars
<1> QED
  BY <1>1, <1>2, <1>3, <1>4, ChainFrame

-----------------------------------------------------------------------------
(* The theorems *)

\* The invariant holds of a new team with no proposal and no request in flight.
LEMMA InitInv == Init => IInv
<1> SUFFICES ASSUME Init PROVE IInv
  OBVIOUS
<1> USE DEF Init, LedgerInit, RepoInit, TeamRepoInit
<1>1. TypeOK
  <2>1. Idle \in RequestType /\ NoRow \in RowType /\ Absent \in IntentType
    BY DEF Idle, RequestType, Pcs, NoRow, RowType, Absent, IntentType, IntentStates
  <2>2. now \in 0 .. MaxTime
    BY MaxTimeAssumption
  <2>3. NoDetail \in DetailType
    <3>1. <<>> \in [{} -> Rules]
      OBVIOUS
    <3>2. <<>> \in PlanType
      BY <3>1 DEF PlanType
    <3> QED
      BY <3>2 DEF NoDetail, DetailType
  <2>4. rule \in [Entities -> Rules]
    OBVIOUS
  <2>5. badges \in [Accounts -> SUBSET Badges]
    BY DEF Badges
  <2> QED
    BY <2>1, <2>2, <2>3, <2>4, <2>5 DEF TypeOK, LedgerTypeOK, RepoTypeOK, TeamRepoTypeOK,
       MemberStates
<1>2. LedgerInv
  BY DEF LedgerInv, Absent
<1>3. ASSUME NEW p \in Proposals PROVE RowInv(p)
  BY FS_EmptySet DEF RowInv, NoRow, Justified, PastReady
<1>4. ASSUME NEW r \in Requests PROVE RequestInv(r)
  BY DEF Idle, RequestInv, ActiveInv, ReadInv, SignInv, SubmitInv, RefreshInv, At,
     CreatePcs, SignPcs, SubmitPcs, RefreshPcs
<1>5. MembersWereVotedIn
  BY DEF MembersWereVotedIn
<1> QED
  BY <1>1, <1>2, <1>3, <1>4, <1>5 DEF IInv

\* IInv holds in every state: requests may interleave, stop half-way, and act on
\* rows, members, badges and rules that have changed since they read them.
THEOREM TeamInvariance == Spec => []IInv
<1>1. IInv /\ [Next]_vars => IInv'
  <2> SUFFICES ASSUME IInv, [Next]_vars PROVE IInv'
    OBVIOUS
  <2>1. TypeOK'
    BY TypeStep
  <2>2. LedgerInv' /\ MembersWereVotedIn'
    BY <2>1, LedgerInvStep, MembersStep
  <2>3. \A p \in Proposals : RowInv(p)'
    BY <2>1, RowInvStep
  <2>4. \A r \in Requests : RequestInv(r)'
    BY <2>1, RequestInvStep
  <2> QED
    BY <2>1, <2>2, <2>3, <2>4 DEF IInv
<1> QED
  BY InitInv, <1>1, PTL DEF Spec

\* No team proposal is past signing without as many signatures as each entity
\* consulted has asked for at some time.
THEOREM RequiredSafety == Spec => []RequiredWasReached
<1>1. IInv => RequiredWasReached
  BY DEF IInv, RowInv, Justified, Met, Enough, RequiredWasReached
<1> QED
  BY <1>1, TeamInvariance, PTL

\* Team proposals too are committed or failed only by the ledger's verdict.
THEOREM TeamSettlementSafety == Spec => []SettledByLedger
<1>1. IInv => SettledByLedger
  BY DEF IInv, RowInv, Justified, RefusedOnce, SettledByLedger
<1> QED
  BY <1>1, TeamInvariance, PTL

\* The intent hash of a row is an intent of that very proposal, and expired rows
\* are late: both hold of team proposals as of vault proposals.
THEOREM TeamRowSafety == Spec => [](HashNamesOwnIntent /\ ExpiredMeansLate)
<1>1. IInv => HashNamesOwnIntent /\ ExpiredMeansLate
  BY DEF IInv, RowInv, Justified, HashNamesOwnIntent, ExpiredMeansLate
<1> QED
  BY <1>1, TeamInvariance, PTL

\* A confirmed member is a founder, or was added by a proposal that executed.
THEOREM MembershipSafety == Spec => []MembersWereVotedIn
<1>1. IInv => MembersWereVotedIn
  BY DEF IInv
<1> QED
  BY <1>1, TeamInvariance, PTL

\* Nobody loses a membership but by a removal that executed or an addition that
\* was refused.
THEOREM DepartureSafety ==
  Spec => [][\A a \in Accounts : Leaves(a) =>
               VotedOut(a) \/ \E p \in Proposals : Adds(p, a) /\ RefusedOnce(p)]_vars
<1>1. IInv /\ [Next]_vars =>
        [\A a \in Accounts : Leaves(a) =>
           VotedOut(a) \/ \E p \in Proposals : Adds(p, a) /\ RefusedOnce(p)]_vars
  BY RemovalStep DEF Leaves
<1> QED
  BY <1>1, TeamInvariance, PTL DEF Spec

\* A team founded with rules that its own signers can satisfy never gets one
\* that they cannot.
THEOREM OpenSafety ==
  ASSUME \A f \in FoundingRules, e \in Entities : Open(f[e])
  PROVE  Spec => []NobodyIsLockedOut
<1>1. Init => NobodyIsLockedOut
  BY DEF Init, NobodyIsLockedOut, Open
<1>2. IInv /\ NobodyIsLockedOut /\ [Next]_vars => NobodyIsLockedOut'
  BY OpenStep
<1> QED
  BY <1>1, <1>2, TeamInvariance, PTL DEF Spec

-----------------------------------------------------------------------------
(* Requests that take turns, cut short or not *)

\* At a gate or in a draft a request knows nothing of a row.
LEMMA GateTurn ==
  ASSUME NEW r, req'[r].pc \in {"idle", "membership", "gate"} \cup CreatePcs
  PROVE  TurnInv(r)'
BY DEF TurnInv, At, CreatePcs, SignPcs, SubmitPcs

LEMMA IdleTurn ==
  ASSUME NEW r \in Requests, req \in [Requests -> RequestType], Finish(r) \/ Locally(r, Idle)
  PROVE  TurnInv(r)'
<1>1. req'[r].pc = "idle"
  BY DEF Finish, Locally, Idle
<1> QED
  BY <1>1, GateTurn

\* A request that starts on a proposal has just read its status.
LEMMA ArriveKept ==
  ASSUME IInv, NEW r \in Requests, Arrive(r)
  PROVE  TurnInv(r)'
<1> USE DEF repoVars
<1>0. req \in [Requests -> RequestType] /\ req[r] \in RequestType
  BY DEF IInv, TypeOK
<1>1. ASSUME NEW a \in Accounts, Enter(r, a) PROVE TurnInv(r)'
  <2>1. req'[r].pc = "membership"
    BY <1>0, <1>1 DEF Enter, Idle
  <2> QED
    BY <2>1, GateTurn
<1>2. CASE CheckBadge(r) \/ TurnAway(r)
  <2>1. CASE Finish(r)
    BY <1>0, <2>1, IdleTurn
  <2>2. CASE Goto(r, "gate")
    <3>1. req'[r].pc = "gate"
      BY <1>0, <2>2 DEF Goto, RequestType
    <3> QED
      BY <3>1, GateTurn
  <2> QED
    BY <1>2, <2>1, <2>2 DEF CheckBadge, TurnAway
<1>3. ASSUME NEW p \in Proposals, NEW k \in Keys, SignGetById(r, p, k)
      PROVE  TurnInv(r)'
  <2>1. /\ UNCHANGED row /\ row[p].status \in {"created", "signing"}
        /\ req'[r].pc = "sign.isExpired" /\ req'[r].proposal = p
        /\ req'[r].seen = row[p].status
    BY <1>0, <1>3 DEF SignGetById, Locally, RequestType
  <2> QED
    BY <2>1 DEF TurnInv, At, ProposalOf, SignPcs, SubmitPcs
<1>4. ASSUME NEW p \in Proposals, SubmitGetById(r, p)
      PROVE  TurnInv(r)'
  <2>1. /\ UNCHANGED row /\ row[p].status = "ready"
        /\ req'[r].pc = "submit.isExpired" /\ req'[r].proposal = p
    BY <1>0, <1>4 DEF SubmitGetById, Submittable, Locally, Idle
  <2> QED
    BY <2>1 DEF TurnInv, At, ProposalOf, SignPcs, SubmitPcs
<1>5. ASSUME NEW p \in Proposals, RefreshGetById(r, p)
      PROVE  TurnInv(r)'
  <2>1. /\ UNCHANGED row /\ row[p].status = "submitted"
        /\ req'[r].pc = "refresh.check" /\ req'[r].proposal = p
    BY <1>0, <1>5 DEF RefreshGetById, Locally, Idle
  <2> QED
    BY <2>1 DEF TurnInv, At, ProposalOf, SignPcs, SubmitPcs
<1>6. CASE ListAllPending(r)
  BY <1>6, GateTurn DEF ListAllPending, At
<1> QED
  BY <1>1, <1>2, <1>3, <1>4, <1>5, <1>6 DEF Arrive

\* A handler that goes on, with the row as it was, still has its status.
LEMMA WalkOn ==
  ASSUME NEW r, TurnInv(r), UNCHANGED row, req'[r].proposal = req[r].proposal,
         \/ /\ req[r].pc \in SignPcs /\ req'[r].seen = req[r].seen
            /\ req'[r].pc \in {"expire"} \cup SignPcs
         \/ req[r].pc \in SubmitPcs /\ req'[r].pc \in {"expire"} \cup SubmitPcs
         \/ req[r].pc = "refresh.check" /\ req'[r].pc = "refresh.updateStatus"
  PROVE  TurnInv(r)'
BY DEF TurnInv, At, ProposalOf, SignPcs, SubmitPcs, PendingStatuses

LEMMA CreateKept ==
  ASSUME IInv, NEW r \in Requests, Create(r)
  PROVE  TurnInv(r)'
<1>0. TypeOK /\ req \in [Requests -> RequestType] /\ req[r] \in RequestType /\ RequestInv(r)
  BY DEF IInv, TypeOK
<1>1. CASE Composes(r)
  <2>1. ASSUME NEW d \in DraftType, Drafts(r, d) PROVE TurnInv(r)'
    <3>1. req'[r].pc \in CreatePcs
      BY <1>0, <2>1 DEF Drafts, Locally, Idle
    <3> QED
      BY <3>1, GateTurn
  <2> QED
    BY <1>0, <1>1, <2>1, Drafting, IdleTurn
<1>2. CASE CreateInsertMember(r)
  <2>1. req'[r].pc \in CreatePcs
    BY <1>0, <1>2 DEF CreateInsertMember, Goto, RequestType, CreatePcs
  <2> QED
    BY <2>1, GateTurn
<1>3. CASE CreateInsert(r)
  BY <1>0, <1>3, IdleTurn DEF CreateInsert
<1> QED
  BY <1>1, <1>2, <1>3 DEF Create, Composes

LEMMA SignKept ==
  ASSUME IInv, NEW r \in Requests, TurnInv(r), Sign(r) \/ Expire(r)
  PROVE  TurnInv(r)'
<1> USE DEF repoVars
<1>0. req \in [Requests -> RequestType] /\ req[r] \in RequestType
  BY DEF IInv, TypeOK
<1>1. CASE Expire(r) \/ SignUpdateStatus(r)
  BY <1>0, <1>1, IdleTurn DEF Expire, SignUpdateStatus
<1>2. ASSUME UNCHANGED row, req[r].pc \in SignPcs,
             \/ Finish(r) \/ Locally(r, Idle)
             \/ /\ req'[r].proposal = req[r].proposal /\ req'[r].seen = req[r].seen
                /\ req'[r].pc \in {"expire"} \cup SignPcs
      PROVE  TurnInv(r)'
  BY <1>0, <1>2, IdleTurn, WalkOn
<1>3. CASE SignIsExpired(r)
  <2>1. /\ UNCHANGED row /\ req[r].pc \in SignPcs
        /\ req'[r].proposal = req[r].proposal /\ req'[r].seen = req[r].seen
        /\ req'[r].pc \in {"expire"} \cup SignPcs
    BY <1>0, <1>3 DEF SignIsExpired, Locally, At, SignPcs, RequestType
  <2> QED
    BY <1>2, <2>1
<1>4. CASE SignValidate(r)
  <2>1. UNCHANGED row /\ req[r].pc \in SignPcs
    BY <1>4 DEF SignValidate, Locally, At, SignPcs
  <2>2. \/ Locally(r, Idle)
        \/ /\ req'[r].proposal = req[r].proposal /\ req'[r].seen = req[r].seen
           /\ req'[r].pc \in {"expire"} \cup SignPcs
    BY <1>0, <1>4 DEF SignValidate, Locally, SignPcs, RequestType
  <2> QED
    BY <1>2, <2>1, <2>2
<1>5. CASE SignAddSignature(r)
  <2>1. UNCHANGED row /\ req[r].pc \in SignPcs
    BY <1>5 DEF SignAddSignature, AddSignature, At, SignPcs
  <2>2. \/ Finish(r)
        \/ /\ req'[r].proposal = req[r].proposal /\ req'[r].seen = req[r].seen
           /\ req'[r].pc \in {"expire"} \cup SignPcs
    BY <1>0, <1>5 DEF SignAddSignature, Goto, SignPcs, RequestType
  <2> QED
    BY <1>2, <2>1, <2>2
<1>6. CASE SignGetSignatures(r)
  <2>1. UNCHANGED row /\ req[r].pc \in SignPcs
    BY <1>6 DEF SignGetSignatures, GetSignatures, Locally, At, SignPcs
  <2>2. /\ req'[r].proposal = req[r].proposal /\ req'[r].seen = req[r].seen
        /\ req'[r].pc \in {"expire"} \cup SignPcs
    BY <1>0, <1>6 DEF SignGetSignatures, GetSignatures, Locally, SignPcs, RequestType
  <2> QED
    BY <1>2, <2>1, <2>2
<1> QED
  BY <1>1, <1>3, <1>4, <1>5, <1>6 DEF Sign

LEMMA ReadRuleKept ==
  ASSUME IInv, NEW r \in Requests, TurnInv(r), NEW e \in Entities, ReadRule(r, e)
  PROVE  TurnInv(r)'
<1>1. UNCHANGED row /\ req[r].pc \in {"sign.readRules", "submit.readRules"}
  BY DEF ReadRule, Locally, repoVars
<1>2. /\ req'[r].pc = req[r].pc /\ req'[r].proposal = req[r].proposal
      /\ req'[r].seen = req[r].seen
  BY DEF IInv, TypeOK, ReadRule, Locally, RequestType
<1> QED
  BY <1>1, <1>2, WalkOn DEF SignPcs, SubmitPcs

LEMMA SubmitKept ==
  ASSUME IInv, NEW r \in Requests, TurnInv(r), Submit(r)
  PROVE  TurnInv(r)'
<1> USE DEF repoVars
<1>0. req \in [Requests -> RequestType] /\ req[r] \in RequestType
  BY DEF IInv, TypeOK
<1>1. CASE SubmitInvalidate(r) \/ SubmitSetSubmitted(r) \/ Finish(r)
  BY <1>0, <1>1, IdleTurn DEF SubmitInvalidate, SubmitSetSubmitted
<1>2. CASE SubmitIsExpired(r)
  <2>1. /\ UNCHANGED row /\ req[r].pc \in SubmitPcs /\ req'[r].proposal = req[r].proposal
        /\ req'[r].pc \in {"expire"} \cup SubmitPcs
    BY <1>0, <1>2 DEF SubmitIsExpired, Locally, At, SubmitPcs, RequestType
  <2> QED
    BY <2>1, WalkOn
<1>3. CASE SubmitGetSignatures(r)
  <2>1. /\ UNCHANGED row /\ req[r].pc \in SubmitPcs /\ req'[r].proposal = req[r].proposal
        /\ req'[r].pc \in {"expire"} \cup SubmitPcs
    BY <1>0, <1>3 DEF SubmitGetSignatures, GetSignatures, Locally, At, SubmitPcs, RequestType
  <2> QED
    BY <2>1, WalkOn
<1>4. CASE SubmitSend(r)
  <2>1. UNCHANGED row /\ req[r].pc \in SubmitPcs
    BY <1>4 DEF SubmitSend, At, SubmitPcs
  <2>2. ASSUME NEW i \in Intents,
               req' = [req EXCEPT ![r].pc = "submit.setSubmitted", ![r].hash = i]
        PROVE  req'[r].proposal = req[r].proposal /\ req'[r].pc = "submit.setSubmitted"
    BY <1>0, <2>2 DEF RequestType
  <2> QED
    BY <1>1, <1>4, <2>1, <2>2, WalkOn DEF SubmitSend, SubmitPcs
<1> QED
  BY <1>1, <1>2, <1>3, <1>4 DEF Submit

\* What a verdict does to the member table goes by the status just written.
LEMMA RefreshKept ==
  ASSUME IInv, NEW r \in Requests, TurnInv(r), Refresh(r)
  PROVE  TurnInv(r)'
<1> USE DEF repoVars, teamVars
<1>0. RowTypeOK /\ req \in [Requests -> RequestType] /\ req[r] \in RequestType
  BY DEF IInv, TypeOK, RepoTypeOK, RowTypeOK
<1>1. CASE RefreshCheck(r)
  <2>1. UNCHANGED row /\ req[r].pc = "refresh.check"
    BY <1>1 DEF RefreshCheck, Locally, At
  <2>2. PICK s : \/ Locally(r, Idle)
                 \/ Locally(r, [req[r] EXCEPT !.pc = "refresh.updateStatus", !.write = s])
    BY <1>1 DEF RefreshCheck
  <2>3. ASSUME Locally(r, [req[r] EXCEPT !.pc = "refresh.updateStatus", !.write = s])
        PROVE  req'[r].proposal = req[r].proposal /\ req'[r].pc = "refresh.updateStatus"
    BY <1>0, <2>3 DEF Locally, RequestType
  <2> QED
    BY <1>0, <2>1, <2>2, <2>3, IdleTurn, WalkOn
<1>2. CASE RefreshUpdateStatus(r)
  <2>1. PICK p \in Proposals : p = ProposalOf(r)
    BY <1>2 DEF RefreshUpdateStatus, At, RefreshPcs, IInv, RequestInv, ActiveInv
  <2>2. req[r].write \in {"committed", "failed"}
    BY <1>2 DEF RefreshUpdateStatus, IInv, RequestInv, RefreshInv
  <2>3. row'[p].status = req[r].write /\ detail'[p] = detail[p]
    BY <1>0, <1>2, <2>1 DEF RefreshUpdateStatus, UpdateStatus, RowTypeOK, RowType
  <2> DEFINE next == MemberWrite(detail[p].kind, req[r].write)
  <2>4. \/ Finish(r)
        \/ next # "idle" /\ Goto(r, next)
    BY <1>2, <2>1 DEF RefreshUpdateStatus
  <2>5. CASE next # "idle" /\ Goto(r, next)
    <3>1. req'[r].pc = next /\ ProposalOf(r)' = p
      BY <1>0, <2>1, <2>5 DEF Goto, RequestType, ProposalOf
    <3>2. \/ next = "refresh.confirmMember" /\ req[r].write = "committed"
          \/ /\ next = "refresh.removeMember"
             /\ req[r].write = IF detail[p].kind = "add_member" THEN "failed" ELSE "committed"
      BY <2>5 DEF MemberWrite
    <3> QED
      BY <2>3, <3>1, <3>2 DEF TurnInv, At, SignPcs, SubmitPcs
  <2> QED
    BY <1>0, <2>4, <2>5, IdleTurn
<1>3. CASE RefreshConfirmMember(r) \/ RefreshRemoveMember(r)
  BY <1>0, <1>3, IdleTurn DEF RefreshConfirmMember, RefreshRemoveMember
<1> QED
  BY <1>1, <1>2, <1>3 DEF Refresh

\* Alone, a request finds every row as it left it.
LEMMA TurnKept ==
  ASSUME IInv, Alone, \A q \in Requests : TurnInv(q), [Next]_vars, NEW r \in Requests
  PROVE  TurnInv(r)'
<1>1. CASE Arrive(r) \/ Continue(r)
  BY <1>1, ArriveKept, CreateKept, SignKept, ReadRuleKept, SubmitKept, RefreshKept DEF Continue
<1>2. CASE Abort(r)
  BY <1>2, IdleTurn DEF Abort, IInv, TypeOK
<1>3. CASE LedgerStep \/ UNCHANGED vars
  <2>1. UNCHANGED <<row, detail, req>>
    BY <1>3 DEF LedgerStep, vars, repoVars, teamVars
  <2> QED
    BY <2>1 DEF TurnInv, At, ProposalOf
<1> QED
  BY <1>1, <1>2, <1>3 DEF Next, Alone

\* A row that says committed keeps saying so.
LEMMA CommittedStays ==
  ASSUME IInv, Alone, \A q \in Requests : TurnInv(q), [Next]_vars,
         NEW p \in Proposals, row[p].status = "committed"
  PROVE  row'[p].status = "committed"
<1> USE DEF repoVars
<1>0. RowTypeOK
  BY DEF IInv, TypeOK, RepoTypeOK, RowTypeOK
<1>1. UNCHANGED row => row'[p].status = "committed"
  OBVIOUS
<1>2. ASSUME NEW q \in Proposals, NEW s, UpdateStatus(q, s), row[q].status # "committed"
      PROVE  row'[p] = row[p]
  BY <1>0, <1>2 DEF UpdateStatus, RowTypeOK
<1>3. ASSUME NEW r \in Requests, Arrive(r)
      PROVE  row'[p].status = "committed"
  <2>1. CASE ListAllPending(r)
    <3>1. ~ Sweeps(p)
      BY DEF Sweeps, PendingStatuses
    <3> QED
      BY <1>0, <2>1, <3>1 DEF ListAllPending, ExpirePending, RowTypeOK
  <2> QED
    BY <1>1, <1>3, <2>1 DEF Arrive, Enter, CheckBadge, TurnAway, SignGetById, SubmitGetById,
       RefreshGetById, Locally
<1>4. ASSUME NEW r \in Requests, Continue(r)
      PROVE  row'[p].status = "committed"
  <2>0. /\ TurnInv(r)
        /\ req[r].pc \in {"expire"} \cup SignPcs \cup SubmitPcs \cup RefreshPcs =>
             ProposalOf(r) \in Proposals
    BY DEF IInv, RequestInv, ActiveInv
  <2>1. CASE Create(r)
    <3>1. Composes(r) \/ CreateInsertMember(r) => UNCHANGED row
      BY ComposesFrame DEF CreateInsertMember
    <3>2. ASSUME NEW q, NEW e, NEW d, Insert(q, e, d) PROVE row'[p] = row[p]
      BY <1>0, <3>2 DEF Insert, RowTypeOK
    <3>3. CreateInsert(r) => UNCHANGED row \/ row'[p] = row[p]
      BY <3>2 DEF CreateInsert, InsertTeamProposal
    <3> QED
      BY <1>1, <2>1, <3>1, <3>3 DEF Create, Composes
  <2>2. CASE Expire(r)
    BY <1>2, <2>0, <2>2 DEF Expire, TurnInv, At, PendingStatuses
  <2>3. CASE SignUpdateStatus(r)
    BY <1>1, <1>2, <2>0, <2>3 DEF SignUpdateStatus, TurnInv, At, SignPcs
  <2>4. CASE SubmitInvalidate(r)
    BY <1>2, <2>0, <2>4 DEF SubmitInvalidate, TurnInv, At, SubmitPcs
  <2>5. CASE SubmitSetSubmitted(r)
    <3>1. row[ProposalOf(r)].status = "ready"
      BY <2>0, <2>5 DEF SubmitSetSubmitted, TurnInv, At, SubmitPcs
    <3> QED
      BY <1>0, <2>5, <3>1 DEF SubmitSetSubmitted, SetSubmitted, RowTypeOK
  <2>6. CASE RefreshUpdateStatus(r)
    BY <1>2, <2>0, <2>6 DEF RefreshUpdateStatus, TurnInv, At, RefreshPcs
  <2>7. CASE UNCHANGED row
    BY <1>1, <2>7
  <2> QED
    BY <1>4, <2>1, <2>2, <2>3, <2>4, <2>5, <2>6, <2>7 DEF Continue, Sign, Submit, Refresh,
       SignIsExpired, SignValidate, SignAddSignature, AddSignature, SignGetSignatures,
       SubmitIsExpired, SubmitGetSignatures, GetSignatures, ReadRule, SubmitSend, RefreshCheck,
       RefreshConfirmMember, RefreshRemoveMember, Locally
<1>5. ASSUME NEW r \in Requests, Abort(r)
      PROVE  UNCHANGED row
  BY <1>5 DEF Abort, Locally
<1>6. LedgerStep \/ UNCHANGED vars => UNCHANGED row
  BY DEF LedgerStep, vars
<1> QED
  BY <1>1, <1>3, <1>4, <1>5, <1>6 DEF Next

\* Members stay founders, or added by a proposal whose row says so.
LEMMA StandingStep ==
  ASSUME IInv, Alone, MembersInv, [Next]_vars
  PROVE  StandingInv'
<1> SUFFICES ASSUME NEW a \in Accounts, member'[a] = "confirmed", a \notin Founders
             PROVE  \E p \in Proposals : Adds(p, a)' /\ row'[p].status = "committed"
  BY DEF StandingInv
<1>0. member \in [Accounts -> MemberStates]
  BY DEF IInv, TypeOK, TeamRepoTypeOK
<1>a. ASSUME NEW p \in Proposals, Adds(p, a), row[p].status = "committed"
      PROVE  \E q \in Proposals : Adds(q, a)' /\ row'[q].status = "committed"
  <2>1. row'[p].status = "committed" /\ detail'[p] = detail[p]
    BY <1>a, CommittedStays, GrowsStep DEF MembersInv, DetailsStay
  <2> QED
    BY <1>a, <2>1 DEF Adds
<1>1. CASE member[a] = "confirmed"
  BY <1>1, <1>a DEF MembersInv, StandingInv
<1>2. CASE member[a] # "confirmed"
  <2>1. ASSUME NEW b, AddMember(b) PROVE FALSE
    BY <1>0, <1>2, <2>1 DEF AddMember
  <2>2. ASSUME NEW r \in Requests, RefreshRemoveMember(r) PROVE FALSE
    BY <1>0, <1>2, <2>2 DEF RefreshRemoveMember, RemoveMember
  <2>3. PICK r \in Requests : RefreshConfirmMember(r)
    BY <1>2, <2>1, <2>2, MemberStep
  <2>4. PICK p \in Proposals : p = ProposalOf(r)
    BY <2>3 DEF RefreshConfirmMember, At, RefreshPcs, IInv, RequestInv, ActiveInv
  <2>5. detail[p].kind = "add_member" /\ row[p].status = "committed"
    BY <2>3, <2>4 DEF RefreshConfirmMember, IInv, RequestInv, RefreshInv, MembersInv, TurnInv
  <2>6. detail[p].target = a
    BY <1>0, <1>2, <2>3, <2>4 DEF RefreshConfirmMember, ConfirmMember
  <2> QED
    BY <1>a, <2>5, <2>6 DEF Adds
<1> QED
  BY <1>1, <1>2

\* Where requests take turns, cut short or not, a member added once, and no
\* founder, loses that standing by a removal that executed only: the row of the
\* proposal that added the member says committed for good, and a cleanup goes by
\* one that says failed.
THEOREM RemovalSafety == Alone => (Spec => MembersAreVotedOut)
<1> SUFFICES ASSUME Alone PROVE Spec => MembersAreVotedOut
  OBVIOUS
<1>1. Init => MembersInv
  BY DEF Init, TeamRepoInit, Idle, MembersInv, StandingInv, TurnInv, At, SignPcs, SubmitPcs
<1>2. IInv /\ MembersInv /\ [Next]_vars => MembersInv'
  BY StandingStep, TurnKept DEF MembersInv
<1>3. ASSUME IInv, MembersInv, [Next]_vars, NEW a \in Accounts, Leaves(a), AddedOnce(a)
      PROVE  VotedOut(a)
  <2>1. PICK r \in Requests, p \in Proposals :
          /\ RefreshRemoveMember(r) /\ p = ProposalOf(r) /\ detail[p].target = a
          /\ \/ detail[p].kind = "remove_member" /\ Executed(p)
             \/ detail[p].kind = "add_member" /\ RefusedOnce(p)
    BY <1>3, LeavingStep
  <2>2. CASE detail[p].kind = "add_member"
    <3>1. Adds(p, a) /\ a \notin Founders
      BY <1>3, <2>1, <2>2 DEF Adds, AddedOnce
    <3>2. row[p].status = "failed"
      BY <1>3, <2>1, <2>2 DEF RefreshRemoveMember, MembersInv, TurnInv
    <3>3. PICK q \in Proposals : Adds(q, a) /\ row[q].status = "committed"
      BY <1>3, <3>1 DEF MembersInv, StandingInv, Leaves
    <3> QED
      BY <1>3, <3>1, <3>2, <3>3 DEF AddedOnce
  <2> QED
    BY <2>1, <2>2 DEF VotedOut
<1>4. IInv /\ MembersInv /\ [Next]_vars =>
        [\A a \in Accounts : Leaves(a) /\ AddedOnce(a) => VotedOut(a)]_vars
  BY <1>3
<1> QED
  BY <1>1, <1>2, <1>4, TeamInvariance, PTL DEF Spec, MembersAreVotedOut


-----------------------------------------------------------------------------
(* Requests that take turns and run to their end *)

\* A step of the handlers or the ledger as the glossary sees it.
Seen == Glossary!Next \/ UNCHANGED Glossary!statusVars

HandedKept == \A p \in Proposals : HandedInv(p)'

\* With one request, and that not about to record a submission, what was handed
\* over is on record.
LEMMA NobodySends ==
  ASSUME TurnsInv, OneByOne, NEW r \in Requests, ~ At(r, "submit.setSubmitted")
  PROVE  \A p \in Proposals :
           /\ ~ Sending(p)
           /\ Handed(p) # {} => row[p].status \in {"submitted", "committed", "failed"}
<1>1. \A q \in Requests : q = r
  BY DEF OneByOne, Alone
<1>2. \A p \in Proposals : ~ Sending(p)
  BY <1>1 DEF Sending
<1> QED
  BY <1>2 DEF TurnsInv, HandedInv

\* The glossary sees nothing of a handler that reads.
LEMMA ReadTurn ==
  ASSUME TurnsInv, OneByOne, NEW r \in Requests, ~ At(r, "submit.setSubmitted"),
         UNCHANGED <<row, intent>>
  PROVE  HandedKept /\ Seen
<1>1. \A p \in Proposals : HandedOnce(p) /\ Handed(p)' = Handed(p)
  BY DEF TurnsInv, HandedInv, Handed
<1>2. HandedKept
  BY <1>1, NobodySends DEF HandedKept, HandedInv, HandedOnce
<1> QED
  BY <1>2, NothingSeen DEF Seen

\* A handler that writes a status along an edge, with what it then knows.
LEMMA WriteTurn ==
  ASSUME IInv, TurnsInv, OneByOne, NEW r \in Requests, ~ At(r, "submit.setSubmitted"),
         NEW p \in Proposals, NEW s \in Statuses, UpdateStatus(p, s), Edge(p, s),
         UNCHANGED intent
  PROVE  HandedKept /\ Seen
<1>0. RowTypeOK /\ req \in [Requests -> RequestType]
  BY DEF IInv, TypeOK, RepoTypeOK, RowTypeOK
<1>2. \A q \in Proposals : row'[q].status = IF q = p THEN s ELSE row[q].status
  BY <1>0 DEF UpdateStatus, RowTypeOK, RowType
<1>3. \A q \in Proposals : HandedOnce(q) /\ Handed(q)' = Handed(q)
  BY DEF TurnsInv, HandedInv, Handed
<1>4. Handed(p) # {} => s \in {"committed", "failed"}
  BY NobodySends DEF Edge, PendingStatuses
<1>5. \A q \in Proposals : HandedInv(q)'
  BY <1>2, <1>3, <1>4, NobodySends DEF HandedInv, HandedOnce
<1>6. Glossary!Next
  BY <1>0, <1>3, EdgeStep
<1> QED
  BY <1>5, <1>6 DEF HandedKept, Seen

\* A proposal is created.
LEMMA InsertTurn ==
  ASSUME IInv, TurnsInv, OneByOne, NEW r \in Requests, At(r, "create.insert"), Finish(r),
         NEW p \in Proposals, NEW e \in Entities, NEW d \in Deadlines, Insert(p, e, d),
         UNCHANGED intent
  PROVE  HandedKept /\ Seen
<1>0. RowTypeOK /\ req \in [Requests -> RequestType]
  BY DEF IInv, TypeOK, RepoTypeOK, RowTypeOK
<1>1. ~ At(r, "submit.setSubmitted")
  BY DEF At
<1>2. /\ row[p].status = "absent"
      /\ \A q \in Proposals : q # p => row'[q] = row[q]
  BY <1>0 DEF Insert, RowTypeOK
<1>3. \A q \in Proposals : Handed(q)' = Handed(q)
  BY DEF Handed
<1>4. Handed(p) = {}
  BY <1>2 DEF IInv, LedgerInv, Handed
<1>5. \A q \in Proposals : HandedInv(q)'
  BY <1>1, <1>2, <1>3, <1>4, NobodySends DEF TurnsInv, HandedInv, HandedOnce
<1>6. Glossary!Next
  BY <1>0, InsertionStep
<1> QED
  BY <1>5, <1>6 DEF HandedKept, Seen

LEMMA ArriveTurn ==
  ASSUME IInv, TurnsInv, OneByOne, NEW r \in Requests, Arrive(r)
  PROVE  HandedKept /\ Seen
<1> USE DEF chainVars, ledgerVars, repoVars
<1>0. RowTypeOK /\ req \in [Requests -> RequestType] /\ req[r] \in RequestType
  BY DEF IInv, TypeOK, RepoTypeOK, RowTypeOK
<1>1. ~ At(r, "submit.setSubmitted")
  BY DEF Arrive, Enter, CheckBadge, TurnAway, SignGetById, SubmitGetById, RefreshGetById,
     ListAllPending, At
<1>2. CASE ~ ListAllPending(r)
  <2>1. UNCHANGED <<row, intent>>
    BY <1>2 DEF Arrive, Enter, CheckBadge, TurnAway, SignGetById, SubmitGetById, RefreshGetById,
       Locally
  <2> QED
    BY <1>1, <2>1, ReadTurn
<1>3. CASE ListAllPending(r)
  <2>1. ExpirePending /\ UNCHANGED <<intent, req>> /\ At(r, "idle")
    BY <1>3 DEF ListAllPending
  <2>2. \A p \in Proposals : Sweeps(p) => Handed(p) = {}
    BY <1>1, NobodySends DEF Sweeps, PendingStatuses
  <2>3. \A p \in Proposals : HandedInv(p)'
    <3>1. \A p \in Proposals : HandedOnce(p) /\ Handed(p)' = Handed(p)
      BY <2>1 DEF TurnsInv, HandedInv, Handed
    <3>2. \A p \in Proposals : Handed(p) # {} => row'[p] = row[p]
      BY <1>0, <2>1, <2>2 DEF ExpirePending, RowTypeOK
    <3> QED
      BY <1>1, <3>1, <3>2, NobodySends DEF HandedInv, HandedOnce
  <2>4. Glossary!Next
    BY <1>0, <2>1, <2>2, SweepStep
  <2> QED
    BY <2>3, <2>4 DEF HandedKept, Seen
<1> QED
  BY <1>2, <1>3

LEMMA CreateTurn ==
  ASSUME IInv, TurnsInv, OneByOne, NEW r \in Requests, Create(r)
  PROVE  HandedKept /\ Seen
<1> USE DEF chainVars, ledgerVars, repoVars
<1>0. TypeOK /\ req \in [Requests -> RequestType] /\ RequestInv(r)
  BY DEF IInv, TypeOK
<1>1. ~ At(r, "submit.setSubmitted")
  BY DEF Create, CreateAddMember, CreateRemoveMember, CreateChangeThreshold, CreateFindBadge,
     CreateInsertMember, CreateInsert, At
<1>2. CASE Composes(r) \/ CreateInsertMember(r)
  <2>1. UNCHANGED <<row, intent>>
    BY <1>2, ComposesFrame DEF CreateInsertMember
  <2> QED
    BY <1>1, <2>1, ReadTurn
<1>3. CASE CreateInsert(r)
  <2>1. Finish(r) /\ UNCHANGED intent /\ At(r, "create.insert")
    BY <1>3 DEF CreateInsert
  <2>2. CASE UNCHANGED row
    BY <1>1, <2>1, <2>2, ReadTurn
  <2>3. ASSUME NEW p \in Proposals,
               InsertTeamProposal(p, req[r].draft.entity, req[r].draft.deadline,
                                  req[r].draft.detail)
        PROVE  HandedKept /\ Seen
    <3>1. req[r].draft \in DraftType
      BY <1>0, <2>1 DEF RequestInv, ActiveInv, At, CreatePcs
    <3>2. req[r].draft.entity \in Entities /\ req[r].draft.deadline \in Deadlines
      BY <3>1 DEF DraftType
    <3> QED
      BY <2>1, <2>3, <3>2, InsertTurn DEF InsertTeamProposal
  <2> QED
    BY <1>3, <2>2, <2>3 DEF CreateInsert
<1> QED
  BY <1>2, <1>3 DEF Create, Composes

\* What a request in a handler of a proposal on record knows when requests take turns.
LEMMA InTurn ==
  ASSUME IInv, TurnsInv, OneByOne, NEW r \in Requests,
         req[r].pc \in {"expire"} \cup SignPcs \cup SubmitPcs \cup RefreshPcs
  PROVE  \E p \in Proposals :
           /\ p = ProposalOf(r) /\ req[r].proposal = p /\ HandedOnce(p)
           /\ req[r].pc \in SignPcs =>
                row[p].status = req[r].seen /\ row[p].status \in {"created", "signing"}
           /\ At(r, "expire") => row[p].status \in PendingStatuses
           /\ req[r].pc \in SubmitPcs => row[p].status = "ready"
           /\ req[r].pc \in {"refresh.check", "refresh.updateStatus"} =>
                row[p].status = "submitted"
           /\ ~ At(r, "submit.setSubmitted") /\ row[p].status \in PendingStatuses =>
                Handed(p) = {}
<1>1. ProposalOf(r) \in Proposals /\ TurnInv(r)
  BY DEF IInv, RequestInv, ActiveInv, TurnsInv
<1>2. PICK p \in Proposals : p = ProposalOf(r)
  BY <1>1
<1>3. HandedOnce(p)
  BY DEF TurnsInv, HandedInv
<1>4. ~ At(r, "submit.setSubmitted") /\ row[p].status \in PendingStatuses => Handed(p) = {}
  BY NobodySends DEF PendingStatuses
<1> QED
  BY <1>1, <1>2, <1>3, <1>4 DEF TurnInv, ProposalOf

LEMMA SignTurn ==
  ASSUME IInv, TurnsInv, OneByOne, NEW r \in Requests, Sign(r) \/ Expire(r)
  PROVE  HandedKept /\ Seen
<1> USE DEF chainVars, ledgerVars, repoVars
<1>0. RowTypeOK /\ req \in [Requests -> RequestType] /\ req[r] \in RequestType
  BY DEF IInv, TypeOK, RepoTypeOK, RowTypeOK
<1>1. /\ req[r].pc \in {"expire"} \cup SignPcs
      /\ ~ At(r, "submit.setSubmitted")
  BY DEF Expire, Sign, SignIsExpired, SignValidate, SignAddSignature, SignGetSignatures,
     GetSignatures, SignUpdateStatus, At, SignPcs
<1>2. PICK p \in Proposals :
        /\ p = ProposalOf(r) /\ req[r].proposal = p
        /\ req[r].pc \in SignPcs =>
             row[p].status = req[r].seen /\ row[p].status \in {"created", "signing"}
        /\ At(r, "expire") => row[p].status \in PendingStatuses
        /\ row[p].status \in PendingStatuses => Handed(p) = {}
  BY <1>1, InTurn
<1>3. CASE Expire(r)
  <2>1. /\ UpdateStatus(p, "expired") /\ UNCHANGED intent /\ At(r, "expire")
    BY <1>2, <1>3 DEF Expire
  <2>2. Edge(p, "expired")
    BY <1>2, <2>1 DEF Edge
  <2> QED
    BY <1>1, <2>1, <2>2, WriteTurn, KnownStatuses
<1>4. CASE UNCHANGED <<row, intent>>
  BY <1>1, <1>4, ReadTurn
<1>5. CASE SignUpdateStatus(r)
  <2>1. /\ UNCHANGED intent /\ req[r].pc \in SignPcs
        /\ row[p].status = req[r].seen /\ row[p].status \in {"created", "signing"}
    BY <1>2, <1>5 DEF SignUpdateStatus, At, SignPcs
  <2>2. \/ UpdateStatus(p, "ready") \/ UNCHANGED row
        \/ UpdateStatus(p, "signing") /\ req[r].seen = "created"
    BY <1>2, <1>5 DEF SignUpdateStatus
  <2>3. CASE UpdateStatus(p, "ready")
    <3>1. Edge(p, "ready")
      BY <2>1 DEF Edge
    <3> QED
      BY <1>1, <2>1, <2>3, <3>1, WriteTurn, KnownStatuses
  <2>4. CASE UpdateStatus(p, "signing") /\ req[r].seen = "created"
    <3>1. Edge(p, "signing")
      BY <2>1, <2>4 DEF Edge
    <3> QED
      BY <1>1, <2>1, <2>4, <3>1, WriteTurn, KnownStatuses
  <2> QED
    BY <1>4, <2>1, <2>2, <2>3, <2>4
<1> QED
  BY <1>3, <1>4, <1>5 DEF Sign, SignIsExpired, SignValidate, SignAddSignature, AddSignature,
     SignGetSignatures, GetSignatures, Locally

LEMMA ReadRuleTurn ==
  ASSUME TurnsInv, OneByOne, NEW r \in Requests, NEW e \in Entities, ReadRule(r, e)
  PROVE  HandedKept /\ Seen
<1>1. /\ UNCHANGED <<row, intent>> /\ ~ At(r, "submit.setSubmitted")
  BY DEF ReadRule, Locally, chainVars, ledgerVars, repoVars, At
<1> QED
  BY <1>1, ReadTurn

LEMMA SubmitTurn ==
  ASSUME IInv, TurnsInv, OneByOne, NEW r \in Requests, Submit(r)
  PROVE  HandedKept /\ Seen
<1> USE DEF chainVars, ledgerVars, repoVars
<1>0. RowTypeOK /\ req \in [Requests -> RequestType] /\ req[r] \in RequestType /\ LedgerTypeOK
  BY DEF IInv, TypeOK, RepoTypeOK, RowTypeOK
<1>1. req[r].pc \in SubmitPcs
  BY DEF Submit, SubmitIsExpired, SubmitGetSignatures, GetSignatures, SubmitInvalidate,
     SubmitSend, SubmitSetSubmitted, At, SubmitPcs
<1>2. PICK p \in Proposals :
        /\ p = ProposalOf(r) /\ req[r].proposal = p /\ row[p].status = "ready"
        /\ ~ At(r, "submit.setSubmitted") => Handed(p) = {}
  BY <1>1, InTurn DEF PendingStatuses
<1>3. CASE SubmitIsExpired(r) \/ SubmitGetSignatures(r)
  <2>1. UNCHANGED <<row, intent>> /\ ~ At(r, "submit.setSubmitted")
    BY <1>3 DEF SubmitIsExpired, SubmitGetSignatures, GetSignatures, Locally, At
  <2> QED
    BY <2>1, ReadTurn
<1>4. CASE SubmitInvalidate(r)
  <2>1. /\ UpdateStatus(p, "invalid") /\ UNCHANGED intent
        /\ ~ At(r, "submit.setSubmitted")
    BY <1>2, <1>4 DEF SubmitInvalidate, At
  <2>2. Edge(p, "invalid")
    BY <1>2, <2>1 DEF Edge
  <2> QED
    BY <2>1, <2>2, WriteTurn, KnownStatuses
<1>5. CASE SubmitSend(r)
  <2>1. /\ UNCHANGED row /\ ~ At(r, "submit.setSubmitted") /\ Handed(p) = {}
    BY <1>2, <1>5 DEF SubmitSend, At
  <2>2. CASE UNCHANGED intent
    BY <2>1, <2>2, ReadTurn
  <2>3. ASSUME NEW i \in Intents, SubmitWithSubintent(i, p, KeysOf(req[r].sigs)),
               req' = [req EXCEPT ![r].pc = "submit.setSubmitted", ![r].hash = i]
        PROVE  HandedKept /\ Seen
    <3>1. intent[i].state = "absent" => intent[i].proposal = Null
      BY DEF IInv, LedgerInv
    <3>2. /\ Glossary!Next /\ Handed(p)' = {i}
          /\ \A q \in Proposals : q # p => Handed(q)' = Handed(q)
      BY <1>0, <1>2, <2>1, <2>3, <3>1, HandOverStep
    <3>3. req'[r].pc = "submit.setSubmitted" /\ req'[r].proposal = p
      BY <1>0, <1>2, <2>3 DEF RequestType
    <3>4. Sending(p)'
      BY <3>3 DEF Sending, At, ProposalOf
    <3>5. \A q \in Proposals : HandedInv(q)'
      <4>1. HandedInv(p)'
        BY <3>2, <3>4 DEF HandedInv, HandedOnce
      <4>2. \A q \in Proposals : q # p => HandedInv(q)'
        BY <2>1, <3>2, NobodySends DEF TurnsInv, HandedInv, HandedOnce
      <4> QED
        BY <4>1, <4>2
    <3> QED
      BY <3>2, <3>5 DEF HandedKept, Seen
  <2> QED
    BY <1>2, <1>5, <2>2, <2>3 DEF SubmitSend
<1>6. CASE SubmitSetSubmitted(r)
  <2>1. PICK i \in Intents : i = req[r].hash /\ intent[i].proposal = p
    BY <1>2, <1>6 DEF SubmitSetSubmitted, IInv, RequestInv, SubmitInv
  <2>2. /\ SetSubmitted(p, i) /\ UNCHANGED intent
    BY <1>2, <1>6, <2>1 DEF SubmitSetSubmitted
  <2>3. \A q \in Proposals : HandedOnce(q) /\ Handed(q)' = Handed(q)
    BY <2>2 DEF TurnsInv, HandedInv, Handed
  <2>4. \A q \in Proposals : q # p => row'[q].status = row[q].status
    BY <1>0, <2>2 DEF SetSubmitted, RowTypeOK, RowType
  <2>5. row'[p].status = "submitted"
    BY <1>0, <2>2 DEF SetSubmitted, RowTypeOK, RowType
  <2>6. \A q \in Proposals : q # p => ~ Sending(q)
    BY <1>2 DEF OneByOne, Alone, Sending
  <2>7. \A q \in Proposals : HandedInv(q)'
    BY <2>3, <2>4, <2>5, <2>6 DEF TurnsInv, HandedInv, HandedOnce
  <2>8. Glossary!Next
    BY <1>0, <1>2, <2>1, <2>2, RecordStep DEF Handed
  <2> QED
    BY <2>7, <2>8 DEF HandedKept, Seen
<1> QED
  BY <1>3, <1>4, <1>5, <1>6 DEF Submit

LEMMA RefreshTurn ==
  ASSUME IInv, TurnsInv, OneByOne, NEW r \in Requests, Refresh(r)
  PROVE  HandedKept /\ Seen
<1> USE DEF chainVars, ledgerVars, repoVars
<1>0. RowTypeOK /\ req \in [Requests -> RequestType] /\ req[r] \in RequestType
  BY DEF IInv, TypeOK, RepoTypeOK, RowTypeOK
<1>1. req[r].pc \in RefreshPcs /\ ~ At(r, "submit.setSubmitted")
  BY DEF Refresh, RefreshCheck, RefreshUpdateStatus, RefreshConfirmMember,
     RefreshRemoveMember, At, RefreshPcs
<1>2. PICK p \in Proposals :
        /\ p = ProposalOf(r) /\ req[r].proposal = p /\ HandedOnce(p)
        /\ req[r].pc \in {"refresh.check", "refresh.updateStatus"} =>
             row[p].status = "submitted"
  BY <1>1, InTurn
<1>3. CASE ~ RefreshUpdateStatus(r)
  <2>1. UNCHANGED <<row, intent>>
    BY <1>3 DEF Refresh, RefreshCheck, RefreshConfirmMember, RefreshRemoveMember, Locally
  <2> QED
    BY <1>1, <2>1, ReadTurn
<1>4. CASE RefreshUpdateStatus(r)
  <2>1. /\ UpdateStatus(p, req[r].write) /\ UNCHANGED intent
        /\ At(r, "refresh.updateStatus") /\ row[p].status = "submitted"
    BY <1>2, <1>4 DEF RefreshUpdateStatus, At
  <2>2. req[r].write \in {"committed", "failed"} /\ Justified(p, req[r].write)
    BY <1>2, <2>1 DEF IInv, RequestInv, RefreshInv
  <2>3. Edge(p, req[r].write)
    BY <1>2, <2>1, <2>2, OneVerdict DEF Edge, Justified, RefusedOnce
  <2> QED
    BY <1>1, <2>1, <2>2, <2>3, WriteTurn, KnownStatuses
<1> QED
  BY <1>3, <1>4

\* The ledger decides about what was handed over; the rest of its steps the
\* glossary does not see.
LEMMA LedgerTurn ==
  ASSUME IInv, TurnsInv, LedgerStep \/ UNCHANGED vars
  PROVE  HandedKept /\ Seen
<1>0. UNCHANGED <<row, req>> /\ LedgerTypeOK
  BY DEF LedgerStep, ExecuteTeamProposal, TransferBadge, vars, repoVars, IInv, TypeOK
<1>1. ASSUME \A p \in Proposals : Handed(p)' = Handed(p)
      PROVE  HandedKept
  <2>1. \A p \in Proposals : Sending(p)' <=> Sending(p)
    BY <1>0 DEF Sending, At, ProposalOf
  <2>2. \A p \in Proposals : HandedInv(p)'
    BY <1>0, <1>1, <2>1 DEF TurnsInv, HandedInv, HandedOnce
  <2> QED
    BY <2>2 DEF HandedKept
<1>2. CASE UNCHANGED intent
  <2>1. \A p \in Proposals : Handed(p)' = Handed(p)
    BY <1>2 DEF Handed
  <2> QED
    BY <1>0, <1>1, <1>2, <2>1, NothingSeen DEF Seen
<1>3. ASSUME NEW i \in Intents, Refuse(i) \/ \E touched, d : Execute(i, touched, d)
      PROVE  HandedKept /\ Seen
  <2>1. intent[i].state = "pending" /\ intent[i] \in IntentType
    BY <1>0, <1>3 DEF Refuse, Execute, LedgerTypeOK
  <2>2. intent[i].proposal \in Proposals
    BY <2>1 DEF IInv, LedgerInv, IntentType
  <2>3. HandedOnce(intent[i].proposal)
    BY <2>2 DEF TurnsInv, HandedInv
  <2> QED
    BY <1>0, <1>1, <1>3, <2>2, <2>3, VerdictStep DEF Seen
<1> QED
  BY <1>2, <1>3 DEF LedgerStep, ExecuteTeamProposal, vars, chainVars, ledgerVars

LEMMA TurnStep ==
  ASSUME IInv, TurnsInv, OneByOne, [Next]_vars
  PROVE  TurnsInv' /\ [Glossary!Next]_(Glossary!statusVars)
<1>1. ASSUME NEW r \in Requests, Abort(r)
      PROVE  FALSE
  BY <1>1 DEF Abort, OneByOne
<1>2. HandedKept /\ Seen
  BY <1>1, ArriveTurn, CreateTurn, SignTurn, ReadRuleTurn, SubmitTurn, RefreshTurn, LedgerTurn
     DEF Next, Continue
<1>3. \A r \in Requests : TurnInv(r)'
  BY TurnKept DEF OneByOne, TurnsInv
<1> QED
  BY <1>2, <1>3 DEF HandedKept, TurnsInv, Seen

LEMMA TurnsStart ==
  ASSUME Init
  PROVE  TurnsInv
<1>1. \A p \in Proposals : Handed(p) = {}
  BY DEF Init, LedgerInit, Handed, Absent
<1>2. \A r \in Requests : req[r].pc = "idle"
  BY DEF Init, Idle
<1> QED
  BY <1>1, <1>2 DEF TurnsInv, HandedInv, HandedOnce, TurnInv, At, SignPcs, SubmitPcs

\* Where requests take turns and run to their end, team proposals move as
\* the glossary says, although two of them may set each other's rules.
THEOREM TeamGlossarySafety == OneByOne => (Spec => ImplementsGlossary)
<1> SUFFICES ASSUME OneByOne PROVE Spec => ImplementsGlossary
  OBVIOUS
<1>1. Init => TurnsInv /\ Glossary!Init
  BY TurnsStart, GlossaryStart DEF Init
<1>2. IInv /\ TurnsInv /\ [Next]_vars => TurnsInv' /\ [Glossary!Next]_(Glossary!statusVars)
  BY TurnStep
<1> QED
  BY <1>1, <1>2, TeamInvariance, PTL DEF Spec, ImplementsGlossary, Glossary!Spec
=============================================================================
