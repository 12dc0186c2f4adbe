--------------------------- MODULE TeamProposals ---------------------------
(***************************************************************************)
(* The team-proposal handlers of the server (handlers/teamProposals.ts):   *)
(* proposals that add a member, remove one, or change a vault's threshold. *)
(* As in VaultProposals an action is one call of a handler to the database *)
(* or the Gateway with the local code after it.                            *)
(*                                                                         *)
(* A team proposal carries the owner rules it will install, computed from  *)
(* the rules in force when it was created; executing it installs them, and *)
(* mints or burns the badge NFT of the member concerned.  These executions *)
(* are the rule changes of this module.  The vaults of the team do not     *)
(* change here.                                                            *)
(***************************************************************************)
EXTENDS TeamRepo

CONSTANTS
  Requests,       \* slots for requests in flight (bounds the concurrency)
  Faults,         \* whether a request may be cut short between two calls
  Transfers,      \* whether members move their badges to other accounts
  Badge,          \* the team's badge resource
  FoundingRules,  \* the rules the entities may start with
  Asked           \* the thresholds members ask for

ASSUME TeamAssumption ==
  /\ Faults \in BOOLEAN
  /\ Transfers \in BOOLEAN
  /\ Badge \in Entities
  /\ FoundingRules \subseteq [Entities -> Rules]
  /\ Asked \subseteq Nat \ {0}

VARIABLES
  badges,  \* [Accounts -> SUBSET Badges], the badge NFTs in each account
  req      \* [Requests -> RequestType]

chainVars == <<ledgerVars, badges>>

vars == <<chainVars, repoVars, teamVars, req>>

Vaults == Entities \ {Badge}

CreatePcs == {"create.findBadge", "create.addMember", "create.insert"}

SignPcs == {"sign.isExpired", "sign.validate", "sign.addSignature",
            "sign.getSignatures", "sign.readRules"}

SubmitPcs == {"submit.isExpired", "submit.getSignatures", "submit.readRules",
              "submit.setSubmitted"}

RefreshPcs == {"refresh.check", "refresh.updateStatus", "refresh.confirmMember",
               "refresh.removeMember"}

Pcs == {"idle", "membership", "gate", "expire"} \cup CreatePcs \cup SignPcs \cup SubmitPcs
         \cup RefreshPcs

DraftType == [entity : Entities, deadline : Deadlines, detail : DetailType]

RequestType ==
  [pc : Pcs,
   account : Accounts \cup {Null},    \* until signed: the session's account
   proposal : Proposals \cup {Null},
   draft : DraftType \cup {Null},     \* create: the proposal to be inserted
   key : Keys \cup {Null},            \* sign: the key of the signed partial
   seen : Statuses \cup {Null},       \* sign: the status read by getByIdTeam
   sigs : SUBSET SignatureType,       \* what getSignatures returned
   unread : SUBSET Entities,          \* rules getRequiredThreshold still awaits
   need : Nat,                        \* the largest threshold it has seen
   hash : Intents \cup {Null},        \* the intent submitted, or asked about
   write : Statuses \cup {Null}]      \* the status about to be written

Idle == [pc |-> "idle", account |-> Null, proposal |-> Null, draft |-> Null,
         key |-> Null, seen |-> Null, sigs |-> {}, unread |-> {}, need |-> 0,
         hash |-> Null, write |-> Null]

TypeOK ==
  /\ LedgerTypeOK
  /\ RepoTypeOK
  /\ TeamRepoTypeOK
  /\ badges \in [Accounts -> SUBSET Badges]
  /\ req \in [Requests -> RequestType]

Init ==
  /\ LedgerInit /\ rule \in FoundingRules
  /\ RepoInit
  /\ TeamRepoInit
  /\ badges = [a \in Accounts |-> {a} \cap Founders]
  /\ req = [r \in Requests |-> Idle]

-----------------------------------------------------------------------------
(* Slots. *)

At(r, pc) == req[r].pc = pc

Goto(r, pc) == req' = [req EXCEPT ![r].pc = pc]

Finish(r) == req' = [req EXCEPT ![r] = Idle]

ProposalOf(r) == req[r].proposal

\* Every writing endpoint first checks that the account is a confirmed member,
\* then that it holds a badge of the team.  Who passed the checks acts later on,
\* member or not.
Enter(r, a) ==
  /\ At(r, "idle")
  /\ member[a] = "confirmed"
  /\ req' = [req EXCEPT ![r] = [Idle EXCEPT !.pc = "membership", !.account = a]]
  /\ UNCHANGED <<chainVars, repoVars, teamVars>>

CheckBadge(r) ==
  /\ At(r, "membership")
  /\ IF badges[req[r].account] = {} THEN Finish(r) ELSE Goto(r, "gate")
  /\ UNCHANGED <<chainVars, repoVars, teamVars>>

\* The handler turns the request away without writing anything.
TurnAway(r) ==
  /\ At(r, "gate")
  /\ Finish(r)
  /\ UNCHANGED <<chainVars, repoVars, teamVars>>

\* A local step of the handler with request r, or a read, writes no table.
Locally(r, new) ==
  /\ req' = [req EXCEPT ![r] = new]
  /\ UNCHANGED <<chainVars, repoVars, teamVars>>

-----------------------------------------------------------------------------
(* create: the rules in force are read, the new ones computed from them.   *)

\* buildMultisigAccessRule: all signers, or a count of them.
MultisigRule(signers, threshold) ==
  IF threshold = Cardinality(signers)
    THEN [type |-> "AllOf", count |-> 0, signers |-> signers]
    ELSE [type |-> "CountOf", count |-> threshold, signers |-> signers]

\* Rules holds every rule a manifest may set.
ASSUME RulesClosedAssumption ==
  \A signers \in SUBSET Keys, n \in Asked :
    n <= Cardinality(signers) => MultisigRule(signers, n) \in Rules

Plan(signers, asked) == [e \in DOMAIN asked |-> MultisigRule(signers, asked[e])]

\* The thresholds a request names: for the badge and for some of the vaults.
Thresholds == UNION {[{Badge} \cup vs -> Asked] : vs \in SUBSET Vaults}

\* VARIANT: thresholds are not compared with the number of signers.
FitsAlways(signers, asked) == signers # {}

Fits(signers, asked) ==
  signers # {} /\ \A e \in DOMAIN asked : asked[e] <= Cardinality(signers)

Draft(r, pc, e, kind, a, badge, signers, asked) ==
  /\ Fits(signers, asked)
  /\ \E d \in Deadlines :
       /\ now < d
       /\ Locally(r, [Idle EXCEPT !.pc = pc, !.draft =
            [entity |-> e, deadline |-> d,
             detail |-> [kind |-> kind, target |-> a, recall |-> badge,
                         plan |-> Plan(signers, asked)]]])

CreateAddMember(r) ==
  /\ At(r, "gate")
  /\ \E a \in Accounts, k \in Keys \ rule[Badge].signers, asked \in Thresholds :
       Draft(r, "create.addMember", Badge, "add_member", a, Null,
             rule[Badge].signers \cup {k}, asked)

CreateRemoveMember(r) ==
  /\ At(r, "gate")
  /\ \E a \in Accounts, k \in rule[Badge].signers, asked \in Thresholds :
       Draft(r, "create.findBadge", Badge, "remove_member", a, Null,
             rule[Badge].signers \ {k}, asked)

\* The badge to recall is looked up in the member's account, which holds none or
\* cannot be read, or is one the account holds by now.
CreateFindBadge(r) ==
  /\ At(r, "create.findBadge")
  /\ LET draft == req[r].draft IN
       \/ Locally(r, Idle)
       \/ \E b \in Badges, d \in Deadlines :
            /\ b \in badges[draft.detail.target] /\ now < d
            /\ Locally(r, [Idle EXCEPT !.pc = "create.insert", !.draft =
                 [draft EXCEPT !.deadline = d, !.detail.recall = b]])

CreateChangeThreshold(r) ==
  /\ At(r, "gate")
  /\ \E v \in Vaults, t \in Asked :
       Draft(r, "create.insert", v, "change_threshold", Null, Null,
             rule[v].signers, [e \in {v} |-> t])

\* The member is inserted before the manifest is previewed.
CreateInsertMember(r) ==
  /\ At(r, "create.addMember")
  /\ AddMember(req[r].draft.detail.target)
  /\ Goto(r, "create.insert")
  /\ UNCHANGED <<chainVars, repoVars, detail>>

\* The preview refuses the manifest, or the proposal is stored.
CreateInsert(r) ==
  /\ At(r, "create.insert")
  /\ \/ UNCHANGED <<repoVars, detail>>
     \/ \E p \in Proposals :
          InsertTeamProposal(p, req[r].draft.entity, req[r].draft.deadline,
                             req[r].draft.detail)
  /\ Finish(r)
  /\ UNCHANGED <<chainVars, member>>

Create(r) ==
  \/ CreateAddMember(r) \/ CreateRemoveMember(r) \/ CreateChangeThreshold(r)
  \/ CreateFindBadge(r) \/ CreateInsertMember(r) \/ CreateInsert(r)

-----------------------------------------------------------------------------
(* getRequiredThreshold reads the rules concurrently, one by one: those of *)
(* the badge and of every vault, or that of the one vault concerned.       *)

Consulted(p) ==
  IF detail[p].kind = "change_threshold" THEN {row[p].entity} ELSE Entities

\* VARIANT: the threshold read last is the one that counts.
Later(m, n) == n

Larger(m, n) == IF m >= n THEN m ELSE n

ReadRule(r, e) ==
  /\ req[r].pc \in {"sign.readRules", "submit.readRules"}
  /\ e \in req[r].unread
  /\ Locally(r, [req[r] EXCEPT !.unread = @ \ {e},
                               !.need = Larger(@, Threshold(rule[e]))])

Reached(sigs, need) == Cardinality(sigs) >= need

GetSignatures(r, from, to) ==
  /\ At(r, from)
  /\ Locally(r, [req[r] EXCEPT !.pc = to, !.need = 0,
                               !.sigs = signature[ProposalOf(r)],
                               !.unread = Consulted(ProposalOf(r))])

-----------------------------------------------------------------------------
(* sign *)

SignGetById(r, p, k) ==
  /\ At(r, "gate")
  /\ row[p].status \in {"created", "signing"}
  /\ Locally(r, [req[r] EXCEPT !.pc = "sign.isExpired", !.proposal = p,
                               !.key = k, !.seen = row[p].status])

SignIsExpired(r) ==
  /\ At(r, "sign.isExpired")
  /\ Locally(r, [req[r] EXCEPT !.pc =
       IF IsExpired(ProposalOf(r)) THEN "expire" ELSE "sign.validate"])

\* setTerminalStatus 'expired', reached from sign and from submit.
Expire(r) ==
  /\ At(r, "expire")
  /\ UpdateStatus(ProposalOf(r), "expired")
  /\ Finish(r)
  /\ UNCHANGED <<chainVars, teamVars>>

\* The key must be a signer of the proposal's own entity, whatever else the
\* manifest touches.
SignValidate(r) ==
  /\ At(r, "sign.validate")
  /\ IF req[r].key \in rule[row[ProposalOf(r)].entity].signers
       THEN Locally(r, [req[r] EXCEPT !.pc = "sign.addSignature"])
       ELSE Locally(r, Idle)

SignAddSignature(r) ==
  /\ At(r, "sign.addSignature")
  /\ \/ /\ AddSignature(ProposalOf(r), req[r].account, req[r].key)
        /\ Goto(r, "sign.getSignatures")
     \/ /\ HasSigned(ProposalOf(r), req[r].account)
        /\ Finish(r)
        /\ UNCHANGED repoVars
  /\ UNCHANGED <<chainVars, teamVars>>

SignGetSignatures(r) == GetSignatures(r, "sign.getSignatures", "sign.readRules")

SignUpdateStatus(r) ==
  /\ At(r, "sign.readRules") /\ req[r].unread = {}
  /\ IF Reached(req[r].sigs, req[r].need)
       THEN UpdateStatus(ProposalOf(r), "ready")
       ELSE IF req[r].seen = "created"
         THEN UpdateStatus(ProposalOf(r), "signing")
         ELSE UNCHANGED repoVars
  /\ Finish(r)
  /\ UNCHANGED <<chainVars, teamVars>>

Sign(r) ==
  \/ SignIsExpired(r) \/ SignValidate(r) \/ SignAddSignature(r)
  \/ SignGetSignatures(r) \/ SignUpdateStatus(r)

-----------------------------------------------------------------------------
(* submit *)

\* VARIANT: a submitted proposal goes through submit again.
SubmittableAgain(status) == status \in {"ready", "submitted"}

Submittable(status) == status = "ready"

SubmitGetById(r, p) ==
  /\ At(r, "gate")
  /\ Submittable(row[p].status)
  /\ Locally(r, [Idle EXCEPT !.pc = "submit.isExpired", !.proposal = p])

SubmitIsExpired(r) ==
  /\ At(r, "submit.isExpired")
  /\ Locally(r, [req[r] EXCEPT !.pc =
       IF IsExpired(ProposalOf(r)) THEN "expire" ELSE "submit.getSignatures"])

SubmitGetSignatures(r) ==
  GetSignatures(r, "submit.getSignatures", "submit.readRules")

SubmitInvalidate(r) ==
  /\ At(r, "submit.readRules") /\ req[r].unread = {}
  /\ ~ Reached(req[r].sigs, req[r].need)
  /\ UpdateStatus(ProposalOf(r), "invalid")
  /\ Finish(r)
  /\ UNCHANGED <<chainVars, teamVars>>

\* The Gateway accepts the transaction, or the call fails before it does.
SubmitSend(r) ==
  /\ At(r, "submit.readRules") /\ req[r].unread = {}
  /\ Reached(req[r].sigs, req[r].need)
  /\ \/ \E i \in Intents :
          /\ SubmitWithSubintent(i, ProposalOf(r), KeysOf(req[r].sigs))
          /\ req' = [req EXCEPT ![r].pc = "submit.setSubmitted", ![r].hash = i]
     \/ Finish(r) /\ UNCHANGED intent
  /\ UNCHANGED <<rule, past, now, badges, repoVars, teamVars>>

SubmitSetSubmitted(r) ==
  /\ At(r, "submit.setSubmitted")
  /\ SetSubmitted(ProposalOf(r), req[r].hash)
  /\ Finish(r)
  /\ UNCHANGED <<chainVars, teamVars>>

Submit(r) ==
  \/ SubmitIsExpired(r) \/ SubmitGetSignatures(r) \/ SubmitInvalidate(r)
  \/ SubmitSend(r) \/ SubmitSetSubmitted(r)

-----------------------------------------------------------------------------
(* refreshStatus: first the status is written, then the member table.      *)

RefreshGetById(r, p) ==
  /\ At(r, "gate")
  /\ row[p].status = "submitted" /\ row[p].hash # Null
  /\ Locally(r, [Idle EXCEPT !.pc = "refresh.check", !.proposal = p,
                             !.hash = row[p].hash])

\* VARIANT: the Gateway's word is written as it is.
StatusAsReported(reported) == IF reported = "Pending" THEN Null ELSE reported

\* VARIANT: whatever is not a failure is a success.
StatusOptimistic(reported) ==
  IF reported \in {"CommittedFailure", "Rejected"} THEN "failed" ELSE "committed"

\* The status refreshStatus writes for what the Gateway reports, if any.
StatusAfterCheck(reported) ==
  CASE reported = "CommittedSuccess" -> "committed"
    [] reported \in {"CommittedFailure", "Rejected"} -> "failed"
    [] OTHER -> Null

RefreshCheck(r) ==
  /\ At(r, "refresh.check")
  /\ \E reported \in View(intent[req[r].hash].state) :
       LET s == StatusAfterCheck(reported) IN
         IF s = Null
           THEN Locally(r, Idle)
           ELSE Locally(r, [req[r] EXCEPT !.pc = "refresh.updateStatus", !.write = s])

\* VARIANT: a member is removed whenever a proposal about it is settled.
MemberWriteAlways(kind, status) ==
  IF status = "committed" /\ kind = "add_member" THEN "refresh.confirmMember"
  ELSE IF kind = "change_threshold" THEN "idle" ELSE "refresh.removeMember"

\* The call on the member table that follows the status, if any.
MemberWrite(kind, status) ==
  CASE status = "committed" /\ kind = "add_member" -> "refresh.confirmMember"
    [] status = "committed" /\ kind = "remove_member" -> "refresh.removeMember"
    [] status = "failed" /\ kind = "add_member" -> "refresh.removeMember"
    [] OTHER -> "idle"

RefreshUpdateStatus(r) ==
  /\ At(r, "refresh.updateStatus")
  /\ UpdateStatus(ProposalOf(r), req[r].write)
  /\ LET next == MemberWrite(detail[ProposalOf(r)].kind, req[r].write) IN
       IF next = "idle" THEN Finish(r) ELSE Goto(r, next)
  /\ UNCHANGED <<chainVars, teamVars>>

RefreshConfirmMember(r) ==
  /\ At(r, "refresh.confirmMember")
  /\ ConfirmMember(detail[ProposalOf(r)].target)
  /\ Finish(r)
  /\ UNCHANGED <<chainVars, repoVars, detail>>

RefreshRemoveMember(r) ==
  /\ At(r, "refresh.removeMember")
  /\ RemoveMember(detail[ProposalOf(r)].target)
  /\ Finish(r)
  /\ UNCHANGED <<chainVars, repoVars, detail>>

Refresh(r) ==
  \/ RefreshCheck(r) \/ RefreshUpdateStatus(r)
  \/ RefreshConfirmMember(r) \/ RefreshRemoveMember(r)

-----------------------------------------------------------------------------
(* The dashboard's sweep, failures of the server, and the environment.     *)

ListAllPending(r) ==
  /\ At(r, "idle")
  /\ ExpirePending
  /\ UNCHANGED <<chainVars, teamVars, req>>

Abort(r) ==
  /\ Faults
  /\ req[r].pc \notin {"idle", "membership", "gate"}
  /\ Locally(r, Idle)

\* What a manifest does to the badges: a new one is minted for the member, or
\* the one recorded is recalled from the member's account, where it must be.
MovesBadges(p) ==
  LET d == detail[p] IN
  CASE d.kind = "add_member" ->
         badges' = [badges EXCEPT ![d.target] = @ \cup {p}]
    [] d.kind = "remove_member" ->
         /\ d.recall \in badges[d.target]
         /\ badges' = [badges EXCEPT ![d.target] = @ \ {d.recall}]
    [] OTHER -> UNCHANGED badges

\* A team proposal commits: every entity whose rule its manifest sets must be
\* satisfied by the signatures, and all the rules are set at once.
ExecuteTeamProposal(i, p) ==
  /\ intent[i].proposal = p
  /\ Execute(i, DOMAIN detail[p].plan, row[p].deadline)
  /\ MovesBadges(p)
  /\ rule' = [e \in Entities |->
                IF e \in DOMAIN detail[p].plan THEN detail[p].plan[e] ELSE rule[e]]
  /\ past' = [e \in Entities |-> past[e] \cup {rule'[e]}]
  /\ UNCHANGED now

\* Nothing restricts the withdrawal of badges.
TransferBadge ==
  /\ Transfers
  /\ \E a \in Accounts, b \in Accounts, t \in Badges :
       /\ a # b /\ t \in badges[a]
       /\ badges' = [badges EXCEPT ![a] = @ \ {t}, ![b] = @ \cup {t}]

LedgerStep ==
  /\ \/ \E i \in Intents, p \in Proposals : ExecuteTeamProposal(i, p)
     \/ \E i \in Intents : Refuse(i) /\ UNCHANGED <<rule, past, now, badges>>
     \/ Tick /\ UNCHANGED <<rule, past, intent, badges>>
     \/ TransferBadge /\ UNCHANGED ledgerVars
  /\ UNCHANGED <<repoVars, teamVars, req>>

Arrive(r) ==
  \/ \E a \in Accounts : Enter(r, a)
  \/ CheckBadge(r)
  \/ TurnAway(r)
  \/ \E p \in Proposals :
       \/ \E k \in Keys : SignGetById(r, p, k)
       \/ SubmitGetById(r, p)
       \/ RefreshGetById(r, p)
  \/ ListAllPending(r)

Continue(r) ==
  \/ Create(r) \/ Expire(r) \/ Sign(r) \/ Submit(r) \/ Refresh(r)
  \/ \E e \in Entities : ReadRule(r, e)

Next ==
  \/ \E r \in Requests : Arrive(r) \/ Continue(r) \/ Abort(r)
  \/ LedgerStep

Spec == Init /\ [][Next]_vars

-----------------------------------------------------------------------------
(* Safety under every interleaving and with faults.                        *)

\* A team proposal never gets past signing on fewer signatures than every
\* entity consulted, the badge and each vault, has asked for under some rule it
\* has had, although the rules are read one by one after the signatures and may
\* change in between.
RequiredWasReached ==
  \A p \in Proposals : row[p].status \in PastReady =>
    \A e \in Consulted(p) : \E ru \in past[e] :
      Cardinality(signature[p]) >= Threshold(ru)

\* Whoever is a confirmed member founded the team or was added by a proposal
\* that executed on the ledger: a refreshStatus that is late, or repeated, or
\* meets a row inserted by another proposal confirms nobody else.
MembersWereVotedIn ==
  \A a \in Accounts : member[a] = "confirmed" =>
    \/ a \in Founders
    \/ \E p \in Proposals :
         detail[p].kind = "add_member" /\ detail[p].target = a /\ Executed(p)

RefusedOnce(p) == \E i \in Handed(p) : intent[i].state \in {"failure", "rejected"}

Adds(p, a) == detail[p].kind = "add_member" /\ detail[p].target = a

VotedOut(a) ==
  \E p \in Proposals :
    detail[p].kind = "remove_member" /\ detail[p].target = a /\ Executed(p)

Leaves(a) == member[a] = "confirmed" /\ member'[a] # "confirmed"

\* No proposal adds an account that is a member for another reason: it founded
\* the team, or a second proposal adds it too.
AddedOnce(a) ==
  \A p, q \in Proposals : Adds(p, a) /\ Adds(q, a) => p = q /\ a \notin Founders

\* A confirmed member loses that standing only when the ledger has executed
\* the removal, where no proposal adds who is a member for another reason:
\* however often a proposal is handed over, refreshed and cut short, it never
\* takes off the member it has brought in.
MembersAreVotedOut ==
  [][\A a \in Accounts : Leaves(a) /\ AddedOnce(a) => VotedOut(a)]_vars

\* What the handler's comment on the cleanup says (teamProposals.ts:810): when an
\* addition fails it is an unconfirmed member that is removed, so that a confirmed
\* one leaves by an executed removal only.
CleanupSparesMembers ==
  [][\A a \in Accounts : Leaves(a) => VotedOut(a)]_vars

\* No sequence of team proposals, executed in whatever order and computed from
\* whatever rules were in force before, leaves an entity that nobody can
\* satisfy.
NobodyIsLockedOut ==
  \A e \in Entities : Threshold(rule[e]) \in 1 .. Cardinality(rule[e].signers)

\* Where requests take turns and run to their end, team proposals move along
\* the glossary's edges too.
ImplementsGlossary == Glossary!Spec
=============================================================================
