# radix-vaults: a TLA+ verification project

radix-vaults lets a team run Radix accounts ("vaults") under a multi-signature
rule. Members propose a transaction, collect signatures off the ledger, and
submit it once the vault's threshold is met. This directory models the program
that does this, model-checks it on small instances, and proves its main safety
properties for instances of any size.

Paths below are relative to the repository's root; `proposals.ts` alone means
`apps/server/src/handlers/proposals.ts`.

## 1. The system

| Component | State | Operations | Sources |
|---|---|---|---|
| Vault proposal handlers | local variables of requests in flight | create, sign, submit, refreshStatus (list, detail read) | `handlers/proposals.ts`, `api/proposalHandlers.ts` |
| Proposal tables | `proposals`, `proposal_signatures` | insert, getById, addSignature, getSignatures, updateStatus, setSubmitted, setTerminalStatus, listAllPending | `handlers/proposalRepo.ts`, `packages/database/src/schema.ts` |
| Team proposal handlers | the same, and `team_members` | createAddMember, createRemoveMember, createChangeThreshold, sign, submit, refreshStatus | `handlers/teamProposals.ts` |
| Teams, members | `teams`, `team_members` | createTeam, addMember, confirmMember, removeMember, reads | `handlers/teams.ts`, `teamRepo.ts`, `team.ts` |
| Vaults | `vaults` | createVault, importVault, lists | `handlers/vaults.ts`, `importVaultRepo.ts`, `listVaultsRepo.ts` |
| Authentication | `challenges`, `sessions` | challenge, verify, logout, session middleware, membership check | `auth/*`, `api/authHandlers.ts`, `api/sessionMiddleware.ts` |
| Gateway adapters | none | validate a rule, submit, check a status | `gateway/*` |
| Owner rules: manifests, parser | none; the rules are on the ledger | write a rule into a manifest, read one back | `gateway/manifests.ts`, `packages/shared/src/accessRuleParser.ts`, `cli/src/manifests.ts` |
| Subintents | header columns of `proposals` | build and hash on the server, rebuild in the client | `gateway/subintentBuilder.ts`, `client/src/atom/walletSignature.ts` |
| Radix ledger, Gateway | rules, transactions, time | external | - |
| Dashboard | none | list pending (and expire late ones) | `api/dashboardHandlers.ts` |
| Client session | wallet connection, cookie, what the page shows | send a proof, log out, refetch | `client/src/atom/wallet.ts`, `auth.ts`, `teams.ts`, `lib/disconnectOnUnauthorized.ts` |
| Client proposal pages | fetched detail, busy buttons, running actions | refresh, sign, submit, check status | `client/src/routes/teams/...`, `atom/proposals.ts`, `atom/teamProposals.ts` |
| Other client pages | form fields | lists, forms for teams, vaults, members, thresholds | `apps/client/src` |
| CLIs | configuration files | bootstrap a badge; generate a fee payer | `apps/cli`, `generate-fee-payer-cli` |

**How they interact.** Every write operation of the API goes through the session
middleware, then the membership check, then a handler. A handler is an Effect
generator. Each `yield*` to PostgreSQL or to the Gateway is one call, and other
requests run while it waits. No handler opens a database transaction, and no
UPDATE looks at the status it replaces, except the dashboard's sweep (and the
deletion of a challenge on use). What a handler read first it keeps using.

**What is hard here.** Overlapping requests on one proposal; a request cut short
between two calls (the process stops, the client disconnects, a database call
dies), for which there is no recovery code; the Gateway lagging behind the
ledger; owner rules that other transactions change while signatures are
collected; a deadline that passes in the middle of a request; in the browser, two
fibers and a cookie that only requests can change, and pages that refetch while an
action of theirs is under way.

**What makes each component correct.**

- *Vault proposals*: a status is only written when it is justified by recorded
  signatures, by the ledger or by the clock; nothing is sent to the ledger
  without a quorum; a stored intent hash names a transaction of this proposal.
  The glossary (`UBIQUITOUS_LANGUAGE.md:33-49,109-113`) also promises that
  terminal statuses are final, that a proposal with its threshold is ready, and
  (`progress.txt:75`) that submitting is idempotent.
- *Team proposals*: the same, with the badge rule and the rules of all vaults;
  the member table agrees with the badge rule once a proposal is settled.
- *Authentication*: a challenge is accepted once and before it expires; a session
  acts only until it expires or is destroyed, and only in teams of its account.
- *Provisioning*: a team or vault on record exists on the ledger; one account is
  at most one vault of a team.
- *Owner rules*: a rule asks for as many of the signers as the members chose, and
  what the code wrote it can read back, since the next rule is made from it.
- *Subintents*: client and server arrive at the same header, and its window of
  epochs outlasts the deadline.
- *Client session*: what the page shows, what the cookie names and whether the wallet is
  connected agree once everything under way has ended.
- *Proposal pages*: what a page shows is backed by signatures; an action that
  succeeded comes to be seen; a button does not send its request twice.

## 2. Plan

1. `Ledger`, `ProposalRepo`, `VaultProposals`, `ProposalStatus`: the vault
   proposals, their tables and what they need of the ledger. **Done.**
2. `VaultInvariant`, `VaultProofs`: the inductive invariant and the proofs.
   **Done.**
3. `TeamRepo`, `TeamProposals` (on `ProposalRepo` and `Ledger`): add and remove
   a member, change a threshold, the badge-or-vaults threshold, the member table,
   the membership check; `TeamInvariant`, `TeamProofs`. **Done.**
4. `Auth`, `AuthProofs`: challenges, sessions, logout. **Done.**
5. `Provisioning`, `ProvisioningProofs`: createTeam, createVault, importVault with the
   ledger step and the inserts that follow. **Done.**
6. `Subintents` and `AccessRules`, `AccessRulesProofs`: the header of a subintent on both
   sides, and owner rules written, read back and rewritten. **Done.**
7. `WalletSession`, `ProposalPage` and their proofs: the client's login state, and the
   page that chains a wallet's answer with calls to the API. **Done.**
8. The refinement of the glossary by requests that take turns, for vault and team
   proposals. **Done.**
9. Left: more action properties (what a step may never do to a row or a rule), and
   abstract specifications of login and provisioning for their modules to implement.

## 3. The modules

| Module | What it is |
|---|---|
| `Ledger` | the owner rules, transactions and time as the server can observe them; thresholds and satisfaction of rules |
| `ProposalRepo` | the two proposal tables; one operator per SQL statement |
| `VaultProposals` | the handlers: one action per call and the local code after it |
| `ProposalStatus` | the glossary's state machine of a proposal (abstract) |
| `VaultInvariant` | the inductive invariant `IInv` |
| `ProposalRepoProofs` | lemmas about the tables, the ledger's history and the glossary that vault and team proposals share |
| `VaultProofs` | the theorems about vault proposals and their proofs |
| `TeamRepo` | the table of team members and the further columns of a team proposal |
| `TeamProposals` | the membership check and the handlers of team proposals |
| `TeamInvariant`, `TeamProofs` | the inductive invariant of team proposals; the theorems and their proofs |
| `Auth` | login, session middleware and logout over the tables of challenges and sessions; its inductive invariant `AuthInv` |
| `AuthProofs` | the theorems about `Auth` and their proofs |
| `Provisioning` | creation and import of teams and vaults, with the fee payer's transactions |
| `ProvisioningProofs` | the theorems about `Provisioning` and their proofs |
| `WalletSession` | the client's login state: wallet, cookie, two fibers and two views |
| `WalletSessionProofs` | the theorems about `WalletSession` and their proofs |
| `Subintents` | pure: the header as create computes and stores it, and as the client rebuilds it |
| `ProposalPage` | one member's page of a proposal, over `Subintents` and a server that answers in one step |
| `ProposalPageProofs` | the theorems about headers and the page, and their proofs |
| `AccessRules` | owner rules through manifests, ledger and parser, for the server and the bootstrap tool |
| `AccessRulesProofs` | the theorems about owner rules and their proofs |
| `MCVaultProposals`, `MCTeamProposals`, `MCAuth`, `MCProvisioning`, `MCProposalPage`, `MCAccessRules` | rules, keys, founding teams, columns, texts and symmetries for TLC |

**State.** `row` and `signature` are the tables, a row being reduced to the
columns the handlers decide on: status, entity, deadline, intent hash. A row not
yet inserted has status `"absent"`, which no code reads. `rule`, `intent` and
`now` are the ledger's; `past` is a history variable with every rule an entity has
had. `req[r]` is a request in flight: `pc` names the next call (`sign.validate`,
`submit.setSubmitted`, ...), the other fields are the handler's local variables.

**Actions.** Each action is one call and what the generator does up to the next
one. `SignGetById` reads the row and checks the status, `SignIsExpired` compares
the clock, `SignValidate` reads the rule and looks for the key, and so on down the
handler. A request whose first read turns it away changes nothing and has no action.
Checks on the wallet's bytes (decoding, subintent hash) refuse a request before it
has written anything; such a request is one that stops at `SignValidate`, so
the model keeps only those that pass. `Abort` cuts a request short at any point: it
stands for a stopped process, an interrupted fiber, `Effect.orDie` on a database
or Gateway call, and an answer lost after the Gateway took the transaction.

**Abstractions.** A proposal has one subintent (its hash is stored at creation).
A signature is a pair of account and key; a key hash is the key. Rules are the
two forms the parser returns; an entity whose rule is of no supported form makes
`validate` die, which is `Abort`. Timestamps are integers, in seconds. Clients and
the team handlers write a deadline as an ISO time cut after the seconds
(`new.tsx:54`, `teamProposals.ts:278`); the sweep compares it as text with a full
ISO time, so that it is smaller already in its own second (`Sweeps`, `<=`), while
the handlers compare parsed times (`IsExpired`, `<`). The model assumes what makes
the two refer to one clock: a server running in UTC. A deadline that does not
parse never expires in the handlers and is outside the model. Reasons, log lines, names and lists are
left out.

**The ledger's part.** `Execute` allows at most one success per subintent, before
its deadline, and only with enough distinct keys of the rule in force. `Refuse`
may fail or reject any pending transaction at any time. `ChangeRule` changes any
rule at any time. The status checker's answer may lag (`View`). Time
moves freely up to `MaxTime`.

**Team proposals.** `Enter` and `CheckBadge` are the membership check, two calls
with the ledger and other requests in between; at `"gate"` the handler proper
begins, and `TurnAway` is every refusal or early answer that writes nothing. A
draft holds the rules its manifest will install (`Plan`), computed from the rule
read at creation. The reads of one `create` that precede the draft are one action where
only the badge's rule changes among what they read (the team's vaults are fixed); the second Gateway
read of `createRemoveMember`, which looks for the member's badge, is a step of its own (`CreateFindBadge`).
A slot keeps a local variable only as long as the handler still reads it.
`CreateInsertMember` comes before the preview, as in the code. `ReadRule` is one
of the concurrent reads of `getRequiredThreshold`: they complete in any order,
and the ledger may move between them. `refreshStatus` writes the status and then
the member table, in two calls. Badge NFTs are named by what minted them: a
founder's account, or the proposal. A commit installs all rules of the plan and
mints or burns one badge (`MovesBadges`); nothing in the resource's roles keeps
holders from moving badges, which `TransferBadge` allows in one run.

**Login and sessions.** `verify` is three calls: `Consume` (one UPDATE that tests and
marks the challenge), `Rola` (the signature, then `owner_keys` from the Gateway) and
`CreateSession`. Every other operation passes `Validate`, a SELECT that compares the
session's deadline, and then runs its handler (`Handle`), logout going on to delete
the row. Deadlines are written by the server's clock and compared by the
database's; `Skews` is the set of differences between them. A signature is a
pair of challenge and key. `KeysOf` is what ROLA accepts: the keys in `owner_keys`, or
while that is unset the key the address is derived from. Persona proofs are left out, and
a key hash found as part of `owner_keys` is that key. A cookie names a session
that was inserted at some time: other ids find no row. The membership check that follows the
middleware is in `TeamProposals`. A logout does not stop requests let in before it,
in the code as in the model.

**Teams and vaults.** `entity` is what the fee payer has asked the ledger to create and
what is there; a request allocates a new entity when it hands over the transaction,
waits for its commit (`Poll`), and then writes rows: team and member in two inserts,
a vault by a SELECT and an INSERT that the primary key may refuse. A poll that gives up
while the transaction is on its way, or a receipt that cannot be read, is `Abort`. The new entity is
taken to be the one found in the receipt (see the hazard at `vaults.ts:131`). `Draft`
and `Commit` stand for team proposals: signers are replaced in the badge and in the
vaults on record at the draft, which are those the client names (`add-member.tsx:123`,
`remove-member.tsx:144`), with a threshold of one. An imported account has one signer
set; whether the team can open it the code does not ask, nor does the model.

**The client's session.** `connected` is the toolkit's state; its changes reach two
streams, one for each of the fibers in `atom/wallet.ts`. The login fiber takes proofs and
calls verify, the sync fiber takes wallet data and calls logout when it saw the wallet
connected before. A request leaves with the cookie the browser then has; the server's
work (`VerifyServed`, `LogoutServed`, `FetchServed`) and the arrival of the answer, which
sets or clears the cookie, are steps of their own. `UserActs` is any button whose request
the middleware turns away; `ActionAnswered` is what `disconnectOnUnauthorized` then does.
The page cannot be right in every behaviour, so a history variable collects mishaps: a
page loaded with wallet and cookie at odds, a connect or disconnect that overlaps work of
the fibers, a lost request, an expired session. Every property names those that break it.
The server does what `Auth` says of it, in one step. Reconnecting fetches, tabs that share
the cookie and challenges that fail to load are left out.

**The page of a proposal.** Vault and team proposals have the same page. `fetch` and
`view` are the detail atom; `busy` is the `useState` flag of each card's button, and is
lost when a refresh unmounts the cards; `awaited` is a handler that waits, also for a card
that is gone; `job` is the run of an action atom, and `stray` a request whose run was
interrupted by a second press, or which the browser gave up, and which the server may yet
handle. `Resume` is the rest of a handler: a refresh after a success (`AfterSuccess`), only
the flag after a failure. The server takes one request at a time (what overlapping
ones do is in `VaultProposals`), except that `getDetail` reads the row and the signatures
in two steps. `loose` collects the cards that were remounted, or left without an answer,
in mid-action. The page begins with a logged-in session; `WalletSession` is about
how that comes and goes.

**Headers of subintents.** A hash stands for what is hashed. Manifest, network and
discriminator are copied by both sides; the bounds are computed by each from the columns,
which is what `StoredHeader` and `WalletHeader` are about: cutting milliseconds, parsing the
deadline in a server's or browser's time zone, and the client's added "Z"
(`walletSignature.ts:33-38`). `LatestEpoch` is the earliest the ledger can be in an epoch,
an epoch lasting at least 300 seconds.

**Owner rules.** A signer is named by a text: a resource and the local id of a key, perhaps in
upper case or without its brackets; the ledger spells it its own way (`Canonical`). `rule` is what the
Gateway shows of each entity. `MultisigRule` writes a rule, `Parse` reads one, and the
operations read the badge's or a vault's rule, change the list, and write the next; each is one
step with its transaction, because `TeamProposals` is about what happens in between. `asked` remembers
what the members wanted. Texts nobody should type, or accounts imported with them, are oddities,
collected in `odd` as mishaps are above: a key in another spelling, a signer that is
no key, a second badge for one account, a public key in a bootstrap.json. A behaviour is about
a team's badge or about the bootstrap tool's, which have nothing in common. The NFT's data has
the three fields the form reads; its name and image are left out.

## 4. What is checked

<!-- runs -->
| Run | Expect | Properties | Shows |
|---|---|---|---|
| `vault_concurrent` | pass | `QuorumWasReached`, `IntentsAreBacked`, `SettledByLedger`, `HashNamesOwnIntent`, `IInv` | Two requests overlap in every way on one proposal, any of them may be cut short between two calls, the vault's rule changes and time passes the deadline: no status is ever written that signatures on record, the ledger or the clock do not justify. |
| `vault_sequential` | pass | `OneTransaction`, `ImplementsGlossary`, `QuorumLeadsOn` | When requests on a proposal run one after the other to their end, the handlers implement the glossary's status machine, submit hands over one transaction only, and a quorum always takes the proposal out of signing. |
| `team_overlap` | pass | `IInv`, `SettledByLedger` | Two requests overlap in every way on one team proposal, submitted twice at most, while it changes the rules that are being read: every program point keeps what it knows, and the status agrees with the ledger. |
| `team_turns` | pass | `RequiredWasReached`, `ImplementsGlossary` | A vault starts with a higher threshold than the badge and two proposals change both, the ledger moving while rules are read one by one: a proposal must reach the largest threshold, and where requests take turns its status follows the glossary. |
| `team_members` | pass | `MembersWereVotedIn`, `MembersAreVotedOut`, `NobodyIsLockedOut` | Two membership proposals computed from rules the other may replace, requests cut short anywhere, badges moved between accounts: nobody is confirmed or taken off but by a verdict of the ledger, and the badge always has a rule its signers can satisfy. |
| `team_cleanup` | violation | `CleanupSparesMembers` | The sole founder proposes a second key for the own account, the ledger refuses the proposal, and refreshStatus cleans up the founder's confirmed row: a member leaves without any removal. |
| `auth_login` | pass | `AuthInv`, `OneSessionPerChallenge`, `SessionsAreProven`, `ActorsHaveLoggedIn`, `LogoutIsFinal` | Two requests overlap in every way on two challenges, two sessions and two accounts while owner keys change and time passes both deadlines: a challenge opens one session, for an account whose key signed it, and nobody acts on a session that ran out or was logged out. |
| `provision` | pass | `ProvInv`, `RecordsExist`, `VaultsAreOpenable`, `ReportedOnce`, `CreatedIsRecorded` | Two requests create a team, create and import vaults, while a team proposal replaces the signers and any request may be cut short: the tables name only what the ledger has, one request per vault reports success, and only a cut leaves an entity unrecorded. |
| `provision_missed_vault` | violation | `VaultsFollowBadge` | A vault is created while a team proposal that removes a signer is under way: the proposal's list of vaults was drawn up before the vault was on record, and the removed signer keeps the vault. |
| `wallet_session` | pass | `SessionInv`, `ShownIsTrue`, `LoginFollowsWallet`, `NoOrphans`, `DisconnectIsSeen` | A browser whose user connects and disconnects the wallet at any time, with one kind of mishap in each behaviour: once the two fibers are done, the page shows the session the server knows, there is one exactly if the wallet is connected, and none is left behind; each property names the mishaps that break it. |
| `proposal_page` | pass | `PageInv`, `ShownIsBacked`, `SignedIsStored`, `WindowOutlasts`, `OneRequestAtATime`, `OwnActionIsShown` | One member's page of a proposal while another member, the sweep, time and the ledger work on it, requests and answers being lost: what it shows was backed by signatures, what it has signed is what the server stored, and its own successes come to be seen. |
| `access_rules` | pass | `AccessInv`, `ShownAsAsked`, `ThresholdIsExact`, `MembersAreSigners` | A badge and vaults whose owner rules are read back and rewritten through up to ten operations, with one kind of oddity in each behaviour: the code can read every rule it wrote, and the ledger then asks for just as many of just those signers as the members wanted. |
<!-- end of runs -->

**Bounds.** One proposal and one vault suffice for the concurrency runs:
statements on different proposals touch different rows, and the only operation on several
at once (the sweep) treats each alone; the proofs cover any number. Two
requests in flight give every pairwise overlap of sign, submit, refreshStatus and
the sweep; two accounts and two keys give a threshold that needs both signers
and a rule that lost one; two intents give one double submission; a deadline of 1
with `MaxTime` 2 has a state before, at and after the deadline. A request can be
started again and again, so retries are included.

For team proposals: two proposals are the smallest number for one to be computed
from rules the other replaces, and for an account to be both added and removed;
two entities give a badge and a vault whose rules differ (`team_turns` starts with one
signer on the badge and two on the vault). `team_overlap` takes one proposal
and two requests, the others two proposals and one request, with ledger steps
between any two calls. `team_members` has no vault, because thresholds play no part in
it, and adds aborts and moving badges; where a property is not about the deadline
`MaxTime` is 0, and where only the sweep must expire a proposal it is 1. `team_cleanup` needs one
founder, one key more and one proposal. Symmetry is used in invariants
and action properties only, over sets whose members the instance does not tell apart.

For login: two accounts and two keys, each account with the derived key, with the other
key or with none set; two challenges and two sessions give two logins that mix in any order,
a reused challenge and a session that outlives another; deadlines one tick
ahead and `MaxTime` 1 reach both sides of every deadline. `Skews` is `{0}` in the run; the
proofs hold for any set of integers. For provisioning: one team that is there and one to
be created, one vault address that may exist before (then it is imported, twice, or into
both teams) or be created, thresholds one and two over one or two signers, one change of
signers, and two requests.

For the client's session: two sessions are one to lose and one to gain, two pending
events are a disconnect and a connect taken late, and one kind of mishap at a time shows
each property's exceptions to be all of them (a single run with two kinds,
1.3 million states, found nothing more). For the proposal page: two members and a
threshold of two, so that another's signature may be the one that makes it ready; two
proposals, one with a deadline in UTC and one without zone, with a server in UTC
(elsewhere a deadline without zone means two times) and a browser that is not; a second is 10 ticks, an epoch two seconds and the shortest
window four epochs, so that one of the two takes it and the other needs more. For owner rules: three keys
in two kinds and three spellings, three accounts, up to three signers, a vault to be created and two to be imported,
one of which has a rule the parser refuses, and one kind of oddity in a behaviour (a single run
with two kinds and 142,781 states found nothing more).

**Fairness.** Four runs assume some. `vault_sequential`
and `provision` assume weak fairness of each request's next step, i.e. the runtime
resumes every fiber whose call has returned (in `provision` a poll whose transaction has
been settled). `wallet_session` and `proposal_page` assume that the browser's runtime
schedules its fibers and handlers and that a request is answered or fails, which every
HTTP client ensures; a wallet need not answer. Nothing is assumed of the
ledger, of time, of members and users, or of requests being made.
Deadlock is checked in the passing runs of the vault model, in `auth_login`, `provision` and `team_overlap` (the
server is never stuck: after all requests end, new ones can begin, or the dashboard
sweeps, or owner keys change). It is off in the other passing team runs, because there the system really may stop: the
sole founder proposes a second key for the same account, the proposal fails, the cleanup
deletes the founder's row (`teamProposals.ts:815`), and nobody is left who may write.
It is off for the client and the rules as well: a page whose proposal is settled, a browser
out of sessions and a badge with as many signers as the bound allows have nothing left to do.
The runs that look for a counterexample turn it off.

**Divergences.** Two runs state what the repository's documents and comments say and find it
violated by the code; each is a finding in `PROJECT.json` with the lines. A vault created
while a team proposal is under way keeps the old signers (`provision_missed_vault`). The cleanup
of a failed add-member proposal, said to remove an unconfirmed member, deletes the account's row
whatever it says (`team_cleanup`): a founder for whom a second key was proposed is a member
no more. `MembersAreVotedOut` is what is left of that promise: it excludes accounts
that are members for another reason than the proposal about them (`AddedOnce`).

More appear in the models, without a run kept for each. In the handlers:

- overlapping signers lose the ready status, against `UBIQUITOUS_LANGUAGE.md:112`
  (`proposals.ts:324`), and late writers overwrite terminal statuses, against `:48`
  (`proposals.ts:323`);
- a submit cut short and retried reports an executed proposal as failed, against
  `UBIQUITOUS_LANGUAGE.md:42` (`proposals.ts:409`), and two overlapping submits hand over
  two transactions, against `progress.txt:75` (`proposals.ts:355`);
- submit does not notice that a signer was replaced, against `README.md:22`
  (`proposals.ts:379`);
- a team proposal computed from an older rule takes off a signer added since
  (`teamProposals.ts:251`), and a late refresh confirms the row of another proposal,
  against `UBIQUITOUS_LANGUAGE.md:143` (`teamProposals.ts:780`), harmless for
  writing because the badge is checked as well;
- a pending member is forgotten when `refreshStatus` is cut short, against
  `UBIQUITOUS_LANGUAGE.md:9` (`teamProposals.ts:773`);
- a second key for a member mints a second badge, against `UBIQUITOUS_LANGUAGE.md:105`
  (`teamProposals.ts:240`).

About rules and headers: a signer that bootstrap.json names by public key gets the last 26
bytes of its hash as local id (`cli/src/manifests.ts:42`) where the glossary
(`UBIQUITOUS_LANGUAGE.md:58`), the ledger and the server (`subintentBuilder.ts:188`, `rola.ts:80`)
take 29, so that this member can never sign; a key in another spelling is listed twice and counts twice; a
signer that is no key is rewritten as a secp256k1 key when its rule is next changed
(`manifests.ts:39`); of an account's two badges the first is recalled, whichever signer
was chosen (`teamProposals.ts:429`); a deadline written with an offset such as "+02:00"
gets a "Z" after it and does not parse in the client (`walletSignature.ts:33`). The
server's own copy of the 26-byte derivation (`manifests.ts:232-236`) is unused.

None of these divergences lets the ledger execute anything its rules refuse, which
`Execute` states and the ledger enforces.

**Variants.** Definitions marked VARIANT are faulty forms of the one after them.
No specification uses them: `PROJECT.json` pairs each property of a passing run
with the variant that breaks it.

## 5. What is proved

Every safety property of the passing runs is a theorem of TLAPS, for all values of the
constants that satisfy the assumptions below: any sets of proposals, entities, requests,
accounts, intents, sessions and rules, with and without `Faults`.

| Module | Theorem | Says |
|---|---|---|
| `VaultProofs` | `Invariance` | `Spec => []IInv` |
| | `TypeCorrect` | `Spec => []TypeOK` |
| | `QuorumSafety` | `Spec => []QuorumWasReached` |
| | `IntentsSafety` | `Spec => []IntentsAreBacked` |
| | `SettlementSafety` | `Spec => []SettledByLedger` |
| | `HashSafety` | `Spec => []HashNamesOwnIntent` |
| | `EndingSafety` | `Spec => [](ExpiredMeansLate /\ InvalidMeansDrift)` |
| | `GlossarySafety` | `OneByOne => (Spec => ImplementsGlossary)`, a refinement |
| | `OneTransactionSafety` | `OneByOne => (Spec => []OneTransaction)` |
| `TeamProofs` | `TeamInvariance` | `Spec => []IInv` |
| | `RequiredSafety` | `Spec => []RequiredWasReached` |
| | `TeamSettlementSafety` | `Spec => []SettledByLedger` |
| | `TeamRowSafety` | `Spec => [](HashNamesOwnIntent /\ ExpiredMeansLate)` |
| | `MembershipSafety` | `Spec => []MembersWereVotedIn` |
| | `RemovalSafety` | `Alone => (Spec => MembersAreVotedOut)` (an action property) |
| | `DepartureSafety` | `Spec => [][...]_vars`: a member leaves by a removal that executed or an addition that was refused |
| | `OpenSafety` | `Spec => []NobodyIsLockedOut` |
| | `TeamGlossarySafety` | `OneByOne => (Spec => ImplementsGlossary)`, a refinement |
| `AuthProofs` | `AuthInvariance` | `Spec => []AuthInv` |
| | `OneLoginPerChallenge` | `Spec => []OneSessionPerChallenge` |
| | `LoginSafety` | `Spec => []SessionsAreProven` |
| | `AdmissionSafety` | `Spec => []ActorsHaveLoggedIn` |
| | `LogoutSafety` | `Spec => LogoutIsFinal` (an action property) |
| `ProvisioningProofs` | `ProvInvariance` | `Spec => []ProvInv` |
| | `RecordsSafety` | `Spec => []RecordsExist` |
| | `OpenableSafety` | `Spec => []VaultsAreOpenable` |
| | `ReportSafety` | `Spec => []ReportedOnce` |
| `WalletSessionProofs` | `SessionInvariance` | `Spec => []SessionInv` |
| | `ShownTruth` | `Spec => []ShownIsTrue` |
| | `LoginSafety` | `Spec => []LoginFollowsWallet` |
| | `OrphanSafety` | `Spec => []NoOrphans` |
| `ProposalPageProofs` | `PageInvariance` | `Spec => []PageInv` |
| | `ShownSafety` | `Spec => []ShownIsBacked` |
| | `OneRequestSafety` | `Spec => []OneRequestAtATime` |
| | `WindowSafety` | `Spec => []WindowOutlasts` |
| | `SignedSafety` | `Spec => []SignedIsStored` |
| `AccessRulesProofs` | `AccessInvariance` | `Spec => []AccessInv` |
| | `ShownSafety` | `Spec => []ShownAsAsked` |
| | `ThresholdSafety` | `Spec => []ThresholdIsExact` |
| | `MembersSafety` | `Spec => []MembersAreSigners` |

**Assumptions.** The named ASSUMEs, which TLC evaluates in every run. Most fix the kind of
the constants: rules are well formed, the set of keys is finite, times are numbers,
thresholds are positive, `Null` is none of the other values, `Faults` is a Boolean. Four say
something of the code or the ledger. `RulesClosedAssumption`: the set `Rules` has every rule
a manifest may set. `RowsAssumption`: the columns of a proposal are those
`create` computes. `OwnRulesAssumption`: a vault's rule before its import names keys
the ledger knows. `FoundedAssumption`: the teams there at the start have different badges.

Seven theorems have a hypothesis of their own. The glossary theorems and
`OneTransactionSafety` take `OneByOne`: no request is cut short, and one at most is in
flight. Without it the properties are false, as the divergences above show. `RemovalSafety` takes `Alone`:
one request at most is in flight, cut short or not. When submits of one addition overlap, two transactions
are handed over, and the refusal of the second cleans up the member whom the first brought in. `OpenSafety` assumes
that the founding rules can be satisfied by their signers: for vaults the server had created
that is `OpenableSafety`, for imported accounts the code does not see to it. `SignedSafety` assumes a
server in UTC, or that every deadline names its zone: otherwise the header the wallet signs
is not the stored one. `ThresholdSafety` assumes that no account to be imported has a rule that
names a signer twice: such a rule counts entries, not signers. The accounts of the run
have none.

**Vault proposals.** None of the safety properties is inductive: a handler that writes
`committed` does so because of what it read several calls ago. `IInv` says
what each program point knows, and rests on one observation: every fact that
justifies a status (a recorded quorum, a verdict of the ledger, a hash on record, a
passed deadline, a risen threshold) is stable. Records only grow (`GrowsStep`), so what
justified a write when it was decided still does when it lands
(`JustifiedGrows`), however late that is and whatever it overwrites. From
there: `TypeStep`, one lemma per part of `IInv` (`LedgerInvStep`, `RowInvStep`,
`IntentsAreBackedStep`, `RequestInvStep`), each by the actions of `Next`, and
`InitInv`. TLC checks `IInv` itself in `vault_concurrent`.

**Team proposals.** The same argument, with two things more. Rules are read one by one while
commits replace them, so `ReadInv` says of the largest threshold read so far that it covers
what every entity already read had asked for under some rule of its past; `past` only grows, so
the answer survives whatever commits before the last read. Membership is tied to the ledger's verdicts by
`RefreshInv`: a handler about to confirm or remove a member has written a verdict that the ledger gave
on that proposal's own intent; `DepartureSafety` is all that holds for any requests.
With one request at a time `RemovalSafety` adds the other half: a confirmed member whom one
proposal added has a row that says `committed` (`StandingInv`), which no handler overwrites (`CommittedStays`, by what `TurnInv`
knows of the row), so no cleanup is about to run for it. `OpenSafety` is inductive together with `IInv` because a
draft holds rules its own signers can satisfy (`DetailInv`), however old they are when they
are installed. TLC checks this `IInv` in `team_overlap`.

**The refinement of the glossary.** `status` is mapped to the column, `handed` and `outcome` to
what the ledger knows of the proposal's intents. A step is a stutter (`NothingSeen`, `LedgerSeen`), one edge of the
status machine (`Edge`, `EdgeStep`), a hand-over or a verdict (`HandOverStep`, `VerdictStep`),
or a sweep that takes many rows along the edge to `expired` (`SweepStep`). What has to
be shown is that a handler's write leaves from the status it once read. That is `TurnsInv`: with
requests taking turns, the status read is that of the row until the write (`TurnInv`), and
a proposal with a transaction under way is not `ready`, except between the hand-over and the
record of it (`HandedInv`). So `submit` never hands over twice, and with one intent at most
(`HandedOnce`) the ledger's verdict is the only one (`OneVerdict`). TLC found `TurnsInv` to hold on
the instances of `vault_sequential` and `team_turns`, whose runs check what follows from it, and
`MembersInv`, which `RemovalSafety` rests on, on that of `team_members`.

**Login.** A session is opened two calls after the challenge was consumed, so the
invariant has to follow the right to it: `SpentInv` says that a used challenge is held by one request
in flight or by one session and never by both, which only the atomic UPDATE
gives; `VerifyInv` carries what ROLA established to the INSERT; `SessionInv` ties
rows to the history of openings and keeps deleted rows deleted. The relations of
history (`signed`, `held`, `opened`) only grow, so what justified a session stays true.

**Teams and vaults.** A row is written several calls after its entity was asked for, while other
requests create, import and replace signers. `TeamInv` and `VaultInv` carry what a request knows
at each call: for whom its entity was asked for, that it is there once the poll has ended, and that the
signers it validated were once the badge's. `EntityInv` says that a team has one badge, `ChangeInv` that a
draft names vaults on record and leaves a signer, and `OpenableInv` is `VaultsAreOpenable` for
vaults still on their way too. `ReportedOnce` needs the primary key: of two requests that pass the
SELECT, the INSERT refuses the second.

**The client's session.** The properties speak of the time when nothing is under way, the invariant of
what is under way and may still put things right. `ViewInv`: a fetch carries the cookie there is, and what it
brings back is true or a logout's answer has yet to be handled. `CallInv`: who calls what, and that the cookie a
call brings is that of a session. `ConnectedInv`: a login belongs to a connected wallet, and one that is
connected and not about to log in has a session. `StoredInv`: a session on the server is named by
the cookie, or its name is on the way, and with the wallet disconnected its logout is. Each is conditional
on the mishaps its property excepts; with nothing under way the properties are what remains.

**The page and headers.** `FetchInv` relates a half-read detail to the server: signatures are read
after the status and only grow, so they back it. `CardInv` says that a button that can be pressed while its action
runs was remounted or left unanswered. `WindowSafety` and `SignedSafety` are about every deadline,
creation time and zone, by arithmetic on the truncations (`HeadersAgree`).

**Owner rules.** `WrittenInv` says of a rule written by the code what makes it readable by
`Parse`, and `ReadInv` what the texts of a list stand for; between them a rule read, changed and
written is again such a rule. `OnceInv` keeps a signer from being listed twice, and `BadgesInv` keeps NFTs and
entries one to one. Counting entries is then counting signers, by the library's theorems about bijections.

**Only model-checked.** The liveness properties `QuorumLeadsOn`, `CreatedIsRecorded`,
`DisconnectIsSeen` and `OwnActionIsShown` (liveness under fairness is beyond the prover), and the
two runs that look for a counterexample. No module declares a RECURSIVE operator, and no claim is made
about what a recursive definition computes, since induction over data is beyond the installed provers.

## 6. What is not modelled, and why

Left out for good: the cryptography of wallets and ROLA, the bytes of transactions and
subintents, the wording of manifests, presentation in the client, the prompts and the faucet of the
bootstrap tool, the fee payer generator, wiring and migrations. Not modelled yet: the client's
list pages and forms, beyond what they decide about vaults and thresholds. The order of
entities in a receipt (`vaults.ts:131`) is the Gateway's and is assumed. One document's promise has no run:
`progress.txt:74` says submit previews the manifest again; the code does not,
and the model has no previews.
