---------------------------- MODULE Provisioning ----------------------------
(***************************************************************************)
(* How teams and vaults come to be (handlers/teams.ts, handlers/vaults.ts, *)
(* handlers/importVaultRepo.ts).  createTeam and createVault have the fee  *)
(* payer create an entity on the ledger, wait until it is there, and only  *)
(* then write it down, in one or two inserts; importVault writes down an   *)
(* account that exists.  Nothing ties the ledger to the tables: a request  *)
(* cut short leaves an entity of which no table knows.                     *)
(*                                                                         *)
(* Team proposals, which replace the signers of a badge and of the vaults  *)
(* the drafting member's page has listed, appear only as ListVaults, Draft *)
(* and Commit.                                                             *)
(***************************************************************************)
EXTENDS Integers, FiniteSets

CONSTANTS
  Teams,      \* team ids
  Accounts,   \* members' accounts
  Keys,       \* signers of a rule
  Badges,     \* badge resources the ledger may allocate
  Vaults,     \* accounts the ledger may allocate, or has had before
  Founded,    \* [a set of teams -> Badges], the teams there are from the start
  Foreign,    \* vaults that may be there from the start
  Thresholds, \* thresholds a request may ask for
  Requests,   \* slots for requests in flight (bounds the concurrency)
  Changes,    \* team proposals that replace signers (bounds their number)
  Faults,     \* whether a request may be cut short between two calls
  Null        \* the absent value of a column or local variable

Entities == Badges \cup Vaults

ASSUME EntitiesAssumption == Badges \cap Vaults = {} /\ Foreign \subseteq Vaults
ASSUME FoundedAssumption ==
  /\ DOMAIN Founded \subseteq Teams /\ Founded \in [DOMAIN Founded -> Badges]
  /\ \A t, u \in DOMAIN Founded : Founded[t] = Founded[u] => t = u
ASSUME KeysAssumption == IsFiniteSet(Keys) /\ Keys # {}
ASSUME ThresholdsAssumption == Thresholds \subseteq Nat \ {0}
ASSUME FaultsAssumption == Faults \in BOOLEAN
ASSUME NullAssumption ==
  Null \notin Teams \cup Accounts \cup Keys \cup Entities \cup Thresholds

VARIABLES
  team,     \* [Teams -> Badges \cup {Null}], table teams: the badge
  member,   \* <<t, a>>: table team_members, confirmed
  vault,    \* <<t, v>>: table vaults
  entity,   \* [Entities -> EntityType], what the ledger has or was asked to create
  change,   \* [Changes -> ChangeType], members' pages and what they draft
  req,      \* [Requests -> RequestType], the requests in flight
  past,     \* history: [Entities -> SUBSET (SUBSET Keys)], signer sets it has had
  lost,     \* history: entities whose creating request was cut short
  answers   \* history: [Teams \X Vaults -> Nat], how often success was reported

tables == <<team, member, vault>>
vars == <<tables, entity, change, req, past, lost, answers>>

EntityType ==
  [state : {"free", "pending", "refused", "exists"},
   signers : SUBSET Keys, threshold : Nat, team : Teams \cup {Null}]

Free == [state |-> "free", signers |-> {}, threshold |-> 0, team |-> Null]

ChangeType == [state : {"none", "listed", "drafted", "committed"}, team : Teams \cup {Null},
               signers : SUBSET Keys, vaults : SUBSET Vaults]

TeamPcs == {"team.poll", "team.insert", "team.addMember"}
VaultPcs == {"vault.validate", "vault.submit", "vault.poll"}
InsertPcs == {"insert.select", "insert.insert"}

RequestType ==
  [pc : {"idle", "import.validate"} \cup TeamPcs \cup VaultPcs \cup InsertPcs,
   team : Teams \cup {Null},
   account : Accounts \cup {Null},    \* createTeam: the creator
   entity : Entities \cup {Null},     \* the badge or vault created or imported
   signers : SUBSET Keys,             \* createVault: of the rule validate returned
   threshold : Nat]                   \* createVault: as asked for

Idle == [pc |-> "idle", team |-> Null, account |-> Null, entity |-> Null,
         signers |-> {}, threshold |-> 0]

TypeOK ==
  /\ team \in [Teams -> Badges \cup {Null}]
  /\ member \subseteq Teams \X Accounts
  /\ vault \subseteq Teams \X Vaults
  /\ entity \in [Entities -> EntityType]
  /\ change \in [Changes -> ChangeType]
  /\ req \in [Requests -> RequestType]
  /\ past \in [Entities -> SUBSET (SUBSET Keys)]
  /\ lost \subseteq Entities
  /\ answers \in [Teams \X Vaults -> Nat]

\* Entities there from the start: all keys may sign, one is enough.
Settled(t) == [state |-> "exists", signers |-> Keys, threshold |-> 1, team |-> t]

Init ==
  /\ team = [t \in Teams |-> IF t \in DOMAIN Founded THEN Founded[t] ELSE Null]
  /\ member = (DOMAIN Founded) \X Accounts
  /\ vault = {}
  /\ \E there \in SUBSET Foreign : entity = [e \in Entities |->
       IF e \in there THEN Settled(Null)
       ELSE IF \E t \in DOMAIN Founded : Founded[t] = e
         THEN Settled(CHOOSE t \in DOMAIN Founded : Founded[t] = e)
         ELSE Free]
  /\ change = [c \in Changes |->
       [state |-> "none", team |-> Null, signers |-> {}, vaults |-> {}]]
  /\ req = [r \in Requests |-> Idle]
  /\ past = [e \in Entities |-> IF entity[e] = Free THEN {} ELSE {Keys}]
  /\ lost = {}
  /\ answers = [x \in Teams \X Vaults |-> 0]

-----------------------------------------------------------------------------
(* Slots, and the fee payer's transactions. *)

At(r, pc) == req[r].pc = pc

Begin(r, local) == req' = [req EXCEPT ![r] = local]

Goto(r, pc) == req' = [req EXCEPT ![r].pc = pc]

Finish(r) == req' = [req EXCEPT ![r] = Idle]

\* The transaction that will create e under a rule is handed to the Gateway.
Submit(e, signers, threshold, t) ==
  /\ entity[e].state = "free"
  /\ entity' = [entity EXCEPT ![e] = [state |-> "pending", signers |-> signers,
                                      threshold |-> threshold, team |-> t]]

\* VARIANT: a transaction that was handed over counts as committed.
CreatedOrPending(e) == entity[e].state \in {"pending", "exists"}

Created(e) == entity[e].state = "exists"

\* The rest of submitFeePayerOnly: wait for the commit and read the new
\* entity's address from its receipt.
Poll(r, before, after) ==
  /\ At(r, before)
  /\ \/ Created(req[r].entity) /\ Goto(r, after)
     \/ entity[req[r].entity].state = "refused" /\ Finish(r)
  /\ UNCHANGED <<tables, entity, change, past, lost, answers>>

-----------------------------------------------------------------------------
(* createTeam: the team's id is a fresh uuid, also written into the badge. *)

CreateTeam(r, t, a, k, b) ==
  /\ At(r, "idle")
  /\ \A e \in Entities : entity[e].team # t
  /\ Submit(b, {k}, 1, t)
  /\ Begin(r, [Idle EXCEPT !.pc = "team.poll", !.team = t, !.account = a, !.entity = b])
  /\ UNCHANGED <<tables, change, past, lost, answers>>

TeamPoll(r) == Poll(r, "team.poll", "team.insert")

TeamInsert(r) ==
  /\ At(r, "team.insert")
  /\ team' = [team EXCEPT ![req[r].team] = req[r].entity]
  /\ Goto(r, "team.addMember")
  /\ UNCHANGED <<member, vault, entity, change, past, lost, answers>>

\* VARIANT: the arguments, both strings, are swapped.
AddMemberSwapped(t, a) == member' = member \cup {<<a, t>>}

AddMember(t, a) == member' = member \cup {<<t, a>>}

TeamAddMember(r) ==
  /\ At(r, "team.addMember")
  /\ AddMember(req[r].team, req[r].account)
  /\ Finish(r)
  /\ UNCHANGED <<team, vault, entity, change, past, lost, answers>>

-----------------------------------------------------------------------------
(* createVault *)

VaultGetById(r, t, threshold) ==
  /\ At(r, "idle")
  /\ \E a \in Accounts : <<t, a>> \in member
  /\ Begin(r, [Idle EXCEPT !.pc = "vault.validate", !.team = t, !.threshold = threshold])
  /\ UNCHANGED <<tables, entity, change, past, lost, answers>>

\* VARIANT: one more than the number of signers is let through.
FitsBadly(threshold, signers) == threshold <= Cardinality(signers) + 1

Fits(threshold, signers) == threshold <= Cardinality(signers)

VaultValidate(r) ==
  /\ At(r, "vault.validate")
  /\ LET signers == entity[team[req[r].team]].signers IN
       IF Fits(req[r].threshold, signers)
         THEN req' = [req EXCEPT ![r].pc = "vault.submit", ![r].signers = signers]
         ELSE Finish(r)
  /\ UNCHANGED <<tables, entity, change, past, lost, answers>>

VaultSubmit(r, v) ==
  /\ At(r, "vault.submit")
  /\ Submit(v, req[r].signers, req[r].threshold, req[r].team)
  /\ req' = [req EXCEPT ![r].pc = "vault.poll", ![r].entity = v]
  /\ UNCHANGED <<tables, change, past, lost, answers>>

VaultPoll(r) == Poll(r, "vault.poll", "insert.select")

-----------------------------------------------------------------------------
(* importVault, and the insert it shares with createVault. *)

ImportBegin(r, t, v) ==
  /\ At(r, "idle")
  /\ \E a \in Accounts : <<t, a>> \in member
  /\ Begin(r, [Idle EXCEPT !.pc = "import.validate", !.team = t, !.entity = v])
  /\ UNCHANGED <<tables, entity, change, past, lost, answers>>

\* An account that is not there, or whose rule has another form, is refused.
ImportValidate(r) ==
  /\ At(r, "import.validate")
  /\ IF entity[req[r].entity].state = "exists" THEN Goto(r, "insert.select") ELSE Finish(r)
  /\ UNCHANGED <<tables, entity, change, past, lost, answers>>

\* VARIANT: the row of any team counts.
ExistingAnywhere(t, v) == \E u \in Teams : <<u, v>> \in vault

Existing(t, v) == <<t, v>> \in vault

InsertSelect(r) ==
  /\ At(r, "insert.select")
  /\ IF Existing(req[r].team, req[r].entity) THEN Finish(r) ELSE Goto(r, "insert.insert")
  /\ UNCHANGED <<tables, entity, change, past, lost, answers>>

\* VARIANT: the table has no primary key.
InsertableAlways(t, v) == TRUE

\* The primary key of table vaults.
Insertable(t, v) == <<t, v>> \notin vault

InsertInsert(r) ==
  /\ At(r, "insert.insert")
  /\ LET x == <<req[r].team, req[r].entity>> IN
       IF Insertable(x[1], x[2])
         THEN vault' = vault \cup {x} /\ answers' = [answers EXCEPT ![x] = @ + 1]
         ELSE UNCHANGED <<vault, answers>>
  /\ Finish(r)
  /\ UNCHANGED <<team, member, entity, change, past, lost>>

-----------------------------------------------------------------------------
(* The ledger, team proposals, and requests that are cut short. *)

Settle(e) ==
  /\ entity[e].state = "pending"
  /\ \/ /\ entity' = [entity EXCEPT ![e].state = "exists"]
        /\ past' = [past EXCEPT ![e] = @ \cup {entity[e].signers}]
     \/ entity' = [entity EXCEPT ![e].state = "refused"] /\ UNCHANGED past
  /\ UNCHANGED <<tables, change, req, lost, answers>>

\* A member's page fetches the team's vaults: when it is loaded, after it has
\* itself created or imported one, and when asked to.
ListVaults(c, t) ==
  /\ \/ change[c].state = "none"
     \/ change[c].state = "listed" /\ change[c].team = t
  /\ \E a \in Accounts : <<t, a>> \in member
  /\ change' = [change EXCEPT ![c] =
       [state |-> "listed", team |-> t, signers |-> {},
        vaults |-> {v \in Vaults : <<t, v>> \in vault}]]
  /\ UNCHANGED <<tables, entity, req, past, lost, answers>>

\* The form names every vault its page has listed; one signer joins or leaves.
\* The server refuses a vault that is not on record, not one that is missing.
Draft(c, k) ==
  /\ change[c].state = "listed"
  /\ LET old == entity[team[change[c].team]].signers
         new == IF k \in old THEN old \ {k} ELSE old \cup {k}
     IN /\ new # {}
        /\ change' = [change EXCEPT ![c].state = "drafted", ![c].signers = new]
  /\ UNCHANGED <<tables, entity, req, past, lost, answers>>

\* One commit sets all rules of the draft, to thresholds that fit.
Commit(c) ==
  /\ change[c].state = "drafted"
  /\ LET set == {team[change[c].team]} \cup change[c].vaults IN
       /\ entity' = [e \in Entities |->
            IF e \in set THEN [entity[e] EXCEPT !.signers = change[c].signers, !.threshold = 1]
            ELSE entity[e]]
       /\ past' = [e \in Entities |->
            IF e \in set THEN past[e] \cup {change[c].signers} ELSE past[e]]
  /\ change' = [change EXCEPT ![c].state = "committed"]
  /\ UNCHANGED <<tables, req, lost, answers>>

\* Whether the entity of a request is one it had created.
Creating(r) == req[r].pc \in TeamPcs \/ (req[r].signers # {} /\ req[r].entity # Null)

Abort(r) ==
  /\ Faults
  /\ ~ At(r, "idle")
  /\ lost' = IF Creating(r) THEN lost \cup {req[r].entity} ELSE lost
  /\ Finish(r)
  /\ UNCHANGED <<tables, entity, change, past, answers>>

Continue(r) ==
  \/ TeamPoll(r) \/ TeamInsert(r) \/ TeamAddMember(r)
  \/ VaultValidate(r) \/ VaultPoll(r)
  \/ \E v \in Vaults : VaultSubmit(r, v)
  \/ ImportValidate(r) \/ InsertSelect(r) \/ InsertInsert(r)

Arrive(r) ==
  \/ \E t \in Teams, a \in Accounts, k \in Keys, b \in Badges : CreateTeam(r, t, a, k, b)
  \/ \E t \in Teams, threshold \in Thresholds : VaultGetById(r, t, threshold)
  \/ \E t \in Teams, v \in Vaults : ImportBegin(r, t, v)

Next ==
  \/ \E r \in Requests : Arrive(r) \/ Continue(r) \/ Abort(r)
  \/ \E e \in Entities : Settle(e)
  \/ \E c \in Changes : \/ \E t \in Teams : ListVaults(c, t)
                       \/ \E k \in Keys : Draft(c, k)
                       \/ Commit(c)

Spec == Init /\ [][Next]_vars

FairSpec == Spec /\ \A r \in Requests : WF_vars(Continue(r))

-----------------------------------------------------------------------------
(* Properties. *)

\* What the tables name is on the ledger: a team's badge, minted for that very
\* team, and every vault; members and vaults belong to teams on record.
RecordsExist ==
  /\ \A t \in Teams : team[t] # Null =>
       entity[team[t]].state = "exists" /\ entity[team[t]].team = t
  /\ \A x \in member : team[x[1]] # Null
  /\ \A x \in vault : team[x[1]] # Null /\ entity[x[2]].state = "exists"

\* A vault the server had created can be opened: its threshold is within reach of
\* its signers, who together were the signers of its team, or of another that
\* imported it, at one time; although createVault reads the rule several calls
\* before the transaction that installs it.
VaultsAreOpenable ==
  \A v \in Vaults : entity[v].state = "exists" /\ entity[v].team # Null =>
    /\ entity[v].threshold \in 1..Cardinality(entity[v].signers)
    /\ \E t \in Teams : /\ t = entity[v].team \/ <<t, v>> \in vault
                       /\ entity[v].signers \in past[team[t]]

\* Of all requests that create or import a vault into a team, however they
\* overlap between looking for the row and inserting it, one reports success,
\* and only once the row is there.
ReportedOnce ==
  \A x \in Teams \X Vaults : answers[x] = IF x \in vault THEN 1 ELSE 0

\* What the fee payer has created gets recorded with its team, and a team with
\* its first member, unless the request that created it was cut short: imports
\* that come in between do no harm.
Recorded(e) ==
  \E t \in Teams :
    /\ entity[e].team = t
    /\ <<t, e>> \in vault \/ (team[t] = e /\ \E a \in Accounts : <<t, a>> \in member)

CreatedIsRecorded ==
  \A e \in Entities : (entity[e].state = "exists" /\ entity[e].team # Null)
                        ~> (Recorded(e) \/ e \in lost)

\* Team proposals update the access rules on the badge resource and all vaults
\* (UBIQUITOUS_LANGUAGE.md:28): no vault created for a team has a signer whom its
\* badge no longer has.  The code misses vaults that are being created, or that
\* the page of the drafting member has not listed.
VaultsFollowBadge ==
  \A x \in vault : entity[x[2]].team = x[1] =>
    entity[x[2]].signers \subseteq entity[team[x[1]]].signers

-----------------------------------------------------------------------------
(* The inductive invariant: what each program point and each row knows. *)

\* A request on behalf of a team on record.
Serving(r) == req[r].team \in Teams /\ team[req[r].team] # Null

ThereIs(e) == entity[e].state = "exists"

\* createTeam: the badge was minted for the team the request will write down.
TeamInv(r) ==
  req[r].pc \in TeamPcs =>
    /\ req[r].team \in Teams /\ req[r].account \in Accounts /\ req[r].entity \in Badges
    /\ entity[req[r].entity].state # "free"
    /\ entity[req[r].entity].team = req[r].team
    /\ ~ At(r, "team.poll") => ThereIs(req[r].entity)
    /\ At(r, "team.addMember") => Serving(r)

\* createVault and importVault: what was validated were signers of the badge.
VaultInv(r) ==
  req[r].pc \in {"import.validate"} \cup VaultPcs \cup InsertPcs =>
    /\ Serving(r)
    /\ req[r].pc \in {"import.validate", "vault.poll"} \cup InsertPcs => req[r].entity \in Vaults
    /\ req[r].pc \in InsertPcs => ThereIs(req[r].entity)
    /\ At(r, "vault.poll") => entity[req[r].entity].state # "free"
    /\ At(r, "vault.validate") => req[r].threshold \in Thresholds
    /\ At(r, "vault.submit") =>
         /\ req[r].threshold \in 1..Cardinality(req[r].signers)
         /\ req[r].signers \in past[team[req[r].team]]

\* A draft is about a team on record and names vaults on record.
ChangeInv(c) ==
  change[c].state # "none" =>
    /\ change[c].team \in Teams /\ team[change[c].team] # Null
    /\ \A v \in change[c].vaults : <<change[c].team, v>> \in vault
    /\ change[c].state = "drafted" => change[c].signers # {}

\* A team has one badge, asked for or there; what is free belongs to nobody.
EntityInv ==
  /\ \A e \in Entities : entity[e].state = "free" => entity[e].team = Null
  /\ \A e \in Entities : ThereIs(e) => entity[e].signers \in past[e]
  /\ \A b, c \in Badges : entity[b].team # Null /\ entity[b].team = entity[c].team => b = c

\* VaultsAreOpenable, also of a vault whose transaction is still on its way.
OpenableInv ==
  \A v \in Vaults : entity[v].state \in {"pending", "exists"} /\ entity[v].team # Null =>
    /\ entity[v].threshold \in 1..Cardinality(entity[v].signers)
    /\ entity[v].team \in Teams /\ team[entity[v].team] # Null
    /\ \E t \in Teams : /\ t = entity[v].team \/ <<t, v>> \in vault
                       /\ entity[v].signers \in past[team[t]]

ProvInv ==
  /\ TypeOK
  /\ \A r \in Requests : TeamInv(r) /\ VaultInv(r)
  /\ \A c \in Changes : ChangeInv(c)
  /\ EntityInv
  /\ OpenableInv
  /\ RecordsExist
  /\ ReportedOnce
=============================================================================
