------------------------- MODULE ProvisioningProofs -------------------------
(***************************************************************************)
(* The safety properties of Provisioning hold for any number of teams,     *)
(* badges, vaults, accounts, keys, requests in flight and team proposals,  *)
(* for any thresholds, with or without requests that are cut short.        *)
(***************************************************************************)
EXTENDS Provisioning, FiniteSetTheorems, TLAPS

USE NullAssumption DEF Entities

-----------------------------------------------------------------------------
(* Types *)

ReqTypeOK == req \in [Requests -> RequestType]

\* A slot that is emptied, moves on or begins stays well typed.
LEMMA SlotTypes ==
  ASSUME ReqTypeOK, NEW r \in Requests
  PROVE  /\ Finish(r) => ReqTypeOK'
         /\ \A pc \in TeamPcs \cup VaultPcs \cup InsertPcs : Goto(r, pc) => ReqTypeOK'
         /\ \A local \in RequestType : Begin(r, local) => ReqTypeOK'
<1>1. Idle \in RequestType
  BY DEF Idle, RequestType
<1> QED
  BY <1>1 DEF Finish, Goto, Begin, ReqTypeOK, RequestType

\* An entity that is settled, or gets another rule, stays well typed.
LEMMA EntityTypes ==
  ASSUME NEW x \in EntityType, NEW signers \in SUBSET Keys
  PROVE  /\ \A s \in {"exists", "refused"} : [x EXCEPT !.state = s] \in EntityType
         /\ [x EXCEPT !.signers = signers, !.threshold = 1] \in EntityType
  BY DEF EntityType

\* Every step keeps the variables in their types.
LEMMA ProvTypeStep == ProvInv /\ [Next]_vars => TypeOK'
<1> SUFFICES ASSUME ProvInv, [Next]_vars PROVE TypeOK'
  OBVIOUS
<1>0. TypeOK /\ ReqTypeOK
  BY DEF ProvInv, TypeOK, ReqTypeOK
<1>a. ReqTypeOK' /\ UNCHANGED <<tables, entity, change, past, lost, answers>> => TypeOK'
  BY <1>0 DEF TypeOK, ReqTypeOK, tables
<1>b. ReqTypeOK' /\ entity' \in [Entities -> EntityType]
        /\ UNCHANGED <<tables, change, past, lost, answers>> => TypeOK'
  BY <1>0 DEF TypeOK, ReqTypeOK, tables
<1>c. ASSUME NEW e \in Entities, NEW signers \in SUBSET Keys, NEW n \in Nat,
             NEW t \in Teams, Submit(e, signers, n, t)
      PROVE  entity' \in [Entities -> EntityType]
  BY <1>0, <1>c DEF Submit, TypeOK, EntityType
<1>1. ASSUME NEW r \in Requests, Arrive(r)
      PROVE  TypeOK'
  <2>1. ASSUME NEW t \in Teams, NEW a \in Accounts, NEW k \in Keys, NEW b \in Badges,
               CreateTeam(r, t, a, k, b)
        PROVE  TypeOK'
    <3>1. entity' \in [Entities -> EntityType]
      BY <2>1, <1>c, b \in Entities, {k} \in SUBSET Keys, 1 \in Nat DEF CreateTeam
    <3>2. ReqTypeOK'
      BY <1>0, <2>1, SlotTypes DEF CreateTeam, Idle, RequestType, TeamPcs
    <3> QED
      BY <2>1, <3>1, <3>2, <1>b DEF CreateTeam
  <2>2. ASSUME NEW t \in Teams, NEW n \in Thresholds, VaultGetById(r, t, n)
        PROVE  TypeOK'
    <3>1. ReqTypeOK'
      BY <1>0, <2>2, SlotTypes, ThresholdsAssumption
         DEF VaultGetById, Idle, RequestType, VaultPcs
    <3> QED
      BY <2>2, <3>1, <1>a DEF VaultGetById
  <2>3. ASSUME NEW t \in Teams, NEW v \in Vaults, ImportBegin(r, t, v)
        PROVE  TypeOK'
    <3>1. ReqTypeOK'
      BY <1>0, <2>3, SlotTypes DEF ImportBegin, Idle, RequestType
    <3> QED
      BY <2>3, <3>1, <1>a DEF ImportBegin
  <2> QED
    BY <1>1, <2>1, <2>2, <2>3 DEF Arrive
<1>2. ASSUME NEW r \in Requests, Continue(r)
      PROVE  TypeOK'
  <2>0. TeamInv(r) /\ VaultInv(r) /\ req[r] \in RequestType
    BY <1>0 DEF ProvInv, ReqTypeOK
  <2>f. Finish(r) => ReqTypeOK'
    BY <1>0, SlotTypes
  <2>g. \A pc \in TeamPcs \cup VaultPcs \cup InsertPcs : Goto(r, pc) => ReqTypeOK'
    BY <1>0, SlotTypes
  <2>1. CASE TeamPoll(r) \/ VaultPoll(r)
    BY <2>1, <2>f, <2>g, <1>a DEF TeamPoll, VaultPoll, Poll, TeamPcs, InsertPcs
  <2>2. CASE TeamInsert(r)
    <3>1. team' \in [Teams -> Badges \cup {Null}]
      BY <1>0, <2>0, <2>2 DEF TeamInsert, TypeOK, TeamInv, At, TeamPcs
    <3>2. ReqTypeOK'
      BY <2>2, <2>g DEF TeamInsert, TeamPcs
    <3> QED
      BY <1>0, <2>2, <3>1, <3>2 DEF TeamInsert, TypeOK, ReqTypeOK
  <2>3. CASE TeamAddMember(r)
    <3>1. member' \subseteq Teams \X Accounts
      BY <1>0, <2>0, <2>3 DEF TeamAddMember, AddMember, TypeOK, TeamInv, At, TeamPcs
    <3> QED
      BY <1>0, <2>3, <2>f, <3>1 DEF TeamAddMember, TypeOK, ReqTypeOK
  <2>4. CASE VaultValidate(r)
    <3>1. req[r].team \in Teams /\ team[req[r].team] \in Entities
      BY <1>0, <2>0, <2>4 DEF VaultValidate, VaultInv, Serving, At, VaultPcs, TypeOK
    <3>2. entity[team[req[r].team]].signers \in SUBSET Keys
      BY <1>0, <3>1 DEF TypeOK, EntityType
    <3>3. ReqTypeOK'
      BY <1>0, <2>0, <2>4, <2>f, <3>2 DEF VaultValidate, ReqTypeOK, RequestType, VaultPcs
    <3> QED
      BY <2>4, <3>3, <1>a DEF VaultValidate
  <2>5. ASSUME NEW v \in Vaults, VaultSubmit(r, v)
        PROVE  TypeOK'
    <3>1. req[r].team \in Teams /\ req[r].signers \in SUBSET Keys /\ req[r].threshold \in Nat
      BY <2>0, <2>5 DEF VaultSubmit, VaultInv, Serving, At, VaultPcs, RequestType
    <3>2. entity' \in [Entities -> EntityType]
      BY <2>5, <3>1, <1>c, v \in Entities DEF VaultSubmit
    <3>3. ReqTypeOK'
      BY <1>0, <2>0, <2>5 DEF VaultSubmit, ReqTypeOK, RequestType, VaultPcs
    <3> QED
      BY <2>5, <3>2, <3>3, <1>b DEF VaultSubmit
  <2>6. CASE ImportValidate(r) \/ InsertSelect(r)
    BY <2>6, <2>f, <2>g, <1>a DEF ImportValidate, InsertSelect, InsertPcs
  <2>7. CASE InsertInsert(r)
    <3>1. <<req[r].team, req[r].entity>> \in Teams \X Vaults
      BY <2>0, <2>7 DEF InsertInsert, VaultInv, Serving, At, InsertPcs
    <3>2. vault' \subseteq Teams \X Vaults /\ answers' \in [Teams \X Vaults -> Nat]
      BY <1>0, <2>7, <3>1 DEF InsertInsert, TypeOK
    <3> QED
      BY <1>0, <2>7, <2>f, <3>2 DEF InsertInsert, TypeOK, ReqTypeOK
  <2> QED
    BY <1>2, <2>1, <2>2, <2>3, <2>4, <2>5, <2>6, <2>7 DEF Continue
<1>3. ASSUME NEW r \in Requests, Abort(r)
      PROVE  TypeOK'
  <2>1. req[r] \in RequestType /\ TeamInv(r)
    BY <1>0 DEF ProvInv, ReqTypeOK
  <2>2. Creating(r) => req[r].entity \in Entities
    BY <2>1 DEF Creating, TeamInv, RequestType
  <2> QED
    BY <1>0, <1>3, <2>2, SlotTypes DEF Abort, TypeOK, ReqTypeOK, tables
<1>4. ASSUME NEW e \in Entities, Settle(e)
      PROVE  TypeOK'
  <2>1. entity[e] \in EntityType /\ past[e] \in SUBSET (SUBSET Keys)
    BY <1>0 DEF TypeOK
  <2>2. entity' \in [Entities -> EntityType]
    <3>1. \A s \in {"exists", "refused"} :
            [entity EXCEPT ![e].state = s] \in [Entities -> EntityType]
      BY <1>0, <2>1, EntityTypes DEF TypeOK
    <3> QED
      BY <1>4, <3>1 DEF Settle
  <2>3. past' \in [Entities -> SUBSET (SUBSET Keys)]
    <3>1. past[e] \cup {entity[e].signers} \in SUBSET (SUBSET Keys)
      BY <2>1 DEF EntityType
    <3>2. [past EXCEPT ![e] = @ \cup {entity[e].signers}] \in [Entities -> SUBSET (SUBSET Keys)]
      BY <1>0, <3>1 DEF TypeOK
    <3> QED
      BY <1>0, <1>4, <3>2 DEF Settle, TypeOK
  <2> QED
    BY <1>0, <1>4, <2>2, <2>3 DEF Settle, TypeOK, tables
<1>5. ASSUME NEW c \in Changes, NEW t \in Teams, ListVaults(c, t)
      PROVE  TypeOK'
  BY <1>0, <1>5 DEF ListVaults, TypeOK, ChangeType, tables
<1>6. ASSUME NEW c \in Changes, NEW k \in Keys, Draft(c, k)
      PROVE  TypeOK'
  <2>1. change[c] \in ChangeType /\ ChangeInv(c)
    BY <1>0 DEF ProvInv, TypeOK
  <2>2. entity[team[change[c].team]].signers \in SUBSET Keys
    BY <1>0, <1>6, <2>1 DEF Draft, ChangeInv, TypeOK, EntityType
  <2>3. \A new \in SUBSET Keys :
          [change[c] EXCEPT !.state = "drafted", !.signers = new] \in ChangeType
    BY <2>1 DEF ChangeType
  <2>4. change' \in [Changes -> ChangeType]
    <3> DEFINE old == entity[team[change[c].team]].signers
    <3> DEFINE new == IF k \in old THEN old \ {k} ELSE old \cup {k}
    <3>1. change' = [change EXCEPT ![c].state = "drafted", ![c].signers = new]
      BY <1>6 DEF Draft
    <3>2. new \in SUBSET Keys
      BY <2>2
    <3> HIDE DEF new
    <3>3. [change[c] EXCEPT !.state = "drafted", !.signers = new] \in ChangeType
      BY <2>3, <3>2
    <3> QED
      BY <1>0, <3>1, <3>3 DEF TypeOK
  <2> QED
    BY <1>0, <1>6, <2>4 DEF Draft, TypeOK, tables
<1>7. ASSUME NEW c \in Changes, Commit(c)
      PROVE  TypeOK'
  <2>1. change[c] \in ChangeType
    BY <1>0 DEF TypeOK
  <2>a. \A e \in Entities : entity[e] \in EntityType /\ past[e] \in SUBSET (SUBSET Keys)
    BY <1>0 DEF TypeOK
  <2>b. change[c].signers \in SUBSET Keys
    BY <2>1 DEF ChangeType
  <2>2. entity' \in [Entities -> EntityType]
    <3>1. \A e \in Entities :
            [entity[e] EXCEPT !.signers = change[c].signers, !.threshold = 1] \in EntityType
      BY <2>a, <2>b, EntityTypes
    <3> QED
      BY <1>7, <2>a, <3>1 DEF Commit
  <2>3. past' \in [Entities -> SUBSET (SUBSET Keys)]
    <3>1. \A e \in Entities : past[e] \cup {change[c].signers} \in SUBSET (SUBSET Keys)
      BY <2>a, <2>b
    <3> QED
      BY <1>7, <2>a, <3>1 DEF Commit
  <2>4. change' \in [Changes -> ChangeType]
    BY <1>0, <1>7, <2>1 DEF Commit, TypeOK, ChangeType
  <2> QED
    BY <1>0, <1>7, <2>2, <2>3, <2>4 DEF Commit, TypeOK, tables
<1>8. CASE UNCHANGED vars
  BY <1>0, <1>8 DEF vars, tables, TypeOK
<1> QED
  BY <1>1, <1>2, <1>3, <1>4, <1>5, <1>6, <1>7, <1>8 DEF Next

-----------------------------------------------------------------------------
(* What never goes away *)

\* A team keeps its badge, members and vaults stay on record, an entity asked for
\* keeps its team, one that is there stays, and signer sets are remembered.
Grows ==
  /\ \A t \in Teams : team[t] # Null => team'[t] = team[t]
  /\ member \subseteq member' /\ vault \subseteq vault'
  /\ \A e \in Entities :
       /\ past[e] \subseteq past'[e]
       /\ entity[e].state # "free" =>
            entity'[e].state # "free" /\ entity'[e].team = entity[e].team
       /\ ThereIs(e) => ThereIs(e)'

LEMMA ProvGrowsStep == ProvInv /\ [Next]_vars => Grows
<1> SUFFICES ASSUME ProvInv, [Next]_vars PROVE Grows
  OBVIOUS
<1>0. TypeOK
  BY DEF ProvInv
<1>a. UNCHANGED <<tables, entity, past>> => Grows
  BY DEF Grows, ThereIs, tables
<1>b. ASSUME NEW e \in Entities, NEW signers, NEW n, NEW t,
             Submit(e, signers, n, t), UNCHANGED <<tables, past>>
      PROVE  Grows
  BY <1>0, <1>b DEF Submit, Grows, ThereIs, tables, TypeOK
<1>1. ASSUME NEW r \in Requests, TeamInsert(r)
      PROVE  Grows
  <2>1. /\ req[r].team \in Teams /\ req[r].entity \in Badges
        /\ entity[req[r].entity].team = req[r].team
    BY <1>1 DEF ProvInv, TeamInv, TeamInsert, At, TeamPcs
  <2>2. ASSUME team[req[r].team] # Null
        PROVE  team[req[r].team] = req[r].entity
    <3>1. team[req[r].team] \in Badges
      BY <1>0, <2>1, <2>2 DEF TypeOK
    <3>2. entity[team[req[r].team]].team = req[r].team
      BY <2>1, <2>2 DEF ProvInv, RecordsExist
    <3> QED
      BY <2>1, <3>1, <3>2 DEF ProvInv, EntityInv
  <2>3. \A t \in Teams : team[t] # Null => team'[t] = team[t]
    BY <1>0, <1>1, <2>1, <2>2 DEF TeamInsert, TypeOK
  <2> QED
    BY <1>1, <2>3 DEF TeamInsert, Grows, ThereIs
<1>2. ASSUME NEW r \in Requests, TeamAddMember(r) \/ InsertInsert(r)
      PROVE  Grows
  BY <1>2 DEF TeamAddMember, AddMember, InsertInsert, Grows, ThereIs
<1>3. ASSUME NEW r \in Requests, NEW t \in Teams, NEW a \in Accounts, NEW k \in Keys,
             NEW b \in Badges, CreateTeam(r, t, a, k, b)
      PROVE  Grows
  BY <1>3, <1>b, b \in Entities DEF CreateTeam
<1>4. ASSUME NEW r \in Requests, NEW v \in Vaults, VaultSubmit(r, v)
      PROVE  Grows
  BY <1>4, <1>b, v \in Entities DEF VaultSubmit
<1>5. ASSUME NEW e \in Entities, Settle(e)
      PROVE  Grows
  <2>1. \A d \in Entities : past[d] \subseteq past'[d]
    BY <1>0, <1>5 DEF Settle, TypeOK
  <2>2. PICK x \in {"exists", "refused"} : entity' = [entity EXCEPT ![e].state = x]
    BY <1>5 DEF Settle
  <2>3. \A d \in Entities : d # e => entity'[d] = entity[d]
    BY <1>0, <2>2 DEF TypeOK
  <2>4. entity[e].state = "pending" /\ entity'[e].state = x
           /\ entity'[e].team = entity[e].team
    BY <1>0, <1>5, <2>2 DEF Settle, TypeOK, EntityType
  <2> QED
    BY <1>5, <2>1, <2>3, <2>4 DEF Settle, Grows, ThereIs, tables
<1>6. ASSUME NEW c \in Changes, Commit(c)
      PROVE  Grows
  <2>1. \A e \in Entities : past[e] \subseteq past'[e]
    BY <1>6 DEF Commit
  <2>2. \A e \in Entities :
          entity'[e].state = entity[e].state /\ entity'[e].team = entity[e].team
    <3> TAKE e \in Entities
    <3>1. entity[e] \in EntityType
      BY <1>0 DEF TypeOK
    <3>2. \/ entity'[e] = entity[e]
          \/ entity'[e] = [entity[e] EXCEPT !.signers = change[c].signers, !.threshold = 1]
      BY <1>6 DEF Commit
    <3> QED
      BY <3>1, <3>2 DEF EntityType
  <2> QED
    BY <1>6, <2>1, <2>2 DEF Commit, Grows, ThereIs, tables
<1>7. ASSUME \/ \E r \in Requests :
                 \/ \E t \in Teams, n \in Thresholds : VaultGetById(r, t, n)
                 \/ \E t \in Teams, v \in Vaults : ImportBegin(r, t, v)
                 \/ TeamPoll(r) \/ VaultPoll(r) \/ VaultValidate(r)
                 \/ ImportValidate(r) \/ InsertSelect(r) \/ Abort(r)
             \/ \E c \in Changes : \/ \E t \in Teams : ListVaults(c, t)
                                  \/ \E k \in Keys : Draft(c, k)
             \/ UNCHANGED vars
      PROVE  Grows
  BY <1>7, <1>a DEF VaultGetById, ImportBegin, TeamPoll, VaultPoll, Poll, VaultValidate,
     ImportValidate, InsertSelect, Abort, ListVaults, Draft, vars
<1> QED
  BY <1>1, <1>2, <1>3, <1>4, <1>5, <1>6, <1>7 DEF Next, Arrive, Continue

-----------------------------------------------------------------------------
(* The parts of the invariant *)

\* A request that takes no step keeps what it knows.
LEMMA ProvOthers ==
  ASSUME ProvInv, Grows, NEW q \in Requests, req'[q] = req[q]
  PROVE  TeamInv(q)' /\ VaultInv(q)'
<1>0. TypeOK /\ TeamInv(q) /\ VaultInv(q)
  BY DEF ProvInv
<1>s. Serving(q) => Serving(q)' /\ team'[req[q].team] = team[req[q].team]
  BY DEF Serving, Grows
<1>1. TeamInv(q)'
  BY <1>0, <1>s DEF TeamInv, Grows, ThereIs, At
<1>2. VaultInv(q)'
  <2>1. Serving(q) => team[req[q].team] \in Entities
    BY <1>0 DEF Serving, TypeOK
  <2> QED
    BY <1>0, <1>s, <2>1 DEF VaultInv, Grows, ThereIs, At
<1> QED
  BY <1>1, <1>2

\* Moving on changes the program point of one request and nothing else.
Moved(r, pc) ==
  /\ req'[r].pc = pc
  /\ req'[r].team = req[r].team /\ req'[r].account = req[r].account
  /\ req'[r].entity = req[r].entity /\ req'[r].signers = req[r].signers
  /\ req'[r].threshold = req[r].threshold
  /\ \A q \in Requests \ {r} : req'[q] = req[q]

LEMMA GotoMoves ==
  ASSUME TypeOK, NEW r \in Requests, NEW pc, Goto(r, pc)
  PROVE  Moved(r, pc)
  BY DEF Moved, Goto, TypeOK, RequestType

\* An emptied slot knows nothing, the others keep what they know.
LEMMA FinishKeeps ==
  ASSUME ProvInv, Grows, NEW r \in Requests, Finish(r)
  PROVE  \A q \in Requests : TeamInv(q)' /\ VaultInv(q)'
<1>1. req'[r] = Idle /\ \A q \in Requests \ {r} : req'[q] = req[q]
  BY DEF Finish, ProvInv, TypeOK
<1>2. TeamInv(r)' /\ VaultInv(r)'
  BY <1>1 DEF TeamInv, VaultInv, Idle, TeamPcs, VaultPcs, InsertPcs
<1> QED
  BY <1>1, <1>2, ProvOthers

\* Each program point knows what its calls have established.
LEMMA ProvRequestStep ==
  ProvInv /\ [Next]_vars => \A q \in Requests : TeamInv(q)' /\ VaultInv(q)'
<1> SUFFICES ASSUME ProvInv, [Next]_vars
             PROVE  \A q \in Requests : TeamInv(q)' /\ VaultInv(q)'
  OBVIOUS
<1>0. TypeOK /\ Grows /\ RecordsExist
  BY ProvGrowsStep DEF ProvInv
<1>i. \A q \in Requests : TeamInv(q) /\ VaultInv(q)
  BY DEF ProvInv
<1>u. ASSUME UNCHANGED req
      PROVE  \A q \in Requests : TeamInv(q)' /\ VaultInv(q)'
  BY <1>u, <1>0, ProvOthers
<1>o. ASSUME NEW r \in Requests, \A q \in Requests \ {r} : req'[q] = req[q],
             TeamInv(r)', VaultInv(r)'
      PROVE  \A q \in Requests : TeamInv(q)' /\ VaultInv(q)'
  BY <1>o, <1>0, ProvOthers
<1>m. \A t \in Teams : (\E a \in Accounts : <<t, a>> \in member) => team[t] # Null
  BY <1>0 DEF RecordsExist
<1>1. ASSUME NEW r \in Requests, NEW t \in Teams, NEW a \in Accounts, NEW k \in Keys,
             NEW b \in Badges, CreateTeam(r, t, a, k, b)
      PROVE  \A q \in Requests : TeamInv(q)' /\ VaultInv(q)'
  <2>1. /\ req'[r].pc = "team.poll" /\ req'[r].team = t /\ req'[r].account = a
        /\ req'[r].entity = b /\ \A q \in Requests \ {r} : req'[q] = req[q]
    BY <1>0, <1>1 DEF CreateTeam, Begin, Idle, TypeOK
  <2>2. entity'[b].state = "pending" /\ entity'[b].team = t
    BY <1>0, <1>1 DEF CreateTeam, Submit, TypeOK
  <2> QED
    BY <2>1, <2>2, <1>o DEF TeamInv, VaultInv, TeamPcs, VaultPcs, InsertPcs, At
<1>2. ASSUME NEW r \in Requests, NEW t \in Teams, NEW n \in Thresholds,
             VaultGetById(r, t, n)
      PROVE  \A q \in Requests : TeamInv(q)' /\ VaultInv(q)'
  <2>1. /\ req'[r].pc = "vault.validate" /\ req'[r].team = t /\ req'[r].threshold = n
        /\ \A q \in Requests \ {r} : req'[q] = req[q]
    BY <1>0, <1>2 DEF VaultGetById, Begin, Idle, TypeOK
  <2>2. team'[t] # Null
    BY <1>2, <1>m DEF VaultGetById, tables
  <2> QED
    BY <2>1, <2>2, <1>o DEF TeamInv, VaultInv, TeamPcs, InsertPcs, At, Serving
<1>3. ASSUME NEW r \in Requests, NEW t \in Teams, NEW v \in Vaults, ImportBegin(r, t, v)
      PROVE  \A q \in Requests : TeamInv(q)' /\ VaultInv(q)'
  <2>1. /\ req'[r].pc = "import.validate" /\ req'[r].team = t /\ req'[r].entity = v
        /\ \A q \in Requests \ {r} : req'[q] = req[q]
    BY <1>0, <1>3 DEF ImportBegin, Begin, Idle, TypeOK
  <2>2. team'[t] # Null
    BY <1>3, <1>m DEF ImportBegin, tables
  <2> QED
    BY <2>1, <2>2, <1>o DEF TeamInv, VaultInv, TeamPcs, InsertPcs, At, Serving
<1>4. ASSUME NEW r \in Requests, TeamPoll(r)
      PROVE  \A q \in Requests : TeamInv(q)' /\ VaultInv(q)'
  <2>1. CASE Goto(r, "team.insert") /\ Created(req[r].entity)
    <3>1. Moved(r, "team.insert") /\ TeamInv(r) /\ At(r, "team.poll")
      BY <1>0, <1>4, <1>i, <2>1, GotoMoves DEF TeamPoll, Poll
    <3> QED
      BY <1>4, <1>o, <2>1, <3>1 DEF TeamPoll, Poll, Moved, TeamInv, VaultInv, At,
         TeamPcs, VaultPcs, InsertPcs, Created, ThereIs
  <2> QED
    BY <1>4, <2>1, <1>0, FinishKeeps DEF TeamPoll, Poll
<1>5. ASSUME NEW r \in Requests, TeamInsert(r)
      PROVE  \A q \in Requests : TeamInv(q)' /\ VaultInv(q)'
  <2>1. Moved(r, "team.addMember") /\ TeamInv(r) /\ At(r, "team.insert")
    BY <1>0, <1>5, <1>i, GotoMoves DEF TeamInsert
  <2>2. team'[req[r].team] = req[r].entity
    BY <1>0, <1>5, <2>1 DEF TeamInsert, TypeOK, TeamInv, At, TeamPcs
  <2> QED
    BY <1>5, <1>o, <2>1, <2>2 DEF TeamInsert, Moved, TeamInv, VaultInv, At, Serving,
       TeamPcs, VaultPcs, InsertPcs, ThereIs
<1>6. ASSUME NEW r \in Requests, VaultValidate(r)
      PROVE  \A q \in Requests : TeamInv(q)' /\ VaultInv(q)'
  <2> DEFINE signers == entity[team[req[r].team]].signers
  <2>0. Serving(r) /\ req[r].threshold \in Thresholds
    BY <1>6, <1>i DEF VaultInv, VaultValidate, At, VaultPcs
  <2>1. team[req[r].team] \in Entities /\ ThereIs(team[req[r].team])
    BY <1>0, <2>0 DEF Serving, TypeOK, RecordsExist, ThereIs
  <2>2. signers \in past[team[req[r].team]] /\ signers \in SUBSET Keys
    BY <1>0, <2>1 DEF ProvInv, EntityInv, TypeOK, EntityType
  <2>3. Cardinality(signers) \in Nat
    BY <2>2, KeysAssumption, FS_Subset, FS_CardinalityType
  <2>4. CASE Fits(req[r].threshold, signers)
    <3>1. /\ req'[r].pc = "vault.submit" /\ req'[r].signers = signers
          /\ req'[r].team = req[r].team /\ req'[r].threshold = req[r].threshold
          /\ \A q \in Requests \ {r} : req'[q] = req[q]
      BY <1>0, <1>6, <2>4 DEF VaultValidate, TypeOK, RequestType
    <3>2. req[r].threshold \in 1..Cardinality(signers)
      <4>1. req[r].threshold \in Nat \ {0} /\ req[r].threshold <= Cardinality(signers)
        BY <2>0, <2>4, ThresholdsAssumption DEF Fits
      <4> HIDE DEF signers
      <4> QED
        BY <4>1, <2>3
    <3>3. UNCHANGED <<team, past>>
      BY <1>6 DEF VaultValidate, tables
    <3> HIDE DEF signers
    <3> QED
      BY <1>o, <2>0, <2>2, <3>1, <3>2, <3>3 DEF TeamInv, VaultInv, Serving, At,
         TeamPcs, InsertPcs
  <2> QED
    BY <1>6, <2>4, <1>0, FinishKeeps DEF VaultValidate
<1>7. ASSUME NEW r \in Requests, NEW v \in Vaults, VaultSubmit(r, v)
      PROVE  \A q \in Requests : TeamInv(q)' /\ VaultInv(q)'
  <2>1. VaultInv(r) /\ At(r, "vault.submit")
    BY <1>7, <1>i DEF VaultSubmit
  <2>2. /\ req'[r].pc = "vault.poll" /\ req'[r].entity = v /\ req'[r].team = req[r].team
        /\ \A q \in Requests \ {r} : req'[q] = req[q]
    BY <1>0, <1>7 DEF VaultSubmit, TypeOK, RequestType
  <2>3. entity'[v].state = "pending" /\ UNCHANGED team
    BY <1>0, <1>7 DEF VaultSubmit, Submit, TypeOK, tables
  <2> QED
    BY <1>o, <2>1, <2>2, <2>3 DEF TeamInv, VaultInv, Serving, At, TeamPcs, VaultPcs, InsertPcs
<1>8. ASSUME NEW r \in Requests, VaultPoll(r)
      PROVE  \A q \in Requests : TeamInv(q)' /\ VaultInv(q)'
  <2>1. CASE Goto(r, "insert.select") /\ Created(req[r].entity)
    <3>1. Moved(r, "insert.select") /\ VaultInv(r) /\ At(r, "vault.poll")
      BY <1>0, <1>8, <1>i, <2>1, GotoMoves DEF VaultPoll, Poll
    <3> QED
      BY <1>8, <1>o, <2>1, <3>1 DEF VaultPoll, Poll, Moved, TeamInv, VaultInv, At, Serving,
         TeamPcs, VaultPcs, InsertPcs, Created, ThereIs, tables
  <2> QED
    BY <1>8, <2>1, <1>0, FinishKeeps DEF VaultPoll, Poll
<1>9. ASSUME NEW r \in Requests, ImportValidate(r)
      PROVE  \A q \in Requests : TeamInv(q)' /\ VaultInv(q)'
  <2>1. CASE Goto(r, "insert.select") /\ entity[req[r].entity].state = "exists"
    <3>1. Moved(r, "insert.select") /\ VaultInv(r) /\ At(r, "import.validate")
      BY <1>0, <1>9, <1>i, <2>1, GotoMoves DEF ImportValidate
    <3> QED
      BY <1>9, <1>o, <2>1, <3>1 DEF ImportValidate, Moved, TeamInv, VaultInv, At, Serving,
         TeamPcs, VaultPcs, InsertPcs, ThereIs, tables
  <2> QED
    BY <1>9, <2>1, <1>0, FinishKeeps DEF ImportValidate
<1>10. ASSUME NEW r \in Requests, InsertSelect(r)
       PROVE  \A q \in Requests : TeamInv(q)' /\ VaultInv(q)'
  <2>1. CASE Goto(r, "insert.insert")
    <3>1. Moved(r, "insert.insert") /\ VaultInv(r) /\ At(r, "insert.select")
      BY <1>0, <1>10, <1>i, <2>1, GotoMoves DEF InsertSelect
    <3> QED
      BY <1>10, <1>o, <3>1 DEF InsertSelect, Moved, TeamInv, VaultInv, At, Serving,
         TeamPcs, VaultPcs, InsertPcs, ThereIs, tables
  <2> QED
    BY <1>10, <2>1, <1>0, FinishKeeps DEF InsertSelect
<1>11. ASSUME NEW r \in Requests, TeamAddMember(r) \/ InsertInsert(r) \/ Abort(r)
       PROVE  \A q \in Requests : TeamInv(q)' /\ VaultInv(q)'
  BY <1>11, <1>0, FinishKeeps DEF TeamAddMember, InsertInsert, Abort
<1>12. ASSUME \/ \E e \in Entities : Settle(e)
              \/ \E c \in Changes : \/ \E t \in Teams : ListVaults(c, t)
                                   \/ \E k \in Keys : Draft(c, k)
                                   \/ Commit(c)
              \/ UNCHANGED vars
       PROVE  \A q \in Requests : TeamInv(q)' /\ VaultInv(q)'
  BY <1>12, <1>u DEF Settle, ListVaults, Draft, Commit, vars
<1> QED
  BY <1>1, <1>2, <1>3, <1>4, <1>5, <1>6, <1>7, <1>8, <1>9, <1>10, <1>11, <1>12
     DEF Next, Arrive, Continue

\* A draft is about a team and vaults on record.
LEMMA ProvChangeStep == ProvInv /\ [Next]_vars => \A c \in Changes : ChangeInv(c)'
<1> SUFFICES ASSUME ProvInv, [Next]_vars, NEW c \in Changes PROVE ChangeInv(c)'
  OBVIOUS
<1>0. TypeOK /\ Grows /\ ChangeInv(c) /\ change[c] \in ChangeType
  BY ProvGrowsStep DEF ProvInv, TypeOK
<1>k. ASSUME change'[c] = change[c]
      PROVE  ChangeInv(c)'
  BY <1>k, <1>0 DEF ChangeInv, Grows
<1>1. ASSUME NEW d \in Changes, NEW t \in Teams, ListVaults(d, t)
      PROVE  ChangeInv(c)'
  <2>1. CASE d = c
    <3>1. team[t] # Null
      BY <1>1 DEF ListVaults, ProvInv, RecordsExist
    <3>2. /\ change'[c].state = "listed" /\ change'[c].team = t
          /\ change'[c].vaults = {v \in Vaults : <<t, v>> \in vault}
      BY <1>0, <1>1, <2>1 DEF ListVaults, TypeOK
    <3> QED
      BY <1>1, <3>1, <3>2 DEF ListVaults, ChangeInv, tables
  <2> QED
    BY <1>0, <1>1, <1>k, <2>1 DEF ListVaults, TypeOK
<1>2. ASSUME NEW d \in Changes, NEW k \in Keys, Draft(d, k)
      PROVE  ChangeInv(c)'
  <2>1. CASE d = c
    <3>1. /\ change[c].state = "listed"
          /\ change'[c].team = change[c].team /\ change'[c].vaults = change[c].vaults
          /\ change'[c].signers # {}
      BY <1>0, <1>2, <2>1 DEF Draft, TypeOK, ChangeType
    <3>2. /\ change[c].team \in Teams /\ team[change[c].team] # Null
          /\ \A v \in change[c].vaults : <<change[c].team, v>> \in vault
      BY <1>0, <3>1 DEF ChangeInv
    <3>3. UNCHANGED <<team, vault>>
      BY <1>2 DEF Draft, tables
    <3> QED
      BY <3>1, <3>2, <3>3 DEF ChangeInv
  <2> QED
    BY <1>0, <1>2, <1>k, <2>1 DEF Draft, TypeOK
<1>3. ASSUME NEW d \in Changes, Commit(d)
      PROVE  ChangeInv(c)'
  <2>1. CASE d = c
    <3>1. /\ change[c].state = "drafted" /\ change'[c].state = "committed"
          /\ change'[c].team = change[c].team /\ change'[c].vaults = change[c].vaults
      BY <1>0, <1>3, <2>1 DEF Commit, TypeOK, ChangeType
    <3>2. /\ change[c].team \in Teams /\ team[change[c].team] # Null
          /\ \A v \in change[c].vaults : <<change[c].team, v>> \in vault
      BY <1>0, <3>1 DEF ChangeInv
    <3>3. UNCHANGED <<team, vault>>
      BY <1>3 DEF Commit, tables
    <3> QED
      BY <3>1, <3>2, <3>3 DEF ChangeInv
  <2> QED
    BY <1>0, <1>3, <1>k, <2>1 DEF Commit, TypeOK
<1>4. ASSUME UNCHANGED change
      PROVE  ChangeInv(c)'
  BY <1>4, <1>k
<1> QED
  BY <1>1, <1>2, <1>3, <1>4 DEF Next, Arrive, Continue, CreateTeam, VaultGetById, ImportBegin,
     TeamPoll, TeamInsert, TeamAddMember, VaultValidate, VaultPoll, Poll, VaultSubmit,
     ImportValidate, InsertSelect, InsertInsert, Settle, Abort, vars

\* What the tables name is on the ledger: an insert comes after the commit it has
\* waited for, and members and vaults after their team.
LEMMA RecordsExistStep == ProvInv /\ [Next]_vars => RecordsExist'
<1> SUFFICES ASSUME ProvInv, [Next]_vars PROVE RecordsExist'
  OBVIOUS
<1>0. TypeOK /\ Grows /\ RecordsExist
  BY ProvGrowsStep DEF ProvInv
<1>i. \A r \in Requests : TeamInv(r) /\ VaultInv(r)
  BY DEF ProvInv
<1>t. UNCHANGED tables => RecordsExist'
  <2>1. \A t \in Teams : team[t] # Null => team[t] \in Entities
    BY <1>0 DEF TypeOK
  <2>2. \A x \in member : x[1] \in Teams
    BY <1>0 DEF TypeOK
  <2>3. \A x \in vault : x[1] \in Teams /\ x[2] \in Entities
    BY <1>0 DEF TypeOK
  <2>4. \A e \in Entities : entity[e].state = "exists" =>
          entity'[e].state = "exists" /\ entity'[e].team = entity[e].team
    BY <1>0 DEF Grows, ThereIs
  <2> QED
    BY <1>0, <2>1, <2>2, <2>3, <2>4 DEF RecordsExist, tables
<1>1. ASSUME NEW r \in Requests, TeamInsert(r)
      PROVE  RecordsExist'
  <2>1. /\ req[r].team \in Teams /\ req[r].entity \in Badges /\ ThereIs(req[r].entity)
        /\ entity[req[r].entity].team = req[r].team
    BY <1>1, <1>i DEF TeamInsert, TeamInv, At, TeamPcs
  <2>2. \A t \in Teams : team'[t] = IF t = req[r].team THEN req[r].entity ELSE team[t]
    BY <1>0, <1>1, <2>1 DEF TeamInsert, TypeOK
  <2>3. req[r].entity # Null
    BY <2>1
  <2>4. \A x \in member \cup vault : x[1] \in Teams
    BY <1>0 DEF TypeOK
  <2> QED
    BY <1>0, <1>1, <2>1, <2>2, <2>3, <2>4 DEF TeamInsert, RecordsExist, ThereIs
<1>2. ASSUME NEW r \in Requests, TeamAddMember(r)
      PROVE  RecordsExist'
  <2>1. Serving(r)
    BY <1>2, <1>i DEF TeamAddMember, TeamInv, At, TeamPcs
  <2> QED
    BY <1>0, <1>2, <2>1 DEF TeamAddMember, AddMember, RecordsExist, Serving
<1>3. ASSUME NEW r \in Requests, InsertInsert(r)
      PROVE  RecordsExist'
  <2>1. Serving(r) /\ ThereIs(req[r].entity)
    BY <1>3, <1>i DEF InsertInsert, VaultInv, At, InsertPcs
  <2> QED
    BY <1>0, <1>3, <2>1 DEF InsertInsert, RecordsExist, Serving, ThereIs
<1> QED
  BY <1>1, <1>2, <1>3, <1>t DEF Next, Arrive, Continue, CreateTeam, VaultGetById, ImportBegin,
     TeamPoll, VaultValidate, VaultPoll, Poll, VaultSubmit, ImportValidate, InsertSelect,
     Settle, ListVaults, Draft, Commit, Abort, vars, tables

\* Success is reported by the insert that the primary key lets through.
LEMMA ReportedOnceStep == ProvInv /\ [Next]_vars => ReportedOnce'
<1> SUFFICES ASSUME ProvInv, [Next]_vars PROVE ReportedOnce'
  OBVIOUS
<1>0. TypeOK /\ ReportedOnce
  BY DEF ProvInv
<1>1. ASSUME NEW r \in Requests, InsertInsert(r)
      PROVE  ReportedOnce'
  <2> DEFINE x == <<req[r].team, req[r].entity>>
  <2>1. x \in Teams \X Vaults
    BY <1>1 DEF ProvInv, VaultInv, Serving, InsertInsert, At, InsertPcs
  <2>2. CASE x \in vault
    BY <1>0, <1>1, <2>2 DEF InsertInsert, Insertable, ReportedOnce
  <2>3. CASE x \notin vault
    <3>1. vault' = vault \cup {x} /\ answers' = [answers EXCEPT ![x] = @ + 1]
      BY <1>1, <2>3 DEF InsertInsert, Insertable
    <3>2. answers[x] = 0
      BY <1>0, <2>1, <2>3 DEF ReportedOnce
    <3> HIDE DEF x
    <3> QED
      BY <1>0, <2>1, <3>1, <3>2 DEF ReportedOnce, TypeOK
  <2> QED
    BY <2>2, <2>3
<1>2. ASSUME UNCHANGED <<vault, answers>>
      PROVE  ReportedOnce'
  BY <1>0, <1>2 DEF ReportedOnce
<1> QED
  BY <1>1, <1>2 DEF Next, Arrive, Continue, CreateTeam, VaultGetById, ImportBegin, TeamPoll,
     TeamInsert, TeamAddMember, VaultValidate, VaultPoll, Poll, VaultSubmit, ImportValidate,
     InsertSelect, Settle, ListVaults, Draft, Commit, Abort, vars, tables

\* One badge for a team, and its signers on record: a badge is only asked for while
\* nothing belongs to the team, and a commit records what it installs.
LEMMA EntityStep == ProvInv /\ [Next]_vars => EntityInv'
<1> SUFFICES ASSUME ProvInv, [Next]_vars PROVE EntityInv'
  OBVIOUS
<1>0. TypeOK /\ Grows /\ EntityInv
  BY ProvGrowsStep DEF ProvInv
<1>u. UNCHANGED <<entity, past>> => EntityInv'
  BY <1>0 DEF EntityInv, ThereIs
<1>1. ASSUME NEW r \in Requests, NEW t \in Teams, NEW a \in Accounts, NEW k \in Keys,
             NEW b \in Badges, CreateTeam(r, t, a, k, b)
      PROVE  EntityInv'
  <2>1. \A e \in Entities : entity'[e] =
          IF e = b THEN [state |-> "pending", signers |-> {k}, threshold |-> 1, team |-> t]
                   ELSE entity[e]
    BY <1>0, <1>1 DEF CreateTeam, Submit, TypeOK
  <2>2. \A e \in Entities : entity[e].team # t
    BY <1>1 DEF CreateTeam
  <2>3. UNCHANGED past
    BY <1>1 DEF CreateTeam
  <2> QED
    BY <1>0, <2>1, <2>2, <2>3 DEF EntityInv, ThereIs
<1>2. ASSUME NEW r \in Requests, NEW v \in Vaults, VaultSubmit(r, v)
      PROVE  EntityInv'
  <2>1. \A e \in Entities : entity'[e] =
          IF e = v THEN [state |-> "pending", signers |-> req[r].signers,
                         threshold |-> req[r].threshold, team |-> req[r].team]
                   ELSE entity[e]
    BY <1>0, <1>2 DEF VaultSubmit, Submit, TypeOK
  <2>2. UNCHANGED past
    BY <1>2 DEF VaultSubmit
  <2>3. \A b \in Badges : b # v
    BY EntitiesAssumption
  <2> QED
    BY <1>0, <2>1, <2>2, <2>3 DEF EntityInv, ThereIs
<1>3. ASSUME NEW e \in Entities, Settle(e)
      PROVE  EntityInv'
  <2>1. PICK x \in {"exists", "refused"} : entity' = [entity EXCEPT ![e].state = x]
    BY <1>3 DEF Settle
  <2>2. entity[e] \in EntityType
    BY <1>0 DEF TypeOK
  <2>3. /\ entity'[e].state = x /\ entity'[e].team = entity[e].team
        /\ entity'[e].signers = entity[e].signers
        /\ \A d \in Entities \ {e} : entity'[d] = entity[d]
    BY <1>0, <2>1, <2>2 DEF TypeOK, EntityType
  <2>4. x = "exists" => entity[e].signers \in past'[e]
    <3>1. CASE past' = [past EXCEPT ![e] = @ \cup {entity[e].signers}]
      BY <1>0, <3>1 DEF TypeOK
    <3>2. CASE entity' = [entity EXCEPT ![e].state = "refused"]
      BY <1>0, <2>2, <2>3, <3>2 DEF TypeOK, EntityType
    <3> QED
      BY <1>3, <3>1, <3>2 DEF Settle
  <2>5. \A d \in Entities : past[d] \subseteq past'[d]
    BY <1>0 DEF Grows
  <2> QED
    BY <1>0, <2>3, <2>4, <2>5 DEF EntityInv, ThereIs
<1>4. ASSUME NEW c \in Changes, Commit(c)
      PROVE  EntityInv'
  <2>1. ASSUME NEW e \in Entities
        PROVE  /\ entity'[e].state = entity[e].state /\ entity'[e].team = entity[e].team
               /\ \/ entity'[e].signers = entity[e].signers
                  \/ entity'[e].signers \in past'[e]
    <3>1. entity[e] \in EntityType
      BY <1>0 DEF TypeOK
    <3>2. \/ entity'[e] = entity[e]
          \/ /\ entity'[e] = [entity[e] EXCEPT !.signers = change[c].signers, !.threshold = 1]
             /\ change[c].signers \in past'[e]
      BY <1>4 DEF Commit
    <3> QED
      BY <3>1, <3>2 DEF EntityType
  <2>2. \A e \in Entities : past[e] \subseteq past'[e]
    BY <1>0 DEF Grows
  <2> QED
    BY <1>0, <2>1, <2>2 DEF EntityInv, ThereIs
<1> QED
  BY <1>1, <1>2, <1>3, <1>4, <1>u DEF Next, Arrive, Continue, VaultGetById, ImportBegin, TeamPoll,
     TeamInsert, TeamAddMember, VaultValidate, VaultPoll, Poll, ImportValidate,
     InsertSelect, InsertInsert, ListVaults, Draft, Abort, vars, tables

\* What one vault's rule was made of stays on record.
OpenableBy(v, t) ==
  /\ t = entity[v].team \/ <<t, v>> \in vault
  /\ entity[v].signers \in past[team[t]]

Openable(v) ==
  entity[v].state \in {"pending", "exists"} /\ entity[v].team # Null =>
    /\ entity[v].threshold \in 1..Cardinality(entity[v].signers)
    /\ entity[v].team \in Teams /\ team[entity[v].team] # Null
    /\ \E t \in Teams : OpenableBy(v, t)

\* A vault whose rule does not change stays openable, also when it settles.
LEMMA OpenableKept ==
  ASSUME ProvInv, Grows, NEW v \in Vaults, Openable(v),
         entity'[v].signers = entity[v].signers, entity'[v].threshold = entity[v].threshold,
         entity'[v].team = entity[v].team,
         entity[v].state = "free" => entity'[v].state = "free",
         entity'[v].state \in {"pending", "exists"} => entity[v].state \in {"free", "pending", "exists"}
  PROVE  Openable(v)'
<1>1. ASSUME entity[v].state \in {"pending", "exists"}, entity[v].team # Null
      PROVE  Openable(v)'
  <2>1. PICK t \in Teams : OpenableBy(v, t)
    BY <1>1 DEF Openable
  <2>2. entity[v].team \in Teams /\ team[entity[v].team] # Null
    BY <1>1 DEF Openable
  <2>3. team[t] # Null /\ team[t] \in Entities
    BY <2>1, <2>2 DEF OpenableBy, ProvInv, RecordsExist, TypeOK
  <2>4. /\ team'[t] = team[t] /\ vault \subseteq vault'
        /\ past[team[t]] \subseteq past'[team[t]]
    BY <2>3 DEF Grows
  <2>5. OpenableBy(v, t)'
    BY <2>1, <2>4 DEF OpenableBy
  <2>6. /\ entity[v].threshold \in 1..Cardinality(entity[v].signers)
        /\ team'[entity[v].team] = team[entity[v].team]
    BY <1>1, <2>2 DEF Openable, Grows
  <2>7. \E u \in Teams : OpenableBy(v, u)'
    BY <2>5
  <2> QED
    BY <2>2, <2>6, <2>7 DEF Openable
<1>2. CASE entity[v].state = "free"
  BY <1>2 DEF Openable
<1> QED
  BY <1>1, <1>2 DEF Openable

\* createVault installs a set of signers its team's badge has had, a team proposal
\* one it installs in the badge of a team that has the vault.
LEMMA OpenableStep == ProvInv /\ [Next]_vars => OpenableInv'
<1> SUFFICES ASSUME ProvInv, [Next]_vars, NEW v \in Vaults PROVE Openable(v)'
  BY DEF OpenableInv, Openable, OpenableBy
<1>0. TypeOK /\ Grows /\ Openable(v) /\ v \in Entities /\ entity[v] \in EntityType
  BY ProvGrowsStep DEF ProvInv, OpenableInv, Openable, OpenableBy, TypeOK
<1>u. entity'[v] = entity[v] => Openable(v)'
  BY <1>0, OpenableKept DEF EntityType
<1>1. ASSUME NEW r \in Requests, NEW t \in Teams, NEW a \in Accounts, NEW k \in Keys,
             NEW b \in Badges, CreateTeam(r, t, a, k, b)
      PROVE  Openable(v)'
  BY <1>0, <1>1, <1>u, EntitiesAssumption DEF CreateTeam, Submit, TypeOK
<1>2. ASSUME NEW r \in Requests, NEW u \in Vaults, VaultSubmit(r, u)
      PROVE  Openable(v)'
  <2>1. CASE u = v
    <3>1. /\ req[r].team \in Teams /\ team[req[r].team] # Null
          /\ req[r].threshold \in 1..Cardinality(req[r].signers)
          /\ req[r].signers \in past[team[req[r].team]]
      BY <1>2 DEF ProvInv, VaultInv, VaultSubmit, Serving, At, VaultPcs
    <3>2. /\ entity'[v].signers = req[r].signers /\ entity'[v].threshold = req[r].threshold
          /\ entity'[v].team = req[r].team /\ UNCHANGED <<team, past>>
      BY <1>0, <1>2, <2>1 DEF VaultSubmit, Submit, TypeOK, tables
    <3>3. PICK t \in Teams : t = req[r].team
      BY <3>1
    <3>4. OpenableBy(v, t)'
      BY <3>1, <3>2, <3>3 DEF OpenableBy
    <3> QED
      BY <3>1, <3>2, <3>4 DEF Openable
  <2> QED
    BY <1>0, <1>2, <1>u, <2>1 DEF VaultSubmit, Submit, TypeOK
<1>3. ASSUME NEW e \in Entities, Settle(e)
      PROVE  Openable(v)'
  <2>1. PICK x \in {"exists", "refused"} : entity' = [entity EXCEPT ![e].state = x]
    BY <1>3 DEF Settle
  <2>2. CASE e = v
    <3>1. /\ entity'[v].signers = entity[v].signers
          /\ entity'[v].threshold = entity[v].threshold /\ entity'[v].team = entity[v].team
      BY <1>0, <2>1, <2>2 DEF TypeOK, EntityType
    <3>2. entity[v].state = "pending"
      BY <1>3, <2>2 DEF Settle
    <3> QED
      BY <1>0, <3>1, <3>2, OpenableKept
  <2> QED
    BY <1>0, <1>u, <2>1, <2>2 DEF TypeOK
<1>4. ASSUME NEW c \in Changes, Commit(c)
      PROVE  Openable(v)'
  <2>1. CASE v \notin change[c].vaults
    <3>1. change[c].state = "drafted" /\ ChangeInv(c) /\ change[c] \in ChangeType
      BY <1>0, <1>4 DEF Commit, ProvInv, TypeOK
    <3>2. team[change[c].team] \in Badges
      BY <1>0, <3>1 DEF ChangeInv, TypeOK
    <3>3. v # team[change[c].team]
      BY <3>2, EntitiesAssumption
    <3> QED
      BY <1>0, <1>4, <1>u, <2>1, <3>3 DEF Commit
  <2>2. CASE v \in change[c].vaults
    <3>1. change[c].state = "drafted" /\ ChangeInv(c) /\ change[c].signers \in SUBSET Keys
      BY <1>0, <1>4 DEF Commit, ProvInv, TypeOK, ChangeType
    <3>t. PICK t \in Teams : t = change[c].team
      BY <3>1 DEF ChangeInv
    <3>2. t \in Teams /\ team[t] # Null /\ <<t, v>> \in vault /\ change[c].signers # {}
      BY <2>2, <3>1, <3>t DEF ChangeInv
    <3>3. 1 \in 1..Cardinality(change[c].signers)
      BY <3>1, <3>2, KeysAssumption, FS_Subset, FS_CardinalityType, FS_EmptySet
    <3>4. /\ entity'[v].signers = change[c].signers /\ entity'[v].threshold = 1
          /\ entity'[v].team = entity[v].team /\ entity'[v].state = entity[v].state
      BY <1>0, <1>4, <2>2 DEF Commit, EntityType
    <3>5. team[t] \in Entities
      BY <1>0, <3>2 DEF TypeOK
    <3>6. change[c].signers \in past'[team[t]] /\ UNCHANGED <<team, vault>>
      BY <1>4, <3>5, <3>t DEF Commit, tables
    <3>7. OpenableBy(v, t)'
      BY <3>2, <3>4, <3>6 DEF OpenableBy
    <3>8. entity[v].state = "exists"
      BY <3>2 DEF ProvInv, RecordsExist
    <3>9. entity[v].team # Null => entity[v].team \in Teams /\ team[entity[v].team] # Null
      BY <1>0, <3>8 DEF Openable
    <3> QED
      BY <3>2, <3>3, <3>4, <3>6, <3>7, <3>9 DEF Openable
  <2> QED
    BY <2>1, <2>2
<1>5. ASSUME UNCHANGED entity
      PROVE  Openable(v)'
  BY <1>5, <1>u
<1> QED
  BY <1>1, <1>2, <1>3, <1>4, <1>5 DEF Next, Arrive, Continue, VaultGetById, ImportBegin, TeamPoll,
     TeamInsert, TeamAddMember, VaultValidate, VaultPoll, Poll, ImportValidate,
     InsertSelect, InsertInsert, ListVaults, Draft, Abort, vars, tables

-----------------------------------------------------------------------------
(* The theorems *)

\* The teams and accounts there from the start keep the invariant.
LEMMA ProvInvInit == Init => ProvInv
<1> SUFFICES ASSUME Init PROVE ProvInv
  OBVIOUS
<1> DEFINE By(e) == \E t \in DOMAIN Founded : Founded[t] = e
           Of(e) == CHOOSE t \in DOMAIN Founded : Founded[t] = e
<1>1. \A e \in Entities : By(e) => Of(e) \in DOMAIN Founded /\ Founded[Of(e)] = e
  OBVIOUS
<1>2. PICK there \in SUBSET Foreign : entity = [e \in Entities |->
        IF e \in there THEN Settled(Null)
        ELSE IF By(e) THEN Settled(Of(e)) ELSE Free]
  BY DEF Init
<1>3. /\ DOMAIN Founded \subseteq Teams /\ there \subseteq Vaults
      /\ \A t \in DOMAIN Founded : Founded[t] \in Badges /\ Founded[t] \notin there
      /\ \A t, u \in DOMAIN Founded : Founded[t] = Founded[u] => t = u
  BY FoundedAssumption, EntitiesAssumption
<1> HIDE DEF By, Of
<1>4. ASSUME NEW e \in Entities
      PROVE  /\ entity[e] \in EntityType
             /\ entity[e].team \in DOMAIN Founded => entity[e].team = Of(e) /\ By(e)
             /\ entity[e].team \notin DOMAIN Founded => entity[e].team = Null
             /\ entity[e].state \in {"exists", "free"}
             /\ ThereIs(e) => entity[e].signers = Keys /\ past[e] = {Keys}
             /\ entity[e].state = "free" => entity[e].team = Null
             /\ past[e] \in SUBSET (SUBSET Keys)
  <2>1. past[e] = IF entity[e] = Free THEN {} ELSE {Keys}
    BY DEF Init
  <2>2. CASE e \in there
    BY <1>2, <1>3, <2>1, <2>2 DEF Settled, Free, EntityType, ThereIs
  <2>3. CASE e \notin there /\ By(e)
    BY <1>1, <1>2, <1>3, <2>1, <2>3 DEF Settled, Free, EntityType, ThereIs
  <2>4. CASE e \notin there /\ ~ By(e)
    BY <1>2, <1>3, <2>1, <2>4 DEF Settled, Free, EntityType, ThereIs
  <2> QED
    BY <2>2, <2>3, <2>4
<1>5. \A t \in DOMAIN Founded : By(Founded[t]) /\ Of(Founded[t]) = t
  BY <1>1, <1>3 DEF By
<1>6. \A t \in DOMAIN Founded : entity[Founded[t]] = Settled(t)
  BY <1>2, <1>3, <1>5
<1>7. TypeOK
  <2>1. entity \in [Entities -> EntityType]
    BY <1>2, <1>4
  <2>2. past \in [Entities -> SUBSET (SUBSET Keys)]
    BY <1>4 DEF Init
  <2>3. team \in [Teams -> Badges \cup {Null}] /\ member \subseteq Teams \X Accounts
    BY <1>3 DEF Init
  <2>4. change \in [Changes -> ChangeType]
    BY DEF Init, ChangeType
  <2>5. req \in [Requests -> RequestType]
    BY DEF Init, Idle, RequestType
  <2>6. vault = {} /\ lost = {} /\ answers \in [Teams \X Vaults -> Nat]
    BY DEF Init
  <2> QED
    BY <2>1, <2>2, <2>3, <2>4, <2>5, <2>6 DEF TypeOK
<1>8. \A r \in Requests : TeamInv(r) /\ VaultInv(r)
  BY DEF Init, Idle, TeamInv, VaultInv, TeamPcs, VaultPcs, InsertPcs
<1>9. \A c \in Changes : ChangeInv(c)
  BY DEF Init, ChangeInv
<1>10. EntityInv
  <2>1. ASSUME NEW b \in Badges, NEW c \in Badges,
               entity[b].team # Null, entity[b].team = entity[c].team
        PROVE  b = c
    BY <1>1, <1>4, <2>1
  <2> QED
    BY <1>4, <2>1 DEF EntityInv
<1>11. \A v \in Vaults : entity[v].team = Null
  BY <1>1, <1>3, <1>4, EntitiesAssumption
<1>12. OpenableInv
  BY <1>11 DEF OpenableInv
<1>13. RecordsExist
  <2>1. \A t \in Teams : team[t] = IF t \in DOMAIN Founded THEN Founded[t] ELSE Null
    BY DEF Init
  <2>2. \A t \in DOMAIN Founded : Founded[t] # Null
    BY <1>3
  <2>3. ASSUME NEW t \in DOMAIN Founded
        PROVE  entity[Founded[t]].state = "exists" /\ entity[Founded[t]].team = t
    <3>1. entity[Founded[t]] = Settled(t)
      BY <1>6
    <3> QED
      BY <3>1 DEF Settled
  <2> QED
    BY <1>3, <2>1, <2>2, <2>3 DEF RecordsExist, Init
<1>14. ReportedOnce
  BY DEF Init, ReportedOnce
<1> QED
  BY <1>7, <1>8, <1>9, <1>10, <1>12, <1>13, <1>14 DEF ProvInv

\* Whatever creations, imports, proposals and faults overlap, requests and rows
\* know what ProvInv says they do.
THEOREM ProvInvariance == Spec => []ProvInv
<1>1. Init => ProvInv
  BY ProvInvInit
<1>2. ProvInv /\ [Next]_vars => ProvInv'
  BY ProvTypeStep, ProvRequestStep, ProvChangeStep, EntityStep, OpenableStep,
     RecordsExistStep, ReportedOnceStep DEF ProvInv
<1> QED
  BY <1>1, <1>2, PTL DEF Spec

\* What the tables of teams, members and vaults name is on the ledger: the inserts
\* of createTeam, createVault and importVault never run ahead of it.
THEOREM RecordsSafety == Spec => []RecordsExist
<1>1. ProvInv => RecordsExist
  BY DEF ProvInv
<1> QED
  BY <1>1, ProvInvariance, PTL

\* A vault of createVault keeps a threshold its signers can reach, and signers a
\* team's badge has had, under any team proposals drafted before or after it.
THEOREM OpenableSafety == Spec => []VaultsAreOpenable
<1>1. ProvInv => VaultsAreOpenable
  BY DEF ProvInv, OpenableInv, VaultsAreOpenable
<1> QED
  BY <1>1, ProvInvariance, PTL

\* Of overlapping creations and imports of a vault one reports success, because of
\* the primary key that the insert goes through.
THEOREM ReportSafety == Spec => []ReportedOnce
<1>1. ProvInv => ReportedOnce
  BY DEF ProvInv
<1> QED
  BY <1>1, ProvInvariance, PTL
=============================================================================
