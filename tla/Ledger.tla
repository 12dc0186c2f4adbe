------------------------------- MODULE Ledger -------------------------------
(***************************************************************************)
(* The Radix ledger and Gateway, as far as the server can observe them:    *)
(* the owner rule of every entity (a vault account or a badge resource),   *)
(* the transaction intents handed to the Gateway, and network time.        *)
(*                                                                         *)
(* The ledger itself is external code.  What is modelled of it is what the *)
(* handlers rely on: a subintent commits successfully at most once, before *)
(* its deadline, and only if distinct keys that signed it satisfy the rule *)
(* in force at that moment; everything else (how fast it commits, whether  *)
(* it is refused, when other transactions change a rule) is left open.     *)
(***************************************************************************)
EXTENDS Integers, FiniteSets

CONSTANTS
  Proposals,   \* ids of proposals; each also names its own subintent
  Entities,    \* on-ledger entities with an owner rule
  Keys,        \* public keys; a key hash is the key itself
  Rules,       \* the owner rules an entity may have
  Intents,     \* transaction intent hashes (bounds the number of submissions)
  MaxTime,     \* bound on the clock
  Null         \* the absent value of a nullable column or local variable

RuleType == [type : {"CountOf", "AllOf"}, count : Nat, signers : SUBSET Keys]

ASSUME RulesAssumption == Rules \subseteq RuleType
ASSUME KeysAssumption == IsFiniteSet(Keys)
ASSUME MaxTimeAssumption == MaxTime \in Nat
ASSUME NullAssumption ==
  Null \notin Proposals \cup Entities \cup Keys \cup Rules \cup Intents

VARIABLES
  rule,    \* [Entities -> Rules], the owner rule in force
  past,    \* history: every rule an entity has ever had
  intent,  \* [Intents -> IntentType], the transactions the Gateway knows
  now      \* network time

ledgerVars == <<rule, past, intent, now>>

IntentStates == {"absent", "pending", "success", "failure", "rejected"}

IntentType ==
  [state : IntentStates, proposal : Proposals \cup {Null}, keys : SUBSET Keys]

Absent == [state |-> "absent", proposal |-> Null, keys |-> {}]

LedgerTypeOK ==
  /\ rule \in [Entities -> Rules]
  /\ past \in [Entities -> SUBSET Rules]
  /\ intent \in [Intents -> IntentType]
  /\ now \in 0 .. MaxTime

LedgerInit ==
  /\ rule \in [Entities -> Rules]
  /\ past = [e \in Entities |-> {rule[e]}]
  /\ intent = [i \in Intents |-> Absent]
  /\ now = 0

-----------------------------------------------------------------------------
(* What the server computes from a rule. *)

\* The number of signatures a handler asks for.
Threshold(ru) == IF ru.type = "CountOf" THEN ru.count ELSE Cardinality(ru.signers)

\* What the ledger asks for: enough distinct keys of the rule.
Satisfies(keys, ru) == Cardinality(keys \cap ru.signers) >= Threshold(ru)

-----------------------------------------------------------------------------
(* What the Gateway knows of intents. *)

Handed(p) == {i \in Intents : intent[i].proposal = p}

Executed(p) == \E i \in Handed(p) : intent[i].state = "success"

\* The statuses the checker may report of an intent: the Gateway may lag
\* behind the ledger, and a status the checker does not know is "Unknown".
View(state) ==
  CASE state = "success"  -> {"CommittedSuccess", "Pending", "Unknown"}
    [] state = "failure"  -> {"CommittedFailure", "Pending", "Unknown"}
    [] state = "rejected" -> {"Rejected", "Pending", "Unknown"}
    [] OTHER              -> {"Pending", "Unknown"}

\* submitWithSubintent: every call takes a fresh transaction header, so the
\* same subintent is wrapped in a new intent each time.
SubmitWithSubintent(i, p, keys) ==
  /\ intent[i].state = "absent"
  /\ intent' = [intent EXCEPT ![i] =
                  [state |-> "pending", proposal |-> p, keys |-> keys]]

-----------------------------------------------------------------------------
(* The ledger's own steps. *)

\* A subintent commits: it had not committed before, time is before its
\* deadline, and the signers satisfy the rule of every entity it touches.
Execute(i, touched, deadline) ==
  /\ intent[i].state = "pending"
  /\ ~ Executed(intent[i].proposal)
  /\ now < deadline
  /\ \A e \in touched : Satisfies(intent[i].keys, rule[e])
  /\ intent' = [intent EXCEPT ![i].state = "success"]

\* The transaction fails after its fee is locked, or is rejected outright.
Refuse(i) ==
  /\ intent[i].state = "pending"
  /\ \E s \in {"failure", "rejected"} :
       intent' = [intent EXCEPT ![i].state = s]

\* Some other transaction changes the owner rule of e.
ChangeRule(e) ==
  \E ru \in Rules \ {rule[e]} :
    /\ rule' = [rule EXCEPT ![e] = ru]
    /\ past' = [past EXCEPT ![e] = @ \cup {ru}]

Tick ==
  /\ now < MaxTime
  /\ now' = now + 1
=============================================================================
