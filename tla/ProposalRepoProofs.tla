------------------------- MODULE ProposalRepoProofs -------------------------
(***************************************************************************)
(* What the statements on proposals and signatures and the steps of the    *)
(* ledger preserve, whichever handlers take them: types, and all that is   *)
(* never taken back.  VaultProofs and TeamProofs build on it.              *)
(***************************************************************************)
EXTENDS ProposalRepo, FiniteSetTheorems, TLAPS

USE NullAssumption, NullColumnAssumption

-----------------------------------------------------------------------------
(* Types *)

RowTypeOK == row \in [Proposals -> RowType]

\* The statuses the handlers write are statuses, and the absence of a row is none.
LEMMA KnownStatuses ==
  /\ {"expired", "invalid", "ready", "signing", "committed", "failed"} \subseteq Statuses
  /\ {"absent", Null} \cap Statuses = {}
BY DEF Statuses, PendingStatuses, TerminalStatuses

\* Writing a status, or a submission, keeps the table well typed.
LEMMA RowTypes ==
  ASSUME RowTypeOK, NEW p \in Proposals
  PROVE  /\ \A s \in Statuses : UpdateStatus(p, s) => RowTypeOK'
         /\ \A i \in Intents : SetSubmitted(p, i) => RowTypeOK'
         /\ \A e \in Entities, d \in Deadlines : Insert(p, e, d) => RowTypeOK'
         /\ ExpirePending => RowTypeOK'
<1>1. {"submitted", "created", "expired"} \subseteq Statuses
  BY DEF Statuses, PendingStatuses, TerminalStatuses
<1> USE <1>1 DEF RowTypeOK, RowType
<1>0. row[p] \in RowType
  OBVIOUS
<1>2. ASSUME NEW s \in Statuses, UpdateStatus(p, s)
      PROVE  RowTypeOK'
  <2>1. [row[p] EXCEPT !.status = s] \in RowType
    BY <1>0
  <2> QED
    BY <1>2, <2>1 DEF UpdateStatus
<1>3. ASSUME NEW i \in Intents, SetSubmitted(p, i)
      PROVE  RowTypeOK'
  BY <1>0, <1>3 DEF SetSubmitted
<1>4. ASSUME NEW e \in Entities, NEW d \in Deadlines, Insert(p, e, d)
      PROVE  RowTypeOK'
  BY <1>4 DEF Insert
<1>5. ExpirePending => RowTypeOK'
  BY DEF ExpirePending
<1> QED
  BY <1>2, <1>3, <1>4, <1>5

\* Intents that are handed over or settled stay well typed.
LEMMA IntentTypes ==
  ASSUME LedgerTypeOK, NEW i \in Intents
  PROVE  /\ \A p \in Proposals, keys \in SUBSET Keys :
              SubmitWithSubintent(i, p, keys) => intent' \in [Intents -> IntentType]
         /\ \A touched, d : Execute(i, touched, d) => intent' \in [Intents -> IntentType]
         /\ Refuse(i) => intent' \in [Intents -> IntentType]
BY DEF SubmitWithSubintent, Execute, Refuse, IntentType, IntentStates, LedgerTypeOK

\* A handler's threshold is a number of signatures, whatever the rule.
LEMMA ThresholdType == \A ru \in Rules : Threshold(ru) \in Nat
<1> SUFFICES ASSUME NEW ru \in Rules PROVE Threshold(ru) \in Nat
  OBVIOUS
<1>1. ru.count \in Nat /\ ru.signers \subseteq Keys
  BY RulesAssumption DEF RuleType
<1>2. Cardinality(ru.signers) \in Nat
  BY <1>1, KeysAssumption, FS_Subset, FS_CardinalityType
<1> QED
  BY <1>1, <1>2 DEF Threshold

-----------------------------------------------------------------------------
(* What never goes away *)

\* Signatures, the identity of a proposal and the fact that it was submitted.
RowsGrow ==
  \A p \in Proposals :
    /\ signature[p] \subseteq signature'[p]
    /\ row[p].status # "absent" =>
         /\ row'[p].status # "absent"
         /\ row'[p].entity = row[p].entity
         /\ row'[p].deadline = row[p].deadline
    /\ row[p].hash # Null => row'[p].hash # Null

\* What an intent carries, and the verdict of the ledger on it.
IntentsGrow ==
  \A i \in Intents :
    /\ intent[i].proposal # Null =>
         intent'[i].proposal = intent[i].proposal /\ intent'[i].keys = intent[i].keys
    /\ intent[i].state \in {"success", "failure", "rejected"} =>
         intent'[i].state = intent[i].state

\* Facts on record stay on record.
Grows ==
  /\ RowsGrow
  /\ IntentsGrow
  /\ now <= now'
  /\ \A e \in Entities : past[e] \subseteq past'[e]

\* No statement of the server takes a fact off the record.
LEMMA StatementsGrow ==
  ASSUME RepoTypeOK, \A q \in Proposals : row[q].status = "absent" => row[q].hash = Null,
         NEW p \in Proposals
  PROVE  /\ UNCHANGED repoVars => RowsGrow
         /\ \A s \in Statuses : UpdateStatus(p, s) => RowsGrow
         /\ \A i \in Intents : SetSubmitted(p, i) => RowsGrow
         /\ \A a, k : AddSignature(p, a, k) => RowsGrow
         /\ \A e \in Entities, d \in Deadlines : Insert(p, e, d) => RowsGrow
         /\ ExpirePending => RowsGrow
<1> USE DEF RowsGrow
<1>0. RowTypeOK /\ signature \in [Proposals -> SUBSET SignatureType]
  BY DEF RepoTypeOK, RowTypeOK
<1>1. UNCHANGED repoVars => RowsGrow
  BY DEF repoVars
<1>2. ASSUME NEW s \in Statuses, UpdateStatus(p, s)
      PROVE  RowsGrow
  BY <1>0, <1>2, KnownStatuses DEF UpdateStatus, RowTypeOK, RowType
<1>3. ASSUME NEW i \in Intents, SetSubmitted(p, i)
      PROVE  RowsGrow
  BY <1>0, <1>3 DEF SetSubmitted, RowTypeOK, RowType
<1>4. ASSUME NEW a, NEW k, AddSignature(p, a, k)
      PROVE  RowsGrow
  <2>1. row' = row /\ \A q \in Proposals : signature[q] \subseteq signature'[q]
    BY <1>0, <1>4 DEF AddSignature
  <2> QED
    BY <2>1
<1>5. ASSUME NEW e \in Entities, NEW d \in Deadlines, Insert(p, e, d)
      PROVE  RowsGrow
  BY <1>0, <1>5 DEF Insert, RowTypeOK, RowType
<1>6. ExpirePending => RowsGrow
  BY <1>0 DEF ExpirePending, RowTypeOK, RowType
<1> QED
  BY <1>1, <1>2, <1>3, <1>4, <1>5, <1>6

\* The ledger does not go back on an intent.
LEMMA VerdictsGrow ==
  ASSUME LedgerTypeOK,
         \A j \in Intents : intent[j].state = "absent" => intent[j].proposal = Null,
         NEW i \in Intents
  PROVE  /\ UNCHANGED intent => IntentsGrow
         /\ \A p, keys : SubmitWithSubintent(i, p, keys) => IntentsGrow
         /\ \A touched, d : Execute(i, touched, d) => IntentsGrow
         /\ Refuse(i) => IntentsGrow
BY DEF IntentsGrow, SubmitWithSubintent, Execute, Refuse, LedgerTypeOK, IntentType

\* The ledger's verdicts on the transactions of a proposal are final.
LEMMA VerdictsStay ==
  ASSUME Grows, NEW p \in Proposals
  PROVE  /\ \A i \in Intents : intent[i].proposal = p => intent'[i].proposal = p
         /\ Executed(p) => Executed(p)'
         /\ (\E i \in Handed(p) : intent[i].state \in {"failure", "rejected"}) =>
              (\E i \in Handed(p) : intent[i].state \in {"failure", "rejected"})'
<1>1. \A i \in Intents : intent[i].proposal = p => intent'[i].proposal = p
  BY DEF Grows, IntentsGrow
<1>2. ASSUME NEW i \in Handed(p), intent[i].state \in {"success", "failure", "rejected"}
      PROVE  i \in Handed(p)' /\ intent'[i].state = intent[i].state
  BY <1>2 DEF Handed, Grows, IntentsGrow
<1> QED
  BY <1>1, <1>2 DEF Executed

\* Nor does time: a proposal that is late stays late.
LEMMA LapsedStays ==
  ASSUME RepoTypeOK, LedgerTypeOK, LedgerTypeOK', Grows, NEW p \in Proposals,
         row[p].status # "absent"
  PROVE  /\ IsExpired(p) => Lapsed(p)
         /\ Lapsed(p) => Lapsed(p)'
<1>1. row[p] \in RowType
  BY DEF RepoTypeOK
<1>2. row[p].deadline \in Nat
  <2>1. row[p].deadline \in Deadlines \cup {0}
    BY <1>1 DEF RowType
  <2>2. Deadlines \cup {0} \subseteq Nat
    BY DeadlinesAssumption
  <2> QED
    BY <2>1, <2>2
<1>3. now \in Nat /\ now' \in Nat /\ now <= now'
  BY MaxTimeAssumption DEF LedgerTypeOK, Grows
<1>4. row'[p].deadline = row[p].deadline
  BY DEF Grows, RowsGrow
<1> QED
  BY <1>2, <1>3, <1>4 DEF Lapsed, IsExpired

-----------------------------------------------------------------------------
(* Statements and ledger steps as steps of the glossary's state machine      *)

\* The edges a handler may write a status along, and what each takes.
Edge(p, s) ==
  \/ s = "signing" /\ row[p].status = "created"
  \/ s = "ready" /\ row[p].status \in {"created", "signing"}
  \/ s = "expired" /\ row[p].status \in PendingStatuses /\ Handed(p) = {}
  \/ s = "invalid" /\ row[p].status = "ready" /\ Handed(p) = {}
  \/ s = "committed" /\ row[p].status = "submitted" /\ Executed(p)
  \/ s = "failed" /\ row[p].status = "submitted" /\ Refused(p)

\* While a proposal was handed over at most once, a refusal excludes an execution.
LEMMA OneVerdict ==
  ASSUME NEW p, HandedOnce(p)
  PROVE  /\ Refused(p) => ~ Executed(p)
         /\ (\E i \in Handed(p) : intent[i].state \in {"failure", "rejected"}) => Refused(p)
BY DEF HandedOnce, Refused, Executed

\* What the glossary sees of the ledger changes with its intents only.
LEMMA LedgerSeen ==
  ASSUME UNCHANGED intent
  PROVE  UNCHANGED <<HandedOver, Outcome>>
<1>1. \A p \in Proposals : Handed(p)' = Handed(p)
  BY DEF Handed
<1>2. \A p \in Proposals :
        (Executed(p)' <=> Executed(p)) /\ (Refused(p)' <=> Refused(p))
  BY <1>1 DEF Executed, Refused
<1> QED
  BY <1>1, <1>2 DEF HandedOver, Outcome

LEMMA NothingSeen ==
  ASSUME UNCHANGED <<row, intent>>
  PROVE  UNCHANGED Glossary!statusVars
BY LedgerSeen DEF StatusOf, Glossary!statusVars

\* One row gets a status.
LEMMA StatusSeen ==
  ASSUME NEW p \in Proposals, NEW s,
         \A q \in Proposals : row'[q].status = IF q = p THEN s ELSE row[q].status
  PROVE  StatusOf[p] = row[p].status /\ StatusOf' = [StatusOf EXCEPT ![p] = s]
BY DEF StatusOf

LEMMA SeenOf ==
  ASSUME NEW p \in Proposals
  PROVE  /\ StatusOf[p] = row[p].status
         /\ HandedOver[p] = (Handed(p) # {})
         /\ Executed(p) => Outcome[p] = "executed"
         /\ Refused(p) /\ ~ Executed(p) => Outcome[p] = "refused"
         /\ ~ Refused(p) /\ ~ Executed(p) => Outcome[p] = "open"
BY DEF StatusOf, HandedOver, Outcome

LEMMA InsertionStep ==
  ASSUME RowTypeOK, NEW p \in Proposals, NEW e, NEW d, Insert(p, e, d), UNCHANGED intent
  PROVE  Glossary!Next
<1>1. /\ row[p].status = "absent"
      /\ \A q \in Proposals : row'[q].status = IF q = p THEN "created" ELSE row[q].status
  BY DEF Insert, RowTypeOK
<1>2. StatusOf[p] = "absent" /\ StatusOf' = [StatusOf EXCEPT ![p] = "created"]
  BY <1>1, StatusSeen
<1>3. Glossary!Create(p)
  BY <1>2, LedgerSeen DEF Glossary!Create, Glossary!Move
<1> QED
  BY <1>3 DEF Glossary!Next

\* A status written along an edge.
LEMMA EdgeStep ==
  ASSUME RowTypeOK, NEW p \in Proposals, HandedOnce(p), NEW s \in Statuses, UpdateStatus(p, s),
         Edge(p, s), UNCHANGED intent
  PROVE  Glossary!Next
<1>1. \A q \in Proposals : row'[q].status = IF q = p THEN s ELSE row[q].status
  BY DEF UpdateStatus, RowTypeOK, RowType
<1>2. StatusOf[p] = row[p].status /\ StatusOf' = [StatusOf EXCEPT ![p] = s]
  BY <1>1, StatusSeen
<1>3. UNCHANGED <<HandedOver, Outcome>>
  BY LedgerSeen
<1>4. HandedOver[p] = (Handed(p) # {})
  BY SeenOf
<1>5. CASE s \in {"signing", "ready"} /\ row[p].status \in {"created", "signing"}
              /\ (s = "signing" => row[p].status = "created")
  <2>1. Glossary!Collect(p)
    BY <1>2, <1>3, <1>5 DEF Glossary!Collect, Glossary!Move
  <2> QED
    BY <2>1 DEF Glossary!Next
<1>6. CASE s = "expired" /\ row[p].status \in PendingStatuses /\ Handed(p) = {}
  <2>1. {p} \in SUBSET {q \in Proposals : StatusOf[q] \in Glossary!Pending /\ ~ HandedOver[q]}
    BY <1>2, <1>4, <1>6 DEF PendingStatuses, Glossary!Pending
  <2>2. StatusOf' = [q \in Proposals |-> IF q \in {p} THEN "expired" ELSE StatusOf[q]]
    BY <1>1, <1>6 DEF StatusOf
  <2>3. Glossary!Lapse
    BY <1>3, <2>1, <2>2 DEF Glossary!Lapse
  <2> QED
    BY <2>3 DEF Glossary!Next
<1>7. CASE s = "invalid" /\ row[p].status = "ready" /\ Handed(p) = {}
  <2>1. Glossary!Invalidate(p)
    BY <1>2, <1>3, <1>4, <1>7 DEF Glossary!Invalidate, Glossary!Move
  <2> QED
    BY <2>1 DEF Glossary!Next
<1>8. CASE /\ row[p].status = "submitted"
           /\ \/ s = "committed" /\ Executed(p)
              \/ s = "failed" /\ Refused(p)
  <2>1. \/ s = "committed" /\ Outcome[p] = "executed"
        \/ s = "failed" /\ Outcome[p] = "refused"
    BY <1>8, OneVerdict, SeenOf
  <2>2. Glossary!Report(p)
    BY <1>2, <1>3, <1>8, <2>1 DEF Glossary!Report, Glossary!Move
  <2> QED
    BY <2>2 DEF Glossary!Next
<1>9. CASE s = "signing" /\ row[p].status = "created"
  BY <1>5, <1>9
<1>10. CASE s = "ready" /\ row[p].status \in {"created", "signing"}
  BY <1>5, <1>10
<1> QED
  BY <1>6, <1>7, <1>8, <1>9, <1>10, Zenon DEF Edge

\* The dashboard's sweep, of proposals none of which was handed over.
LEMMA SweepStep ==
  ASSUME RowTypeOK, ExpirePending, UNCHANGED intent,
         \A p \in Proposals : Sweeps(p) => Handed(p) = {}
  PROVE  Glossary!Next
<1> DEFINE late == {p \in Proposals : Sweeps(p)}
<1>1. \A p \in Proposals : p \in late => row[p].status \in PendingStatuses
  BY DEF Sweeps
<1>2. \A p \in Proposals : p \in late => ~ HandedOver[p]
  BY SeenOf
<1>3. late \in SUBSET {p \in Proposals : StatusOf[p] \in Glossary!Pending /\ ~ HandedOver[p]}
  BY <1>1, <1>2, SeenOf DEF PendingStatuses, Glossary!Pending
<1>4. \A p \in Proposals :
        row'[p].status = IF p \in late THEN "expired" ELSE row[p].status
  BY DEF ExpirePending, RowTypeOK, RowType
<1> HIDE DEF late
<1>5. StatusOf' = [p \in Proposals |-> IF p \in late THEN "expired" ELSE StatusOf[p]]
  BY <1>4 DEF StatusOf
<1>6. Glossary!Lapse
  BY <1>3, <1>5, LedgerSeen DEF Glossary!Lapse
<1> QED
  BY <1>6 DEF Glossary!Next

\* The record of a submission.
LEMMA RecordStep ==
  ASSUME RowTypeOK, NEW p \in Proposals, NEW i \in Intents, SetSubmitted(p, i),
         row[p].status = "ready", Handed(p) # {}, UNCHANGED intent
  PROVE  Glossary!Next
<1>1. \A q \in Proposals : row'[q].status = IF q = p THEN "submitted" ELSE row[q].status
  BY DEF SetSubmitted, RowTypeOK, RowType
<1>2. StatusOf[p] = "ready" /\ StatusOf' = [StatusOf EXCEPT ![p] = "submitted"]
  BY <1>1, StatusSeen
<1>3. Glossary!Submitted(p)
  BY <1>2, LedgerSeen, SeenOf DEF Glossary!Submitted, Glossary!Move
<1> QED
  BY <1>3 DEF Glossary!Next

\* A ready proposal is handed over for the first time.
LEMMA HandOverStep ==
  ASSUME LedgerTypeOK, NEW p \in Proposals, NEW i \in Intents, NEW keys,
         SubmitWithSubintent(i, p, keys),
         intent[i].state = "absent" => intent[i].proposal = Null,
         row[p].status = "ready", Handed(p) = {}, UNCHANGED row
  PROVE  /\ Glossary!Next
         /\ Handed(p)' = {i}
         /\ \A q \in Proposals : q # p => Handed(q)' = Handed(q)
<1>0. intent \in [Intents -> IntentType] /\ intent[i].proposal = Null /\ Null \notin Proposals
  BY DEF LedgerTypeOK, SubmitWithSubintent
<1>1. /\ \A j \in Intents : j # i => intent'[j] = intent[j]
      /\ intent'[i].proposal = p /\ intent'[i].state = "pending"
  BY <1>0 DEF SubmitWithSubintent
<1>2. Handed(p)' = {i}
  BY <1>1 DEF Handed
<1>3. \A q \in Proposals : q # p => Handed(q)' = Handed(q) /\ i \notin Handed(q)
  BY <1>0, <1>1 DEF Handed
<1>4. \A q \in Proposals : q # p =>
        (Executed(q)' <=> Executed(q)) /\ (Refused(q)' <=> Refused(q))
  <2>1. \A q \in Proposals : \A j \in Handed(q) : j # i /\ q # p => intent'[j] = intent[j]
    BY <1>1 DEF Handed
  <2> QED
    BY <1>3, <2>1 DEF Executed, Refused
<1>5. ~ Executed(p)' /\ ~ Refused(p)' /\ ~ Executed(p) /\ ~ Refused(p)
  BY <1>1, <1>2 DEF Executed, Refused
<1>6. HandedOver' = [HandedOver EXCEPT ![p] = TRUE]
  BY <1>2, <1>3 DEF HandedOver
<1>7. Outcome' = Outcome
  BY <1>4, <1>5 DEF Outcome
<1>8. UNCHANGED StatusOf
  BY DEF StatusOf
<1>9. StatusOf[p] = "ready" /\ ~ HandedOver[p]
  BY SeenOf
<1>10. Glossary!HandOver(p)
  BY <1>6, <1>7, <1>8, <1>9 DEF Glossary!HandOver
<1> QED
  BY <1>2, <1>3, <1>10 DEF Glossary!Next

\* The ledger settles the one transaction of a proposal.
LEMMA VerdictStep ==
  ASSUME LedgerTypeOK, NEW i \in Intents, intent[i].proposal \in Proposals,
         HandedOnce(intent[i].proposal), UNCHANGED row,
         Refuse(i) \/ \E touched, d : Execute(i, touched, d)
  PROVE  /\ Glossary!Next
         /\ \A q \in Proposals : Handed(q)' = Handed(q)
<1>p. PICK p \in Proposals : p = intent[i].proposal
  OBVIOUS
<1>0. intent \in [Intents -> IntentType]
  BY DEF LedgerTypeOK
<1>1. PICK s \in {"success", "failure", "rejected"} : intent' = [intent EXCEPT ![i].state = s]
  BY DEF Refuse, Execute
<1>2. intent[i].state = "pending" /\ i \in Handed(p) /\ \A j \in Handed(p) : j = i
  BY <1>p DEF Refuse, Execute, Handed, HandedOnce
<1>3. /\ \A j \in Intents : j # i => intent'[j] = intent[j]
      /\ \A j \in Intents : intent'[j].proposal = intent[j].proposal
      /\ intent'[i].state = s
  BY <1>0, <1>1 DEF IntentType
<1>4. \A q \in Proposals : Handed(q)' = Handed(q)
  BY <1>3 DEF Handed
<1>5. \A q \in Proposals : q # p => i \notin Handed(q)
  BY <1>p DEF Handed
<1>6. \A q \in Proposals : q # p =>
        (Executed(q)' <=> Executed(q)) /\ (Refused(q)' <=> Refused(q))
  <2>1. \A q \in Proposals : \A j \in Handed(q) : q # p => intent'[j] = intent[j]
    BY <1>3, <1>5 DEF Handed
  <2> QED
    BY <1>4, <2>1 DEF Executed, Refused
<1>7. ~ Executed(p) /\ ~ Refused(p)
  BY <1>2 DEF Executed, Refused
<1>8. Handed(p)' = Handed(p)
  BY <1>4
<1>9. /\ Executed(p)' <=> s = "success"
      /\ Refused(p)' <=> s \in {"failure", "rejected"}
  BY <1>2, <1>3, <1>8 DEF Executed, Refused
<1>10. UNCHANGED <<StatusOf, HandedOver>>
  BY <1>4 DEF StatusOf, HandedOver
<1> DEFINE o == IF s = "success" THEN "executed" ELSE "refused"
<1>11. Outcome' = [Outcome EXCEPT ![p] = o]
  BY <1>6, <1>9 DEF Outcome
<1>12. HandedOver[p] /\ Outcome[p] = "open"
  BY <1>2, <1>7, SeenOf
<1>13. Glossary!Decide(p)
  BY <1>10, <1>11, <1>12 DEF Glossary!Decide
<1> QED
  BY <1>4, <1>13 DEF Glossary!Next

LEMMA GlossaryStart ==
  ASSUME LedgerInit, RepoInit
  PROVE  Glossary!Init
<1>1. \A p \in Proposals : Handed(p) = {} /\ row[p].status = "absent"
  BY DEF LedgerInit, RepoInit, Handed, Absent, NoRow
<1>2. \A p \in Proposals : ~ Executed(p) /\ ~ Refused(p)
  BY <1>1 DEF Executed, Refused
<1> QED
  BY <1>1, <1>2 DEF Glossary!Init, StatusOf, HandedOver, Outcome
=============================================================================
