------------------------- MODULE AccessRulesProofs -------------------------
(***************************************************************************)
(* Proofs about AccessRules: that a rule read back, changed and written    *)
(* again stays the rule its members asked for, through any number of       *)
(* rounds, for any signers, vaults and thresholds.                         *)
(***************************************************************************)
EXTENDS AccessRules, FiniteSetTheorems, SequenceTheorems, TLAPS

(* Texts: as they are typed, entered into a rule, and shown by the ledger. *)

AnyText ==
  [resource : Resources, key : LocalIds, form : {"lower", "upper", "bare"}]

\* All signers of a list are keys, as far as the local id goes.
Keyed(list) == \A i \in DOMAIN list : list[i].key \in Keys

\* All signers of a list are signature badges.
Genuine(list) == \A i \in DOMAIN list : list[i].resource \in SignatureBadges

LEMMA CanonicalText ==
  ASSUME NEW t \in AnyText
  PROVE  /\ Canonical(t) \in LedgerText
         /\ Canonical(t).resource = t.resource /\ Canonical(t).key = t.key
         /\ Ident(Canonical(t)) = Ident(t)
         /\ t.form = "lower" => Canonical(t) = t
BY DEF AnyText, LedgerText, Canonical, Ident

LEMMA EntryText ==
  ASSUME NEW t \in AnyText
  PROVE  /\ Entry(t) \in AnyText /\ Entry(t).key = t.key /\ Entry(t).form = t.form
         /\ Entry(t).resource \in SignatureBadges
         /\ t.resource \in SignatureBadges => Entry(t) = t
BY DEF AnyText, Entry, SignatureBadges, Resources

LEMMA LedgerTexts == LedgerText \subseteq AnyText
BY DEF LedgerText, AnyText

\* On the ledger the spelling is gone, so a text is its signer.
LEMMA IdentIsText ==
  ASSUME NEW s \in LedgerText, NEW t \in LedgerText, Ident(s) = Ident(t)
  PROVE  s = t
BY DEF LedgerText, Ident

-----------------------------------------------------------------------------
(* Rules: what the manifests write. *)

\* Committed, a rule has the same signers in canonical spelling.
LEMMA CommittedRule ==
  ASSUME NEW kind \in {"Require", "AllOf", "CountOf"}, NEW n \in Nat,
         NEW list \in Seq(AnyText), NEW r,
         r = [type |-> kind, count |-> n, list |-> list]
  PROVE  /\ OnLedger(r) \in RuleType
         /\ OnLedger(r).type = kind /\ OnLedger(r).count = n
         /\ OnLedger(r).list \in Seq(LedgerText)
         /\ DOMAIN OnLedger(r).list = DOMAIN list /\ Len(OnLedger(r).list) = Len(list)
         /\ \A i \in DOMAIN list : OnLedger(r).list[i] = Canonical(list[i])
<1> DEFINE shown == [i \in DOMAIN list |-> Canonical(list[i])]
<1>1. OnLedger(r) = [type |-> kind, count |-> n, list |-> shown]
  BY DEF OnLedger
<1>2. Len(list) \in Nat /\ DOMAIN list = 1..Len(list)
  OBVIOUS
<1>3. \A i \in 1..Len(list) : shown[i] \in LedgerText
  BY <1>2, CanonicalText
<1>4. shown \in Seq(LedgerText) /\ Len(shown) = Len(list)
  BY <1>2, <1>3, IsASeq
<1>5. \A i \in DOMAIN list : shown[i] = Canonical(list[i])
  OBVIOUS
<1>6. DOMAIN shown = DOMAIN list
  OBVIOUS
<1> HIDE DEF shown
<1> QED
  BY <1>1, <1>4, <1>5, <1>6 DEF RuleType

\* AllOf when the threshold is the number of signers, CountOf otherwise.
LEMMA MadeRule ==
  ASSUME NEW list \in Seq(AnyText), NEW n \in Nat \ {0}, n <= Len(list), NEW o,
         o = OnLedger(RuleOf(list, n))
  PROVE  /\ o \in RuleType /\ o.type \in {"AllOf", "CountOf"}
         /\ o.count = n /\ (o.type # "CountOf" => o.count = Len(o.list))
         /\ o.list # <<>> /\ o.list \in Seq(LedgerText)
         /\ DOMAIN o.list = DOMAIN list
         /\ \A i \in DOMAIN list : o.list[i] = Canonical(list[i])
<1>1. PICK kind \in {"AllOf", "CountOf"} :
        /\ RuleOf(list, n) = [type |-> kind, count |-> n, list |-> list]
        /\ kind # "CountOf" => n = Len(list)
  BY DEF RuleOf, AllOf, CountOf
<1>2. /\ o \in RuleType /\ o.type = kind /\ o.count = n
      /\ o.list \in Seq(LedgerText)
      /\ DOMAIN o.list = DOMAIN list /\ Len(o.list) = Len(list)
      /\ \A i \in DOMAIN list : o.list[i] = Canonical(list[i])
  BY <1>1, CommittedRule
<1>3. o.list # <<>>
  BY <1>2, EmptySeq
<1> QED
  BY <1>1, <1>2, <1>3

\* What a list becomes when its signers are entered into a new rule.
LEMMA EnteredList ==
  ASSUME NEW signers \in Seq(AnyText), NEW made \in Seq(LedgerText),
         DOMAIN made = DOMAIN signers,
         \A i \in DOMAIN signers : made[i] = Canonical(Entry(signers[i]))
  PROVE  /\ Genuine(made) /\ (Keyed(signers) => Keyed(made))
         /\ Genuine(signers) => /\ Idents(made) = Idents(signers)
                                /\ NamedOnce(signers) => NamedOnce(made)
         /\ Genuine(signers) /\ (\A i \in DOMAIN signers : signers[i].form = "lower") =>
              \A i \in DOMAIN signers : made[i] = signers[i]
<1>1. \A i \in DOMAIN signers : signers[i] \in AnyText /\ Entry(signers[i]) \in AnyText
  BY ElementOfSeq, EntryText
<1>2. \A i \in DOMAIN signers :
        /\ made[i].resource \in SignatureBadges /\ made[i].key = signers[i].key
        /\ signers[i].resource \in SignatureBadges =>
             /\ Ident(made[i]) = Ident(signers[i])
             /\ signers[i].form = "lower" => made[i] = signers[i]
  BY <1>1, EntryText, CanonicalText
<1> QED
  BY <1>2 DEF Genuine, Keyed, Idents, NamedOnce

\* SET_OWNER_ROLE with a list of signers, for one entity.
LEMMA OwnerRule ==
  ASSUME NEW signers \in Seq(AnyText), NEW n \in Nat \ {0}, n <= Len(signers), NEW o,
         o = OnLedger(MultisigRule(signers, n))
  PROVE  /\ o \in RuleType /\ o.type \in {"AllOf", "CountOf"}
         /\ o.count = n /\ (o.type # "CountOf" => o.count = Len(o.list))
         /\ o.list # <<>> /\ o.list \in Seq(LedgerText)
         /\ DOMAIN o.list = DOMAIN signers
         /\ \A i \in DOMAIN signers : o.list[i] = Canonical(Entry(signers[i]))
<1> DEFINE entries == [i \in DOMAIN signers |-> Entry(signers[i])]
<1>1. Len(signers) \in Nat /\ DOMAIN signers = 1..Len(signers)
  OBVIOUS
<1>2. \A i \in 1..Len(signers) : entries[i] \in AnyText
  BY <1>1, ElementOfSeq, EntryText
<1>3. entries \in Seq(AnyText) /\ Len(entries) = Len(signers)
  BY <1>1, <1>2, IsASeq
<1>4. DOMAIN entries = DOMAIN signers /\ \A i \in DOMAIN signers : entries[i] = Entry(signers[i])
  OBVIOUS
<1>5. o = OnLedger(RuleOf(entries, n))
  BY DEF MultisigRule
<1> HIDE DEF entries
<1> QED
  BY <1>3, <1>4, <1>5, MadeRule
-----------------------------------------------------------------------------
(* Reading a rule back. *)

\* The parser yields the signers of the rule, and knows whatever was written.
LEMMA ReadBack ==
  ASSUME TypeOK, NEW e \in Entities
  PROVE  /\ Validate(e) # Null =>
              /\ rule[e] # Null /\ rule[e] \in RuleType
              /\ rule[e].list \in Seq(LedgerText) /\ rule[e].list # <<>>
              /\ Validate(e).signers = rule[e].list
         /\ /\ rule[e] # Null /\ rule[e].list # <<>>
            /\ rule[e].type \in {"Require", "AllOf", "CountOf"}
            => /\ Validate(e) # Null
               /\ ThresholdOf(Validate(e)) =
                    IF rule[e].type = "CountOf" THEN rule[e].count ELSE Len(rule[e].list)
<1>1. rule[e] \in RuleType \cup {Null}
  BY DEF TypeOK
<1>2. CASE rule[e] = Null
  BY <1>2 DEF Validate
<1>3. CASE rule[e] # Null
  <2>1. rule[e].list \in Seq(LedgerText) /\ rule[e].count \in Nat
    BY <1>1, <1>3 DEF RuleType
  <2>2. CASE rule[e].type \in {"Require", "AllOf", "CountOf"} /\ rule[e].list # <<>>
    <3>1. PICK kind \in {"AllOf", "CountOf"} :
            /\ Parse(rule[e]) = [type |-> kind, count |-> rule[e].count,
                                 signers |-> rule[e].list]
            /\ kind = "CountOf" <=> rule[e].type = "CountOf"
      BY <2>2 DEF Parse
    <3>2. Validate(e) = Parse(rule[e]) /\ Parse(rule[e]) \in ParsedType
      BY <1>3, <2>1, <3>1 DEF Validate, ParsedType
    <3>3. Validate(e) # Null
      BY <3>2, NullAssumption
    <3>4. ThresholdOf(Validate(e)) =
            IF rule[e].type = "CountOf" THEN rule[e].count ELSE Len(rule[e].list)
      BY <3>1, <3>2 DEF ThresholdOf
    <3> QED
      BY <1>1, <1>3, <2>1, <2>2, <3>1, <3>2, <3>3, <3>4
  <2>3. CASE ~ (rule[e].type \in {"Require", "AllOf", "CountOf"} /\ rule[e].list # <<>>)
    BY <1>3, <2>3 DEF Validate, Parse
  <2> QED
    BY <2>2, <2>3
<1> QED
  BY <1>2, <1>3

\* What the pages show of a rule this code has written.
LEMMA WrittenIsShown ==
  ASSUME TypeOK, NEW e \in Entities, asked[e] # NotAsked, WrittenInv(e),
         Without({"foreign", "hashed"})
  PROVE  Shown(e) = asked[e]
<1>1. asked[e] \in AskedType
  BY DEF TypeOK
<1>2. /\ Validate(e) # Null /\ Validate(e).signers = rule[e].list
      /\ ThresholdOf(Validate(e)) = asked[e].threshold
  BY ReadBack DEF WrittenInv
<1>3. Shown(e) = [signers |-> asked[e].signers, threshold |-> asked[e].threshold]
  BY <1>2 DEF Shown, WrittenInv
<1> QED
  BY <1>1, <1>3 DEF AskedType

-----------------------------------------------------------------------------
(* Setting the owners of some entities. *)

\* What nobody has touched is as good as before.
LEMMA RuleStays ==
  ASSUME NEW e, RuleInv(e), rule'[e] = rule[e], asked'[e] = asked[e],
         e \in record' => e \in record, odd \subseteq odd'
  PROVE  RuleInv(e)'
<1>1. Validate(e)' = Validate(e)
  BY DEF Validate
<1>2. \A S : Without(S)' => Without(S)
  BY DEF Without
<1> QED
  BY <1>1, <1>2 DEF RuleInv, WrittenInv, ReadInv

OwnNamedOnce == \A v \in DOMAIN OwnRules : NamedOnce(OwnRules[v].list)

Sound == OwnNamedOnce /\ Without({"case", "foreign", "hashed"})

\* What SetOwners makes of one entity, and what it says of the rest.
LEMMA OwnersSet ==
  ASSUME TypeOK, NEW thresholds, DOMAIN thresholds \subseteq Entities,
         NEW signers \in Seq(AnyText), NEW wanted \in SUBSET [resource : Resources, key : Keys],
         \A e \in DOMAIN thresholds :
           thresholds[e] \in Nat \ {0} /\ thresholds[e] <= Len(signers),
         SetOwners(thresholds, signers, wanted)
  PROVE  /\ rule' \in [Entities -> RuleType \cup {Null}]
         /\ asked' \in [Entities -> AskedType]
         /\ \A e \in DOMAIN thresholds :
              /\ rule'[e] = OnLedger(MultisigRule(signers, thresholds[e]))
              /\ rule'[e] \in RuleType
              /\ asked'[e] = [signers |-> wanted, threshold |-> thresholds[e]]
              /\ asked'[e] # NotAsked
         /\ \A e \in Entities \ DOMAIN thresholds :
              rule'[e] = rule[e] /\ asked'[e] = asked[e]
<1>1. ASSUME NEW e \in DOMAIN thresholds
      PROVE  OnLedger(MultisigRule(signers, thresholds[e])) \in RuleType
  BY OwnerRule
<1>2. ASSUME NEW e \in DOMAIN thresholds
      PROVE  /\ [signers |-> wanted, threshold |-> thresholds[e]] \in AskedType
             /\ [signers |-> wanted, threshold |-> thresholds[e]] # NotAsked
  BY DEF AskedType, NotAsked
<1>3. rule' = [e \in Entities |->
        IF e \in DOMAIN thresholds THEN OnLedger(MultisigRule(signers, thresholds[e]))
                                   ELSE rule[e]]
  BY DEF SetOwners
<1>4. asked' = [e \in Entities |->
        IF e \in DOMAIN thresholds THEN [signers |-> wanted, threshold |-> thresholds[e]]
                                   ELSE asked[e]]
  BY DEF SetOwners
<1>5. rule \in [Entities -> RuleType \cup {Null}] /\ asked \in [Entities -> AskedType]
  BY DEF TypeOK
<1>6. rule' \in [Entities -> RuleType \cup {Null}]
  BY <1>1, <1>3, <1>5
<1>7. asked' \in [Entities -> AskedType]
  BY <1>2, <1>4, <1>5
<1> QED
  BY <1>1, <1>2, <1>3, <1>4, <1>6, <1>7

\* Without what the code does not make up for, the new rules are those wanted.
LEMMA OwnersKeepRules ==
  ASSUME TypeOK, \A e \in Entities : RuleInv(e), OnceInv,
         NEW thresholds, DOMAIN thresholds \subseteq Entities \ {Config},
         NEW signers \in Seq(AnyText), Keyed(signers),
         NEW wanted \in SUBSET [resource : Resources, key : Keys],
         \A e \in DOMAIN thresholds :
           thresholds[e] \in Nat \ {0} /\ thresholds[e] <= Len(signers),
         SetOwners(thresholds, signers, wanted),
         odd \subseteq odd', record' \subseteq record \cup DOMAIN thresholds,
         Without({"foreign"})' => Genuine(signers),
         Without({"foreign", "hashed"})' => Idents(signers) = wanted,
         Sound' => NamedOnce(signers)
  PROVE  (\A e \in Entities : RuleInv(e)') /\ OnceInv'
<1> DEFINE D == DOMAIN thresholds
<1>1. /\ rule' \in [Entities -> RuleType \cup {Null}]
      /\ \A e \in D :
           /\ rule'[e] = OnLedger(MultisigRule(signers, thresholds[e]))
           /\ rule'[e] \in RuleType
           /\ asked'[e] = [signers |-> wanted, threshold |-> thresholds[e]]
           /\ asked'[e] # NotAsked
      /\ \A e \in Entities \ D : rule'[e] = rule[e] /\ asked'[e] = asked[e]
  BY OwnersSet
<1>2. \A S : Without(S)' => Without(S)
  BY DEF Without
<1>3. ASSUME NEW e \in D
      PROVE  RuleInv(e)' /\ (Sound' => NamedOnce(rule'[e].list))
  <2> DEFINE o == rule'[e]
  <2>1. /\ o \in RuleType /\ o.type \in {"AllOf", "CountOf"}
        /\ o.count = thresholds[e] /\ (o.type # "CountOf" => o.count = Len(o.list))
        /\ o.list # <<>> /\ o.list \in Seq(LedgerText)
        /\ DOMAIN o.list = DOMAIN signers
        /\ \A i \in DOMAIN signers : o.list[i] = Canonical(Entry(signers[i]))
    <3>1. thresholds[e] \in Nat \ {0} /\ thresholds[e] <= Len(signers)
      OBVIOUS
    <3>2. o = OnLedger(MultisigRule(signers, thresholds[e]))
      BY <1>1
    <3> HIDE DEF o, D
    <3> QED
      BY <3>1, <3>2, OwnerRule
  <2>2. asked'[e] = [signers |-> wanted, threshold |-> thresholds[e]] /\ asked'[e] # NotAsked
    BY <1>1
  <2>3. e \in Entities /\ e # Config
    OBVIOUS
  <2> HIDE DEF o, D
  <2>4. o # Null
    BY <2>1, NullAssumption
  <2>5. /\ Genuine(o.list) /\ Keyed(o.list)
        /\ Genuine(signers) => /\ Idents(o.list) = Idents(signers)
                               /\ NamedOnce(signers) => NamedOnce(o.list)
    BY <2>1, EnteredList
  <2>6. /\ Without({"foreign", "hashed"})' => Idents(o.list) = wanted
        /\ Sound' => NamedOnce(o.list)
    <3>1. Without({"foreign", "hashed"})' \/ Sound' => Without({"foreign"})'
      BY DEF Sound, Without
    <3> QED
      BY <2>5, <3>1
  <2>7. WrittenInv(e)'
    BY <2>1, <2>2, <2>4, <2>6 DEF WrittenInv, o
  <2>8. (Validate(e) # Null)'
    <3>1. Validate(e)' = Parse(o)
      BY <2>4 DEF Validate, o
    <3>2. PICK kind \in {"AllOf", "CountOf"} :
            Parse(o) = [type |-> kind, count |-> o.count, signers |-> o.list]
      BY <2>1 DEF Parse
    <3>3. Parse(o) \in ParsedType
      BY <2>1, <3>2 DEF ParsedType, RuleType
    <3> QED
      BY <3>1, <3>3, NullAssumption
  <2>9. ReadInv(e)'
    BY <2>4, <2>5, <2>8 DEF ReadInv, Genuine, o
  <2> QED
    BY <2>2, <2>5, <2>6, <2>7, <2>9 DEF RuleInv, Keyed, o
<1>4. ASSUME NEW e \in Entities \ D
      PROVE  RuleInv(e)'
  <2>1. rule'[e] = rule[e] /\ asked'[e] = asked[e] /\ (e \in record' => e \in record)
    BY <1>1
  <2>2. RuleInv(e)
    OBVIOUS
  <2> HIDE DEF D
  <2> QED
    BY <2>1, <2>2, RuleStays
<1>5. ASSUME NEW e \in Entities, e \in record' \/ asked'[e] # NotAsked, Sound'
      PROVE  NamedOnce(rule'[e].list)
  <2>1. CASE e \in D
    BY <1>3, <1>5, <2>1
  <2>2. CASE e \notin D
    <3>1. rule'[e] = rule[e] /\ asked'[e] = asked[e] /\ (e \in record' => e \in record)
      BY <1>1, <2>2
    <3> QED
      BY <1>2, <1>5, <3>1 DEF OnceInv, Sound, OwnNamedOnce
  <2> QED
    BY <2>1, <2>2
<1>6. OnceInv'
  BY <1>5 DEF OnceInv, Sound, OwnNamedOnce
<1> QED
  BY <1>3, <1>4, <1>6
-----------------------------------------------------------------------------
(* The list without one of its signers. *)

\* The ranks of finitely many numbers number them through.
LEMMA RankIsBijection ==
  ASSUME NEW K, IsFiniteSet(K), K \subseteq Int, NEW rank,
         rank = [i \in K |-> Rank(K, i)]
  PROVE  /\ Cardinality(K) \in Nat
         /\ rank \in [K -> 1..Cardinality(K)]
         /\ \A n \in 1..Cardinality(K) : \E i \in K : rank[i] = n
<1> DEFINE below(i) == {j \in K : j <= i}
<1>0. \A i \in K : rank[i] = Cardinality(below(i))
  BY DEF Rank
<1>1. \A i \in K : /\ IsFiniteSet(below(i)) /\ Cardinality(below(i)) \in Nat
                   /\ Cardinality(below(i)) <= Cardinality(K)
  BY FS_Subset, FS_CardinalityType
<1>2. Cardinality(K) \in Nat
  BY FS_CardinalityType
<1>3. ASSUME NEW i \in K PROVE Cardinality(below(i)) # 0
  <2>1. i \in below(i)
    OBVIOUS
  <2> QED
    BY <1>1, <2>1, FS_EmptySet
<1>4. rank \in [K -> 1..Cardinality(K)]
  <2>1. \A i \in K : Cardinality(below(i)) \in 1..Cardinality(K)
    BY <1>1, <1>2, <1>3
  <2> QED
    BY <1>0, <2>1
<1>5. ASSUME NEW i \in K, NEW j \in K, rank[i] = rank[j], i < j PROVE FALSE
  <2>1. below(i) \subseteq below(j) /\ j \in below(j) /\ j \notin below(i)
    <3>1. i \in Int /\ j \in Int /\ i < j
      BY <1>5
    <3>2. \A k \in K : k <= i => k <= j
      BY <3>1
    <3>3. j \in below(j) /\ j \notin below(i)
      BY <3>1
    <3>4. ASSUME NEW k \in below(i) PROVE k \in below(j)
      BY <3>2
    <3> QED
      BY <3>3, <3>4
  <2>2. Cardinality(below(i)) = Cardinality(below(j))
    BY <1>0, <1>5
  <2> HIDE DEF below
  <2>3. below(i) = below(j)
    BY <1>1, <2>1, <2>2, FS_Subset
  <2> QED
    BY <2>1, <2>3
<1>6. \A i, j \in K : rank[i] = rank[j] => i = j
  BY <1>5
<1>7. rank \in Injection(K, 1..Cardinality(K))
  BY <1>4, <1>6 DEF Injection, IsInjective
<1>8. IsFiniteSet(1..Cardinality(K)) /\ Cardinality(1..Cardinality(K)) = Cardinality(K)
  BY <1>2, FS_Interval
<1>9. rank \in Surjection(K, 1..Cardinality(K))
  BY <1>7, <1>8, FS_Injection
<1> QED
  BY <1>2, <1>4, <1>9 DEF Surjection

\* What filter leaves of a list, and that it leaves no entry twice.
LEMMA FilteredList ==
  ASSUME NEW list \in Seq(LedgerText), NEW text
  PROVE  /\ Filtered(list, text) \in Seq(LedgerText)
         /\ \A n \in DOMAIN Filtered(list, text) :
              \E i \in DOMAIN list : list[i] # text /\ Filtered(list, text)[n] = list[i]
         /\ \A i \in DOMAIN list : list[i] # text =>
              \E n \in DOMAIN Filtered(list, text) : Filtered(list, text)[n] = list[i]
         /\ NamedOnce(list) => NamedOnce(Filtered(list, text))
<1> DEFINE kept == {i \in DOMAIN list : list[i] # text}
           rank == [i \in kept |-> Rank(kept, i)]
           at(n) == CHOOSE i \in kept : Rank(kept, i) = n
           out == [n \in 1..Cardinality(kept) |-> list[at(n)]]
<1>1. DOMAIN list = 1..Len(list) /\ Len(list) \in Nat
  OBVIOUS
<1>2. IsFiniteSet(kept) /\ kept \subseteq Int
  <2>1. kept \subseteq 1..Len(list) /\ IsFiniteSet(1..Len(list))
    BY <1>1, FS_Interval
  <2> QED
    BY <2>1, FS_Subset
<1>3. /\ Cardinality(kept) \in Nat
      /\ rank \in [kept -> 1..Cardinality(kept)]
      /\ \A n \in 1..Cardinality(kept) : \E i \in kept : rank[i] = n
  <2> HIDE DEF kept
  <2> QED
    <3>1. rank = [i \in kept |-> Rank(kept, i)]
      OBVIOUS
    <3> HIDE DEF rank
    <3> QED
      BY <1>2, <3>1, RankIsBijection
<1>4. Filtered(list, text) = out
  <2>1. {i \in DOMAIN list : ~ Same(list[i], text)} = kept
    BY DEF Same
  <2> DEFINE nth(S) == [n \in 1..Cardinality(S) |-> list[CHOOSE i \in S : Rank(S, i) = n]]
  <2>2. Filtered(list, text) = nth({i \in DOMAIN list : ~ Same(list[i], text)})
    BY DEF Filtered
  <2>3. nth({i \in DOMAIN list : ~ Same(list[i], text)}) = nth(kept)
    <3> HIDE DEF nth, kept
    <3> QED
      BY <2>1
  <2>4. nth(kept) = out
    OBVIOUS
  <2> QED
    BY <2>2, <2>3, <2>4
<1>5. \A n \in 1..Cardinality(kept) : at(n) \in kept /\ rank[at(n)] = n
  <2>1. \A i \in kept : rank[i] = Rank(kept, i)
    OBVIOUS
  <2> HIDE DEF kept, rank
  <2> QED
    BY <1>3, <2>1
<1>6. \A i \in kept : at(rank[i]) \in kept /\ rank[at(rank[i])] = rank[i]
  BY <1>3
<1>7. ASSUME NEW i \in kept, NEW j \in kept, rank[i] = rank[j] PROVE i = j
  <2>1. rank \in Surjection(kept, 1..Cardinality(kept))
    BY <1>3 DEF Surjection
  <2>2. Cardinality(1..Cardinality(kept)) = Cardinality(kept)
    BY <1>3, FS_Interval
  <2>3. rank \in Injection(kept, 1..Cardinality(kept))
    BY <1>2, <2>1, <2>2, FS_SurjSameCardinalityImpliesInj
  <2> QED
    BY <1>3, <1>7, <2>3 DEF Injection, IsInjective
<1>8. \A n \in 1..Cardinality(kept) : out[n] = list[at(n)] /\ at(n) \in kept
  BY <1>5
<1>9. \A i \in kept : rank[i] \in 1..Cardinality(kept) /\ out[rank[i]] = list[i]
  <2>1. \A i \in kept : at(rank[i]) = i
    BY <1>6, <1>7
  <2> QED
    BY <1>3, <2>1
<1>10. DOMAIN out = 1..Cardinality(kept)
  OBVIOUS
<1>11. \A i \in DOMAIN list : list[i] \in LedgerText
  BY ElementOfSeq
<1>12. \A i \in kept : i \in DOMAIN list /\ list[i] # text
  OBVIOUS
<1>13. \A i \in DOMAIN list : list[i] # text => i \in kept
  OBVIOUS
<1>14. out \in Seq(LedgerText)
  <2>1. \A n \in 1..Cardinality(kept) : out[n] \in LedgerText
    BY <1>8, <1>11, <1>12
  <2>2. Cardinality(kept) \in Nat
    BY <1>3
  <2> HIDE DEF kept, at
  <2> QED
    BY <2>1, <2>2, IsASeq
<1>15. NamedOnce(list) => NamedOnce(out)
  <2> SUFFICES ASSUME NamedOnce(list), NEW m \in 1..Cardinality(kept),
                      NEW n \in 1..Cardinality(kept), Ident(out[m]) = Ident(out[n])
               PROVE  m = n
    BY <1>10 DEF NamedOnce
  <2>1. at(m) = at(n)
    BY <1>8, <1>12 DEF NamedOnce
  <2> QED
    BY <1>5, <2>1
<1> HIDE DEF kept, rank, at, out
<1> QED
  BY <1>4, <1>8, <1>9, <1>10, <1>12, <1>13, <1>14, <1>15
-----------------------------------------------------------------------------
(* The steps. *)

LEMMA Names ==
  /\ Badge \in Entities /\ Config \in Entities /\ Badge # Config
  /\ \A v \in Vaults : v \in Entities /\ v # Badge /\ v # Config
  /\ Given(Badge) = Null /\ Given(Config) = Null
BY VaultsAssumption DEF Entities, Badge, Config, Given

LEMMA LedgerLists == \A list \in Seq(LedgerText) : list \in Seq(AnyText)
BY SeqMonotonic, LedgerTexts

\* A rule from which another is about to be made.
LEMMA RuleRead ==
  ASSUME AccessInv, NEW e \in Entities \ {Config},
         e \in record \/ (e = Badge /\ rule[Badge] # Null)
  PROVE  /\ rule[e] # Null /\ Validate(e) # Null
         /\ Validate(e).signers = rule[e].list
         /\ rule[e].list \in Seq(LedgerText) /\ rule[e].list \in Seq(AnyText)
         /\ Keyed(rule[e].list)
         /\ Before(e) \in SUBSET [resource : Resources, key : Keys]
         /\ e = Badge => asked[e] # NotAsked /\ Before(e) = asked[e].signers
         /\ Without({"foreign"}) => Genuine(rule[e].list)
         /\ Without({"foreign", "hashed"}) => Idents(rule[e].list) = Before(e)
         /\ Sound => NamedOnce(rule[e].list)
<1> USE DEF AccessInv
<1>1. RuleInv(e)
  OBVIOUS
<1>2. e = Badge => asked[e] # NotAsked
  BY <1>1, Names DEF RuleInv, ReadInv
<1>3. rule[e] # Null /\ Validate(e) # Null
  <2>1. CASE e \in record
    BY <1>1, <2>1 DEF RuleInv, ReadInv
  <2>2. CASE e = Badge /\ rule[Badge] # Null
    BY <1>1, <1>2, <2>2, ReadBack DEF RuleInv, WrittenInv
  <2> QED
    BY <2>1, <2>2
<1>4. /\ Validate(e).signers = rule[e].list
      /\ rule[e].list \in Seq(LedgerText) /\ rule[e].list \in Seq(AnyText)
  BY <1>3, ReadBack, LedgerLists
<1>5. Keyed(rule[e].list)
  BY <1>1, <1>3 DEF RuleInv, Keyed
<1>6. Idents(rule[e].list) \in SUBSET [resource : Resources, key : Keys]
  <2>1. \A i \in DOMAIN rule[e].list : rule[e].list[i] \in LedgerText
    BY <1>4, ElementOfSeq
  <2> QED
    BY <1>5, <2>1 DEF Idents, Ident, LedgerText, Keyed
<1>7. asked[e] = NotAsked => Before(e) = Idents(rule[e].list)
  BY <1>3, <1>4 DEF Before, Shown
<1>8. asked[e] # NotAsked =>
        /\ Before(e) = asked[e].signers
        /\ Without({"foreign", "hashed"}) => Idents(rule[e].list) = asked[e].signers
  BY <1>1 DEF Before, RuleInv, WrittenInv
<1>9. asked[e].signers \in SUBSET [resource : Resources, key : Keys]
  BY DEF TypeOK, AskedType
<1>10. Without({"foreign"}) => Genuine(rule[e].list)
  BY <1>1 DEF RuleInv, ReadInv, Genuine
<1>11. Sound => NamedOnce(rule[e].list)
  BY <1>2 DEF OnceInv, Sound, OwnNamedOnce
<1> QED
  BY <1>2, <1>3, <1>4, <1>5, <1>6, <1>7, <1>8, <1>9, <1>10, <1>11

\* As long as the badge and its NFTs are left alone.
LEMMA BadgesStay ==
  ASSUME BadgesInv, rule'[Badge] = rule[Badge], nft' = nft, odd \subseteq odd'
  PROVE  BadgesInv'
BY DEF BadgesInv, Without

\* Fits, as SetOwners needs it.
LEMMA FitsList ==
  ASSUME NEW n, NEW list \in Seq(AnyText), Fits(n, list)
  PROVE  n \in Nat \ {0} /\ n <= Len(list)
BY NumbersAssumption DEF Fits

LEMMA CreateVaultStep ==
  ASSUME AccessInv, NEW v \in Vaults, NEW n \in Thresholds, CreateVault(v, n)
  PROVE  AccessInv'
<1> DEFINE signers == rule[Badge].list
           thresholds == [e \in {v} |-> n]
           wanted == asked[Badge].signers
<1>1. /\ SetOwners(thresholds, Validate(Badge).signers, wanted)
      /\ rule[Badge] # Null /\ Fits(n, Validate(Badge).signers)
      /\ record' = record \cup {v} /\ UNCHANGED <<nft, odd>>
  BY DEF CreateVault
<1>2. /\ Validate(Badge).signers = signers /\ signers \in Seq(AnyText) /\ Keyed(signers)
      /\ wanted \in SUBSET [resource : Resources, key : Keys]
      /\ Without({"foreign"}) => Genuine(signers)
      /\ Without({"foreign", "hashed"}) => Idents(signers) = wanted
      /\ Sound => NamedOnce(signers)
  BY <1>1, Names, RuleRead
<1>3. /\ DOMAIN thresholds = {v} /\ {v} \subseteq Entities \ {Config}
      /\ \A e \in {v} : thresholds[e] \in Nat \ {0} /\ thresholds[e] <= Len(signers)
  BY <1>1, <1>2, FitsList, Names
<1>4. /\ Without({"foreign"})' => Genuine(signers)
      /\ Without({"foreign", "hashed"})' => Idents(signers) = wanted
      /\ Sound' => NamedOnce(signers)
  BY <1>1, <1>2 DEF Sound, Without, OwnNamedOnce
<1>5. SetOwners(thresholds, signers, wanted)
  BY <1>1, <1>2
<1> HIDE DEF signers, thresholds, wanted
<1>6. (\A e \in Entities : RuleInv(e)') /\ OnceInv'
  BY <1>1, <1>2, <1>3, <1>4, <1>5, OwnersKeepRules DEF AccessInv
<1>7. /\ rule' \in [Entities -> RuleType \cup {Null}] /\ asked' \in [Entities -> AskedType]
      /\ rule'[Badge] = rule[Badge]
  BY <1>2, <1>3, <1>5, Names, OwnersSet DEF AccessInv
<1>8. TypeOK' /\ BadgesInv'
  BY <1>1, <1>7, BadgesStay DEF AccessInv, TypeOK
<1> QED
  BY <1>6, <1>8 DEF AccessInv

LEMMA ChangeThresholdStep ==
  ASSUME AccessInv, NEW v \in Vaults, NEW n \in Thresholds, ChangeThreshold(v, n)
  PROVE  AccessInv'
<1> DEFINE signers == rule[v].list
           thresholds == [e \in {v} |-> n]
           wanted == Before(v)
<1>1. /\ SetOwners(thresholds, Validate(v).signers, wanted)
      /\ v \in record /\ Fits(n, Validate(v).signers)
      /\ UNCHANGED <<record, nft, odd>>
  BY DEF ChangeThreshold
<1>2. /\ Validate(v).signers = signers /\ signers \in Seq(AnyText) /\ Keyed(signers)
      /\ wanted \in SUBSET [resource : Resources, key : Keys]
      /\ Without({"foreign"}) => Genuine(signers)
      /\ Without({"foreign", "hashed"}) => Idents(signers) = wanted
      /\ Sound => NamedOnce(signers)
  BY <1>1, Names, RuleRead
<1>3. /\ DOMAIN thresholds = {v} /\ {v} \subseteq Entities \ {Config}
      /\ \A e \in {v} : thresholds[e] \in Nat \ {0} /\ thresholds[e] <= Len(signers)
  BY <1>1, <1>2, FitsList, Names
<1>4. /\ Without({"foreign"})' => Genuine(signers)
      /\ Without({"foreign", "hashed"})' => Idents(signers) = wanted
      /\ Sound' => NamedOnce(signers)
  BY <1>1, <1>2 DEF Sound, Without, OwnNamedOnce
<1>5. SetOwners(thresholds, signers, wanted)
  BY <1>1, <1>2
<1> HIDE DEF signers, thresholds, wanted
<1>6. (\A e \in Entities : RuleInv(e)') /\ OnceInv'
  BY <1>1, <1>2, <1>3, <1>4, <1>5, OwnersKeepRules DEF AccessInv
<1>7. /\ rule' \in [Entities -> RuleType \cup {Null}] /\ asked' \in [Entities -> AskedType]
      /\ rule'[Badge] = rule[Badge]
  BY <1>2, <1>3, <1>5, Names, OwnersSet DEF AccessInv
<1>8. TypeOK' /\ BadgesInv'
  BY <1>1, <1>7, BadgesStay DEF AccessInv, TypeOK
<1> QED
  BY <1>6, <1>8 DEF AccessInv

\* The oddities of a text are noted, and none is forgotten.
LEMMA Noted ==
  ASSUME odd \subseteq Oddities, NEW oddities \in SUBSET Oddities, Note(oddities)
  PROVE  odd' \subseteq Oddities /\ odd \subseteq odd' /\ oddities \subseteq odd'
BY DEF Note

LEMMA StrangeTexts ==
  ASSUME NEW text
  PROVE  /\ Strange(text) \subseteq Oddities
         /\ "foreign" \notin Strange(text) => text.resource \in SignatureBadges
         /\ "case" \notin Strange(text) => text.form # "upper"
BY DEF Strange, Oddities

LEMMA ImportVaultStep ==
  ASSUME AccessInv, NEW v \in Vaults, ImportVault(v)
  PROVE  AccessInv'
<1> DEFINE list == Validate(v).signers
           oddities == UNION {Strange(list[i]) : i \in DOMAIN list}
<1>1. /\ v \notin record /\ Validate(v) # Null /\ record' = record \cup {v}
      /\ Note(oddities) /\ UNCHANGED <<rule, nft, asked>>
  BY DEF ImportVault
<1>2. oddities \in SUBSET Oddities
  BY StrangeTexts
<1>3. odd' \subseteq Oddities /\ odd \subseteq odd' /\ oddities \subseteq odd'
  <2> HIDE DEF oddities
  <2> QED
    BY <1>1, <1>2, Noted DEF AccessInv, TypeOK
<1>4. rule[v] # Null /\ list = rule[v].list
  BY <1>1, ReadBack, Names DEF AccessInv
<1>5. Without({"foreign"})' => Genuine(rule[v].list)
  <2> SUFFICES ASSUME "foreign" \notin odd', NEW i \in DOMAIN list
               PROVE  list[i].resource \in SignatureBadges
    BY <1>4 DEF Without, Genuine
  <2>1. "foreign" \notin Strange(list[i])
    BY <1>3
  <2> QED
    BY <2>1, StrangeTexts
<1>6. \A S : Without(S)' => Without(S)
  BY <1>3 DEF Without
<1> HIDE DEF list, oddities
<1>7. Validate(v)' # Null
  BY <1>1 DEF Validate
<1>8. RuleInv(v)
  BY Names DEF AccessInv
<1>9. RuleInv(v)'
  <2>1. ReadInv(v)'
    BY <1>1, <1>4, <1>5, <1>7 DEF ReadInv, Genuine
  <2>2. WrittenInv(v)'
    BY <1>1, <1>6, <1>8 DEF RuleInv, WrittenInv
  <2> QED
    BY <1>1, <1>8, <2>1, <2>2 DEF RuleInv, Given
<1>10. ASSUME NEW e \in Entities, e # v PROVE RuleInv(e)'
  BY <1>1, <1>3, <1>10, RuleStays DEF AccessInv
<1>11. OnceInv'
  <2> SUFFICES ASSUME OwnNamedOnce, Without({"case", "foreign", "hashed"})',
                      NEW e \in Entities, e \in record' \/ asked'[e] # NotAsked
               PROVE  NamedOnce(rule'[e].list)
    BY DEF OnceInv, OwnNamedOnce
  <2>1. CASE e \in record \/ asked[e] # NotAsked
    BY <1>1, <1>6, <2>1 DEF AccessInv, OnceInv, OwnNamedOnce
  <2>2. CASE e = v /\ asked[v] = NotAsked
    <3>1. rule[v] = Given(v)
      BY <1>8, <2>2 DEF RuleInv
    <3> QED
      BY <1>1, <1>4, <2>2, <3>1 DEF Given, OwnNamedOnce
  <2> QED
    BY <1>1, <2>1, <2>2
<1>12. TypeOK' /\ BadgesInv'
  BY <1>1, <1>3, BadgesStay DEF AccessInv, TypeOK
<1> QED
  BY <1>9, <1>10, <1>11, <1>12 DEF AccessInv
-----------------------------------------------------------------------------
(* Members who come and go. *)

\* Thresholds for the badge and the vaults of the team.
LEMMA ThresholdsForList ==
  ASSUME TypeOK, NEW list \in Seq(AnyText), NEW thresholds \in ThresholdsFor(list)
  PROVE  /\ DOMAIN thresholds = record \cup {Badge}
         /\ DOMAIN thresholds \subseteq Entities \ {Config}
         /\ \A e \in DOMAIN thresholds :
              thresholds[e] \in Nat \ {0} /\ thresholds[e] <= Len(list)
<1>1. thresholds \in [record \cup {Badge} -> {n \in Thresholds : Fits(n, list)}]
  BY DEF ThresholdsFor
<1>2. record \cup {Badge} \subseteq Entities \ {Config}
  BY Names DEF TypeOK
<1>3. \A e \in record \cup {Badge} : Fits(thresholds[e], list)
  BY <1>1
<1> QED
  BY <1>1, <1>2, <1>3, FitsList

LEMMA AddMemberStep ==
  ASSUME AccessInv, NEW a \in Accounts, NEW text \in Texts, AddMember(a, text)
  PROVE  AccessInv'
<1> DEFINE signers == rule[Badge].list
           list == Append(signers, text)
           wanted == asked[Badge].signers \cup {Ident(text)}
           sharing == IF \E n \in nft : n.holder = a THEN {"shared"} ELSE {}
<1>1. /\ rule[Badge] # Null /\ Readable(text)
      /\ nft' = nft \cup {[holder |-> a, text |-> text]}
      /\ Note(Strange(text) \cup sharing) /\ UNCHANGED record
  BY DEF AddMember
<1>2. /\ Validate(Badge).signers = signers
      /\ signers \in Seq(LedgerText) /\ signers \in Seq(AnyText) /\ Keyed(signers)
      /\ asked[Badge].signers \in SUBSET [resource : Resources, key : Keys]
      /\ Without({"foreign"}) => Genuine(signers)
      /\ Without({"foreign", "hashed"}) => Idents(signers) = asked[Badge].signers
      /\ Sound => NamedOnce(signers)
  BY <1>1, Names, RuleRead
<1>3. PICK thresholds \in ThresholdsFor(list) : SetOwners(thresholds, list, wanted)
  BY <1>2 DEF AddMember
<1>4. ~ Listed(signers, text)
  BY <1>2 DEF AddMember
<1>5. /\ text \in AnyText /\ text.key \in Keys /\ text.form # "bare"
      /\ text \in {t \in TextType : t.form # "bare"}
      /\ Ident(text) \in [resource : Resources, key : Keys]
  BY <1>1, TextsAssumption DEF TextType, AnyText, LocalIds, Readable, Ident
<1>6. /\ list \in Seq(AnyText) /\ Len(list) = Len(signers) + 1
      /\ DOMAIN list = 1..Len(signers) + 1 /\ DOMAIN signers = 1..Len(signers)
      /\ \A i \in DOMAIN signers : list[i] = signers[i]
      /\ list[Len(signers) + 1] = text /\ Len(signers) \in Nat
  BY <1>2, <1>5, AppendProperties
<1>7. /\ odd' \subseteq Oddities /\ odd \subseteq odd'
      /\ Strange(text) \subseteq odd' /\ sharing \subseteq odd'
  <2>1. Strange(text) \cup sharing \in SUBSET Oddities
    BY StrangeTexts DEF Oddities
  <2> HIDE DEF sharing
  <2> QED
    BY <1>1, <2>1, Noted DEF AccessInv, TypeOK
<1>8. \A S : Without(S)' => Without(S)
  BY <1>7 DEF Without
<1>9. /\ "foreign" \notin odd' => text.resource \in SignatureBadges
      /\ "case" \notin odd' => text.form # "upper"
      /\ "shared" \notin odd' => \A n \in nft : n.holder # a
  BY <1>7, StrangeTexts
<1> HIDE DEF signers, list, sharing
<1>10. Keyed(list) /\ (Without({"foreign"})' => Genuine(list))
  <2>1. \A i \in DOMAIN list : i \in DOMAIN signers \/ i = Len(signers) + 1
    BY <1>6
  <2>2. Keyed(list)
    BY <1>2, <1>5, <1>6, <2>1 DEF Keyed
  <2>3. Without({"foreign"})' => Genuine(signers) /\ text.resource \in SignatureBadges
    BY <1>2, <1>8, <1>9 DEF Without
  <2> QED
    BY <1>6, <2>1, <2>2, <2>3 DEF Genuine
<1>11. Without({"foreign", "hashed"})' => Idents(list) = wanted
  <2>1. Idents(list) = Idents(signers) \cup {Ident(text)}
    BY <1>6 DEF Idents
  <2> QED
    BY <1>2, <1>8, <2>1
\* Without another spelling, a text that is not listed names another signer.
<1>12. "case" \notin odd' => text \in LedgerText
  BY <1>5, <1>9 DEF AnyText, LedgerText
<1>13. Sound' => NamedOnce(list)
  <2> SUFFICES ASSUME Sound' PROVE NamedOnce(list)
    OBVIOUS
  <2>1. NamedOnce(signers) /\ text \in LedgerText
    BY <1>2, <1>8, <1>12 DEF Sound, OwnNamedOnce, Without
  <2>2. ASSUME NEW i \in DOMAIN signers PROVE Ident(signers[i]) # Ident(text)
    <3>1. signers[i] \in LedgerText /\ signers[i] # text
      BY <1>2, <1>4, ElementOfSeq DEF Listed, Same
    <3> QED
      BY <2>1, <3>1, IdentIsText
  <2> QED
    BY <1>6, <2>1, <2>2 DEF NamedOnce
<1>14. /\ DOMAIN thresholds = record \cup {Badge}
       /\ DOMAIN thresholds \subseteq Entities \ {Config}
       /\ DOMAIN thresholds \subseteq Entities
       /\ \A e \in DOMAIN thresholds :
            thresholds[e] \in Nat \ {0} /\ thresholds[e] <= Len(list)
  BY <1>6, ThresholdsForList DEF AccessInv
<1>15. wanted \in SUBSET [resource : Resources, key : Keys]
  BY <1>2, <1>5
<1> HIDE DEF wanted
<1>16. (\A e \in Entities : RuleInv(e)') /\ OnceInv'
  BY <1>1, <1>3, <1>6, <1>7, <1>10, <1>11, <1>13, <1>14, <1>15, OwnersKeepRules
  DEF AccessInv
<1>17. /\ rule' \in [Entities -> RuleType \cup {Null}] /\ asked' \in [Entities -> AskedType]
       /\ rule'[Badge] = OnLedger(MultisigRule(list, thresholds[Badge]))
  <2>1. TypeOK /\ Badge \in DOMAIN thresholds
    BY <1>14 DEF AccessInv
  <2>2. /\ rule' \in [Entities -> RuleType \cup {Null}] /\ asked' \in [Entities -> AskedType]
        /\ \A e \in DOMAIN thresholds :
             rule'[e] = OnLedger(MultisigRule(list, thresholds[e]))
    <3>1. list \in Seq(AnyText) /\ SetOwners(thresholds, list, wanted)
      BY <1>3, <1>6
    <3>2. /\ DOMAIN thresholds \subseteq Entities
          /\ \A e \in DOMAIN thresholds :
               thresholds[e] \in Nat \ {0} /\ thresholds[e] <= Len(list)
      BY <1>14
    <3>3. /\ rule' \in [Entities -> RuleType \cup {Null}]
          /\ asked' \in [Entities -> AskedType]
          /\ \A e \in DOMAIN thresholds :
              /\ rule'[e] = OnLedger(MultisigRule(list, thresholds[e]))
              /\ rule'[e] \in RuleType
              /\ asked'[e] = [signers |-> wanted, threshold |-> thresholds[e]]
              /\ asked'[e] # NotAsked
          /\ \A e \in Entities \ DOMAIN thresholds :
              rule'[e] = rule[e] /\ asked'[e] = asked[e]
      BY <1>15, <2>1, <3>1, <3>2, OwnersSet, Zenon
    <3> QED
      BY <3>3
  <2> QED
    BY <2>1, <2>2
<1>18. TypeOK'
  BY <1>1, <1>5, <1>7, <1>17 DEF AccessInv, TypeOK
<1>19. ASSUME Without(Oddities)' PROVE BadgesInv'
  <2>1. /\ text \in LedgerText /\ text.resource \in SignatureBadges
        /\ \A n \in nft : n.holder # a
    BY <1>9, <1>12, <1>19 DEF Without, Oddities
  <2>2. Genuine(list) /\ (\A i \in DOMAIN list : list[i].form = "lower")
    <3>1. Genuine(list)
      BY <1>10, <1>19 DEF Without, Oddities
    <3>2. \A i \in DOMAIN signers : signers[i] \in LedgerText
      BY <1>2, ElementOfSeq
    <3>3. \A i \in DOMAIN list : list[i] \in LedgerText
      BY <1>6, <2>1, <3>2
    <3> QED
      BY <3>1, <3>3 DEF LedgerText
  <2>3. DOMAIN rule'[Badge].list = DOMAIN list
        /\ \A i \in DOMAIN list : rule'[Badge].list[i] = list[i]
    <3>1. /\ rule'[Badge].list \in Seq(LedgerText)
          /\ DOMAIN rule'[Badge].list = DOMAIN list
          /\ \A i \in DOMAIN list : rule'[Badge].list[i] = Canonical(Entry(list[i]))
      BY <1>6, <1>14, <1>17, OwnerRule
    <3> QED
      BY <1>6, <2>2, <3>1, EnteredList
  <2>4. /\ {n.text : n \in nft} = {signers[i] : i \in DOMAIN signers}
        /\ \A n, m \in nft : n.holder = m.holder \/ n.text = m.text => n = m
    BY <1>1, <1>8, <1>19 DEF AccessInv, BadgesInv, signers
  <2>5. {rule'[Badge].list[i] : i \in DOMAIN rule'[Badge].list} =
          {signers[i] : i \in DOMAIN signers} \cup {text}
    BY <1>6, <2>3
  <2>6. \A n \in nft : n.text # text
    BY <1>4, <2>4 DEF Listed, Same
  <2>7. {n.text : n \in nft'} = {n.text : n \in nft} \cup {text}
    <3> DEFINE badge == [holder |-> a, text |-> text]
    <3>1. badge.text = text
      OBVIOUS
    <3>2. nft' = nft \cup {badge}
      BY <1>1
    <3> HIDE DEF badge
    <3> QED
      BY <3>1, <3>2
  <2>8. \A n, m \in nft' : n.holder = m.holder \/ n.text = m.text => n = m
    BY <1>1, <2>1, <2>4, <2>6
  <2> QED
    BY <2>4, <2>5, <2>7, <2>8 DEF BadgesInv
<1>20. BadgesInv'
  BY <1>19 DEF BadgesInv
<1> QED
  BY <1>16, <1>18, <1>20 DEF AccessInv

LEMMA RemoveMemberStep ==
  ASSUME AccessInv, NEW chosen \in BadgeHolders, NEW recalled \in nft,
         RemoveMember(chosen, recalled)
  PROVE  AccessInv'
<1> DEFINE signers == rule[Badge].list
           text == chosen.mfaVirtualResource
           list == Filtered(signers, text)
           wanted == asked[Badge].signers \ {Ident(text)}
<1>1. /\ recalled.holder = chosen.holderAddress
      /\ nft' = nft \ {recalled} /\ UNCHANGED <<record, odd>>
      /\ Listed(Validate(Badge).signers, text)
  BY DEF RemoveMember
<1>2. rule[Badge] # Null
  BY DEF RemoveMember
<1>3. /\ Validate(Badge).signers = signers
      /\ signers \in Seq(LedgerText) /\ Keyed(signers)
      /\ asked[Badge].signers \in SUBSET [resource : Resources, key : Keys]
      /\ Without({"foreign"}) => Genuine(signers)
      /\ Without({"foreign", "hashed"}) => Idents(signers) = asked[Badge].signers
      /\ Sound => NamedOnce(signers)
  BY <1>2, Names, RuleRead
<1>4. PICK thresholds \in ThresholdsFor(list) : SetOwners(thresholds, list, wanted)
  BY <1>3 DEF RemoveMember
<1>5. Listed(signers, text)
  BY <1>1, <1>3
<1>6. /\ list \in Seq(LedgerText)
      /\ \A n \in DOMAIN list : \E i \in DOMAIN signers :
           signers[i] # text /\ list[n] = signers[i]
      /\ \A i \in DOMAIN signers : signers[i] # text =>
           \E n \in DOMAIN list : list[n] = signers[i]
      /\ NamedOnce(signers) => NamedOnce(list)
  <2> HIDE DEF signers, text
  <2> QED
    BY <1>3, FilteredList
<1>7. list \in Seq(AnyText)
  BY <1>6, LedgerLists
<1> HIDE DEF signers, text, list
<1>8. Keyed(list) /\ (Without({"foreign"})' => Genuine(list))
  BY <1>1, <1>3, <1>6 DEF Keyed, Genuine, Without
\* No entry but those with the text names its signer.
<1>9. Idents(list) = Idents(signers) \ {Ident(text)}
  <2>1. \A i \in DOMAIN signers : signers[i] \in LedgerText
    BY <1>3, ElementOfSeq
  <2>2. text \in LedgerText
    BY <1>5, <2>1 DEF Listed, Same
  <2>3. \A i \in DOMAIN signers : signers[i] # text <=> Ident(signers[i]) # Ident(text)
    BY <2>1, <2>2, IdentIsText
  <2>4. \A s : s \in Idents(list) <=> s \in Idents(signers) \ {Ident(text)}
    BY <1>6, <2>3 DEF Idents
  <2> QED
    BY <2>4
<1>10. Without({"foreign", "hashed"})' => Idents(list) = wanted
  BY <1>1, <1>3, <1>9 DEF Without
<1>11. Sound' => NamedOnce(list)
  BY <1>1, <1>3, <1>6 DEF Sound, OwnNamedOnce, Without
<1>12. wanted \in SUBSET [resource : Resources, key : Keys]
  BY <1>3
<1>13. TypeOK /\ odd \subseteq odd' /\ record' \subseteq record \cup DOMAIN thresholds
  BY <1>1 DEF AccessInv
<1>14. /\ DOMAIN thresholds = record \cup {Badge}
       /\ DOMAIN thresholds \subseteq Entities \ {Config}
       /\ DOMAIN thresholds \subseteq Entities
       /\ \A e \in DOMAIN thresholds :
            thresholds[e] \in Nat \ {0} /\ thresholds[e] <= Len(list)
  BY <1>7, <1>13, ThresholdsForList
<1> HIDE DEF wanted
<1>15. (\A e \in Entities : RuleInv(e)') /\ OnceInv'
  BY <1>4, <1>7, <1>8, <1>10, <1>11, <1>12, <1>13, <1>14, OwnersKeepRules DEF AccessInv
<1>16. /\ rule' \in [Entities -> RuleType \cup {Null}]
       /\ asked' \in [Entities -> AskedType]
       /\ \A e \in DOMAIN thresholds :
           /\ rule'[e] = OnLedger(MultisigRule(list, thresholds[e]))
           /\ rule'[e] \in RuleType
           /\ asked'[e] = [signers |-> wanted, threshold |-> thresholds[e]]
           /\ asked'[e] # NotAsked
       /\ \A e \in Entities \ DOMAIN thresholds :
           rule'[e] = rule[e] /\ asked'[e] = asked[e]
  BY <1>4, <1>7, <1>12, <1>13, <1>14, OwnersSet, Zenon
<1>17. TypeOK'
  BY <1>1, <1>13, <1>16 DEF TypeOK
<1>18. ASSUME Without(Oddities) PROVE BadgesInv'
  <2>1. /\ {n.text : n \in nft} = {signers[i] : i \in DOMAIN signers}
        /\ \A n, m \in nft : n.holder = m.holder \/ n.text = m.text => n = m
    BY <1>2, <1>18 DEF AccessInv, BadgesInv, signers
  <2>2. recalled.text = text
    <3>1. PICK n \in nft : chosen = [holderAddress |-> n.holder, mfaVirtualResource |-> n.text]
      BY DEF BadgeHolders
    <3>2. chosen.holderAddress = n.holder /\ text = n.text
      BY <3>1 DEF text
    <3>3. recalled = n
      BY <1>1, <2>1, <3>2
    <3> QED
      BY <3>2, <3>3
  <2>3. Genuine(list) /\ (\A i \in DOMAIN list : list[i].form = "lower")
    <3>1. Genuine(list)
      BY <1>1, <1>8, <1>18 DEF Without, Oddities
    <3>2. \A i \in DOMAIN list : list[i] \in LedgerText
      BY <1>6, ElementOfSeq
    <3> QED
      BY <3>1, <3>2 DEF LedgerText
  <2>4. DOMAIN rule'[Badge].list = DOMAIN list
        /\ \A i \in DOMAIN list : rule'[Badge].list[i] = list[i]
    <3>1. /\ thresholds[Badge] \in Nat \ {0} /\ thresholds[Badge] <= Len(list)
          /\ rule'[Badge] = OnLedger(MultisigRule(list, thresholds[Badge]))
      BY <1>14, <1>16
    <3>2. /\ rule'[Badge].list \in Seq(LedgerText)
          /\ DOMAIN rule'[Badge].list = DOMAIN list
          /\ \A i \in DOMAIN list : rule'[Badge].list[i] = Canonical(Entry(list[i]))
      BY <1>7, <3>1, OwnerRule
    <3> QED
      BY <1>7, <2>3, <3>2, EnteredList
  <2>5. \A t : (\E n \in nft' : n.text = t) <=> (\E i \in DOMAIN list : list[i] = t)
    <3>1. \A t : (\E n \in nft' : n.text = t) <=> t # text /\ (\E n \in nft : n.text = t)
      BY <1>1, <2>1, <2>2
    <3>2. \A t : (\E n \in nft : n.text = t) <=> (\E i \in DOMAIN signers : signers[i] = t)
      BY <2>1
    <3>3. \A t : (\E i \in DOMAIN list : list[i] = t) <=>
                   t # text /\ (\E i \in DOMAIN signers : signers[i] = t)
      BY <1>6, Zenon
    <3> QED
      BY <3>1, <3>2, <3>3, Zenon
  <2>6. {n.text : n \in nft'} = {rule'[Badge].list[i] : i \in DOMAIN rule'[Badge].list}
    BY <2>4, <2>5
  <2>7. \A n, m \in nft' : n.holder = m.holder \/ n.text = m.text => n = m
    BY <1>1, <2>1
  <2> QED
    BY <2>6, <2>7 DEF BadgesInv
<1>19. BadgesInv'
  BY <1>1, <1>18 DEF BadgesInv, Without
<1> QED
  BY <1>15, <1>17, <1>19 DEF AccessInv
-----------------------------------------------------------------------------
(* Teams that begin. *)

LEMMA BracketedText ==
  ASSUME NEW text \in Texts
  PROVE  /\ Bracketed(text) \in AnyText
         /\ Bracketed(text) \in {t \in TextType : t.form # "bare"}
         /\ Bracketed(text).key \in Keys /\ Bracketed(text).resource = text.resource
         /\ Ident(Bracketed(text)) = Ident(text)
         /\ Ident(text) \in [resource : Resources, key : Keys]
         /\ text.form # "upper" => Bracketed(text) \in LedgerText
BY TextsAssumption
DEF Bracketed, Canonical, TextType, AnyText, LedgerText, LocalIds, Ident

LEMMA CreateTeamStep ==
  ASSUME AccessInv, NEW a \in Accounts, NEW text \in Texts, CreateTeam(a, text)
  PROVE  AccessInv'
<1> DEFINE bracketed == Bracketed(text)
           o == OnLedger(Require(bracketed))
           question == [signers |-> {Ident(text)}, threshold |-> 1]
           badge == [holder |-> a, text |-> bracketed]
<1>1. /\ rule' = [rule EXCEPT ![Badge] = o] /\ asked' = [asked EXCEPT ![Badge] = question]
      /\ nft' = {badge} /\ Note(Strange(text)) /\ UNCHANGED record
  BY DEF CreateTeam
<1>2. /\ bracketed \in AnyText /\ bracketed \in {t \in TextType : t.form # "bare"}
      /\ bracketed.key \in Keys /\ bracketed.resource = text.resource
      /\ Ident(bracketed) = Ident(text) /\ Ident(text) \in [resource : Resources, key : Keys]
      /\ text.form # "upper" => bracketed \in LedgerText
  BY BracketedText
<1> HIDE DEF bracketed
<1>3. /\ odd' \subseteq Oddities /\ odd \subseteq odd' /\ Strange(text) \subseteq odd'
  BY <1>1, StrangeTexts, Noted DEF AccessInv, TypeOK
<1>4. /\ "foreign" \notin odd' => text.resource \in SignatureBadges
      /\ "case" \notin odd' => text.form # "upper"
  BY <1>3, StrangeTexts
<1>5. /\ o \in RuleType /\ o.type = "Require" /\ o.count = 1
      /\ o.list \in Seq(LedgerText) /\ Len(o.list) = 1 /\ DOMAIN o.list = {1}
      /\ o.list[1] = Canonical(bracketed)
  <2> DEFINE list == <<bracketed>>
  <2>1. list \in Seq(AnyText) /\ Len(list) = 1 /\ DOMAIN list = {1} /\ list[1] = bracketed
    BY <1>2
  <2>2. Require(bracketed) = [type |-> "Require", count |-> 1, list |-> list]
    BY DEF Require
  <2> HIDE DEF list
  <2>3. /\ o \in RuleType /\ o.type = "Require" /\ o.count = 1
        /\ o.list \in Seq(LedgerText) /\ DOMAIN o.list = DOMAIN list
        /\ Len(o.list) = Len(list) /\ \A i \in DOMAIN list : o.list[i] = Canonical(list[i])
    BY <2>1, <2>2, CommittedRule
  <2> QED
    BY <2>1, <2>3
<1>6. /\ Canonical(bracketed).key \in Keys /\ Canonical(bracketed).resource = text.resource
      /\ Ident(Canonical(bracketed)) = Ident(text)
      /\ "case" \notin odd' => Canonical(bracketed) = bracketed
  BY <1>2, <1>4, CanonicalText DEF LedgerText
<1>7. question \in AskedType /\ question # NotAsked /\ o # Null
  BY <1>2, <1>5, NullAssumption DEF AskedType, NotAsked
<1>8. question.signers = {Ident(text)} /\ question.threshold = 1
  OBVIOUS
<1>9. badge.holder = a /\ badge.text = bracketed
      /\ badge \in [holder : Accounts, text : {t \in TextType : t.form # "bare"}]
  BY <1>2
<1> HIDE DEF o, question, badge
<1>10. /\ rule'[Badge] = o /\ asked'[Badge] = question
       /\ \A e \in Entities : e # Badge => rule'[e] = rule[e] /\ asked'[e] = asked[e]
       /\ rule' \in [Entities -> RuleType \cup {Null}] /\ asked' \in [Entities -> AskedType]
  BY <1>1, <1>5, <1>7, Names DEF AccessInv, TypeOK
<1>11. TypeOK'
  BY <1>1, <1>3, <1>9, <1>10 DEF AccessInv, TypeOK
<1>12. Badge \notin record'
  BY <1>1, VaultsAssumption DEF AccessInv, TypeOK
<1>13. Idents(o.list) = {Ident(text)} /\ o.list # <<>>
  BY <1>5, <1>6, EmptySeq DEF Idents
<1>14. RuleInv(Badge)'
  <2>1. WrittenInv(Badge)'
    BY <1>5, <1>7, <1>8, <1>10, <1>13 DEF WrittenInv
  <2>2. ReadInv(Badge)'
    BY <1>4, <1>5, <1>6, <1>10, <1>12 DEF ReadInv, Without
  <2> QED
    BY <1>5, <1>6, <1>7, <1>10, <2>1, <2>2 DEF RuleInv
<1>15. ASSUME NEW e \in Entities, e # Badge PROVE RuleInv(e)'
  BY <1>1, <1>3, <1>10, <1>15, RuleStays DEF AccessInv
<1>16. OnceInv'
  <2> SUFFICES ASSUME OwnNamedOnce, Without({"case", "foreign", "hashed"})',
                      NEW e \in Entities, e \in record' \/ asked'[e] # NotAsked
               PROVE  NamedOnce(rule'[e].list)
    BY DEF OnceInv, OwnNamedOnce
  <2>1. CASE e = Badge
    BY <1>5, <1>10, <2>1 DEF NamedOnce
  <2>2. CASE e # Badge
    BY <1>1, <1>3, <1>10, <2>2 DEF AccessInv, OnceInv, OwnNamedOnce, Without
  <2> QED
    BY <2>1, <2>2
<1>17. BadgesInv'
  <2> SUFFICES ASSUME Without(Oddities)'
               PROVE  /\ {n.text : n \in nft'} =
                           {rule'[Badge].list[i] : i \in DOMAIN rule'[Badge].list}
                      /\ \A n, m \in nft' : n.holder = m.holder \/ n.text = m.text => n = m
    BY DEF BadgesInv
  <2>1. o.list[1] = bracketed
    BY <1>5, <1>6 DEF Without, Oddities
  <2>2. {n.text : n \in nft'} = {bracketed}
    BY <1>1, <1>9
  <2>3. {rule'[Badge].list[i] : i \in DOMAIN rule'[Badge].list} = {bracketed}
    BY <1>5, <1>10, <2>1
  <2> QED
    BY <1>1, <2>2, <2>3
<1> QED
  BY <1>11, <1>14, <1>15, <1>16, <1>17 DEF AccessInv

LEMMA ResolvedText ==
  ASSUME NEW text \in Texts \cup PublicKeys
  PROVE  /\ Resolved(text) \in AnyText
         /\ text.form # "public" => Resolved(text) = text
         /\ Ident(text) \in [resource : Resources, key : Keys]
BY TextsAssumption
DEF Resolved, LocalIdOfKey, TextType, PublicKeyType, AnyText, LocalIds, Resources,
    SignatureBadges, Ident

LEMMA BootstrapStep ==
  ASSUME AccessInv, NEW list \in ConfigLists, NEW n \in Thresholds, Bootstrap(list, n)
  PROVE  AccessInv'
<1> DEFINE signers == [i \in DOMAIN list |-> Resolved(list[i])]
           o == OnLedger(RuleOf(signers, n))
           question == [signers |-> Idents(list), threshold |-> n]
           oddities == IF \E i \in DOMAIN list : list[i].form = "public" THEN {"hashed"} ELSE {}
<1>1. /\ BadgeManifest(list, n).supply = [i \in DOMAIN signers |-> signers[i].key]
      /\ BadgeManifest(list, n).owner = RuleOf(signers, n)
  BY DEF BadgeManifest
<1>2. /\ rule' = [rule EXCEPT ![Config] = o] /\ asked' = [asked EXCEPT ![Config] = question]
      /\ Fits(n, list) /\ Note(oddities) /\ UNCHANGED <<nft, record>>
      /\ \A i, j \in DOMAIN list : i # j => signers[i].key # signers[j].key
  BY <1>1 DEF Bootstrap
<1>3. PICK k \in 1..2 : list \in [1..k -> Texts \cup PublicKeys]
  BY DEF ConfigLists
<1>4. /\ DOMAIN list = 1..k /\ Len(list) = k /\ k \in Nat
      /\ list \in Seq(Texts \cup PublicKeys)
  BY <1>3, IsASeq
<1>5. \A i \in DOMAIN list : /\ signers[i] \in AnyText
                             /\ list[i].form # "public" => signers[i] = list[i]
                             /\ Ident(list[i]) \in [resource : Resources, key : Keys]
  BY <1>3, <1>4, ResolvedText
<1>6. signers \in Seq(AnyText) /\ Len(signers) = k /\ DOMAIN signers = DOMAIN list
  BY <1>4, <1>5, IsASeq
<1>7. n \in Nat \ {0} /\ n <= Len(signers)
  BY <1>2, <1>4, <1>6, NumbersAssumption DEF Fits
<1>8. odd' \subseteq Oddities /\ odd \subseteq odd' /\ oddities \subseteq odd'
  <2>1. oddities \in SUBSET Oddities
    BY DEF Oddities
  <2> HIDE DEF oddities
  <2> QED
    BY <1>2, <2>1, Noted DEF AccessInv, TypeOK
<1>9. "hashed" \notin odd' => \A i \in DOMAIN list : signers[i] = list[i]
  BY <1>5, <1>8
<1> HIDE DEF signers
<1>10. /\ o \in RuleType /\ o.type \in {"AllOf", "CountOf"}
       /\ o.count = n /\ (o.type # "CountOf" => o.count = Len(o.list))
       /\ o.list # <<>> /\ o.list \in Seq(LedgerText)
       /\ DOMAIN o.list = DOMAIN signers
       /\ \A i \in DOMAIN signers : o.list[i] = Canonical(signers[i])
  BY <1>6, <1>7, MadeRule
<1>11. \A i \in DOMAIN list : /\ o.list[i].key = signers[i].key
                              /\ Ident(o.list[i]) = Ident(signers[i])
  BY <1>5, <1>6, <1>10, CanonicalText
<1>12. "hashed" \notin odd' => Idents(o.list) = Idents(list)
  BY <1>6, <1>9, <1>10, <1>11 DEF Idents
<1>13. NamedOnce(o.list)
  BY <1>2, <1>6, <1>10, <1>11 DEF NamedOnce, Ident
<1>14. question \in AskedType /\ question # NotAsked /\ o # Null
  BY <1>5, <1>7, <1>10, NullAssumption DEF AskedType, NotAsked, Idents
<1>15. question.signers = Idents(list) /\ question.threshold = n
  OBVIOUS
<1> HIDE DEF o, question, oddities
<1>16. /\ rule'[Config] = o /\ asked'[Config] = question
       /\ \A e \in Entities : e # Config => rule'[e] = rule[e] /\ asked'[e] = asked[e]
       /\ rule' \in [Entities -> RuleType \cup {Null}] /\ asked' \in [Entities -> AskedType]
  BY <1>2, <1>10, <1>14, Names DEF AccessInv, TypeOK
<1>17. Config \notin record'
  BY <1>2, VaultsAssumption DEF AccessInv, TypeOK
<1>18. RuleInv(Config)'
  <2>1. WrittenInv(Config)'
    BY <1>10, <1>12, <1>14, <1>15, <1>16 DEF WrittenInv, Without
  <2>2. ReadInv(Config)'
    BY <1>17, Names DEF ReadInv
  <2> QED
    BY <1>14, <1>16, <2>1, <2>2 DEF RuleInv
<1>19. ASSUME NEW e \in Entities, e # Config PROVE RuleInv(e)'
  BY <1>2, <1>8, <1>16, <1>19, RuleStays DEF AccessInv
<1>20. OnceInv'
  <2> SUFFICES ASSUME OwnNamedOnce, Without({"case", "foreign", "hashed"})',
                      NEW e \in Entities, e \in record' \/ asked'[e] # NotAsked
               PROVE  NamedOnce(rule'[e].list)
    BY DEF OnceInv, OwnNamedOnce
  <2>1. CASE e = Config
    BY <1>13, <1>16, <2>1
  <2>2. CASE e # Config
    BY <1>2, <1>8, <1>16, <2>2 DEF AccessInv, OnceInv, OwnNamedOnce, Without
  <2> QED
    BY <2>1, <2>2
<1>21. TypeOK' /\ BadgesInv'
  BY <1>2, <1>8, <1>16, Names, BadgesStay DEF AccessInv, TypeOK
<1> QED
  BY <1>18, <1>19, <1>20, <1>21 DEF AccessInv

-----------------------------------------------------------------------------
(* The theorems *)

\* No team yet, and accounts that may be imported.
LEMMA AccessInit == Init => AccessInv
<1> SUFFICES ASSUME Init PROVE AccessInv
  OBVIOUS
<1>1. /\ rule = [e \in Entities |-> Given(e)] /\ asked = [e \in Entities |-> NotAsked]
      /\ nft = {} /\ record = {} /\ odd = {}
  BY DEF Init
<1>2. \A e \in Entities : Given(e) \in RuleType \cup {Null}
  BY OwnRulesAssumption DEF Given
<1>3. TypeOK
  BY <1>1, <1>2 DEF TypeOK, NotAsked, AskedType
<1>4. ASSUME NEW e \in Entities PROVE RuleInv(e)
  <2>1. rule[e] = Given(e) /\ asked[e] = NotAsked
    BY <1>1
  <2>2. rule[e] # Null => \A i \in DOMAIN rule[e].list : rule[e].list[i].key \in Keys
    BY <2>1, OwnRulesAssumption DEF Given
  <2>3. ReadInv(e)
    BY <1>1, Names DEF ReadInv
  <2> QED
    BY <2>1, <2>2, <2>3 DEF RuleInv, WrittenInv
<1>5. OnceInv
  BY <1>1 DEF OnceInv
<1>6. BadgesInv
  BY <1>1, Names DEF BadgesInv
<1> QED
  BY <1>3, <1>4, <1>5, <1>6 DEF AccessInv

LEMMA AccessStep == AccessInv /\ [Next]_vars => AccessInv'
<1> SUFFICES ASSUME AccessInv, [Next]_vars PROVE AccessInv'
  OBVIOUS
<1>1. CASE UNCHANGED vars
  <2>1. \A e \in Entities : RuleInv(e)'
    BY <1>1, RuleStays DEF vars, AccessInv
  <2>2. TypeOK' /\ BadgesInv'
    BY <1>1, BadgesStay DEF vars, AccessInv, TypeOK
  <2>3. OnceInv'
    BY <1>1 DEF vars, AccessInv, OnceInv, Without
  <2> QED
    BY <2>1, <2>2, <2>3 DEF AccessInv
<1> QED
  BY <1>1, CreateTeamStep, AddMemberStep, BootstrapStep, CreateVaultStep,
     ChangeThresholdStep, ImportVaultStep, RemoveMemberStep DEF Next

\* AccessInv holds in every state, for any texts, keys, vaults and thresholds.
THEOREM AccessInvariance == Spec => []AccessInv
BY AccessInit, AccessStep, PTL DEF Spec

\* Every rule written is shown as it was asked for, however many rules were read
\* back and rewritten before it.
THEOREM ShownSafety == Spec => []ShownAsAsked
<1>1. AccessInv => ShownAsAsked
  <2> SUFFICES ASSUME AccessInv, Without({"foreign", "hashed"}), NEW e \in Written
               PROVE  Shown(e) = asked[e]
    BY DEF ShownAsAsked
  <2> QED
    BY WrittenIsShown DEF Written, AccessInv, RuleInv
<1> QED
  BY <1>1, AccessInvariance, PTL

\* A set of signers satisfies a rule that names each of them once exactly if it
\* has as many members as the rule's count.
LEMMA SignersCount ==
  ASSUME NEW r, r \in RuleType, NamedOnce(r.list),
         NEW proven, proven \subseteq Idents(r.list)
  PROVE  Satisfied(r, proven) <=> Cardinality(proven) >= r.count
<1> DEFINE entries == {i \in DOMAIN r.list : Ident(r.list[i]) \in proven}
           named == [i \in entries |-> Ident(r.list[i])]
<1>1. IsFiniteSet(entries)
  <2>1. r.list \in Seq(LedgerText)
    BY DEF RuleType
  <2>2. entries \subseteq 1..Len(r.list) /\ IsFiniteSet(1..Len(r.list))
    <3>1. DOMAIN r.list = 1..Len(r.list) /\ Len(r.list) \in Nat
      BY <2>1
    <3> QED
      BY <3>1, FS_Interval
  <2> QED
    BY <2>2, FS_Subset
<1>2. named \in [entries -> proven]
  OBVIOUS
<1>3. \A i, j \in entries : named[i] = named[j] => i = j
  BY DEF NamedOnce
<1>4. \A s \in proven : \E i \in entries : named[i] = s
  BY DEF Idents
<1>5. named \in Bijection(entries, proven)
  BY <1>2, <1>3, <1>4 DEF Bijection, Injection, Surjection, IsInjective
<1>6. Cardinality(proven) = Cardinality(entries)
  <2> HIDE DEF entries, named
  <2> QED
    BY <1>1, <1>5, FS_Bijection DEF ExistsBijection
<1> QED
  BY <1>6 DEF Satisfied

\* The ledger asks for exactly as many of exactly those signers, if no account came
\* under a rule that named a signer twice.
THEOREM ThresholdSafety ==
  ASSUME \A v \in DOMAIN OwnRules : NamedOnce(OwnRules[v].list)
  PROVE  Spec => []ThresholdIsExact
<1>1. AccessInv => ThresholdIsExact
  <2> SUFFICES ASSUME AccessInv, Without({"case", "foreign", "hashed"}), NEW e \in Written,
                      NEW proven \in SUBSET asked[e].signers
               PROVE  Satisfied(rule[e], proven)
                        <=> Cardinality(proven) >= asked[e].threshold
    BY DEF ThresholdIsExact
  <2>1. e \in Entities /\ asked[e] # NotAsked
    BY DEF Written
  <2>2. NamedOnce(rule[e].list)
    BY <2>1 DEF AccessInv, OnceInv
  <2>3. Without({"foreign", "hashed"})
    BY DEF Without
  <2>4. /\ rule[e] # Null /\ rule[e].count = asked[e].threshold
        /\ Idents(rule[e].list) = asked[e].signers
    BY <2>1, <2>3 DEF AccessInv, RuleInv, WrittenInv
  <2>5. rule[e] \in RuleType
    BY <2>1, <2>4 DEF AccessInv, TypeOK
  <2> QED
    BY <2>2, <2>4, <2>5, SignersCount
<1> QED
  BY <1>1, AccessInvariance, PTL

\* As long as nothing odd was typed or imported, the page offers each signer of the
\* badge for removal, and nobody else.
THEOREM MembersSafety == Spec => []MembersAreSigners
<1>1. AccessInv => MembersAreSigners
  <2> SUFFICES ASSUME AccessInv, Without(Oddities), rule[Badge] # Null
               PROVE  {Ident(h.mfaVirtualResource) : h \in BadgeHolders} = Shown(Badge).signers
    BY DEF MembersAreSigners
  <2>1. Shown(Badge).signers = Idents(rule[Badge].list)
    BY Names, RuleRead DEF Shown
  <2>2. {n.text : n \in nft} = {rule[Badge].list[i] : i \in DOMAIN rule[Badge].list}
    BY DEF AccessInv, BadgesInv
  <2>3. {Ident(h.mfaVirtualResource) : h \in BadgeHolders} = {Ident(n.text) : n \in nft}
    <3> DEFINE joined(n) == [holderAddress |-> n.holder, mfaVirtualResource |-> n.text]
    <3>1. \A n \in nft : joined(n) \in BadgeHolders
      BY DEF BadgeHolders
    <3>2. \A h \in BadgeHolders : \E n \in nft : h = joined(n)
      BY DEF BadgeHolders
    <3>3. \A n : joined(n).mfaVirtualResource = n.text
      OBVIOUS
    <3> HIDE DEF joined
    <3> QED
      BY <3>1, <3>2, <3>3
  <2>4. {Ident(n.text) : n \in nft} = Idents(rule[Badge].list)
    BY <2>2 DEF Idents
  <2> QED
    BY <2>1, <2>3, <2>4
<1> QED
  BY <1>1, AccessInvariance, PTL
=============================================================================
