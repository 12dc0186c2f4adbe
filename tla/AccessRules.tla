---------------------------- MODULE AccessRules ----------------------------
(***************************************************************************)
(* The owner rules of badge resources and vaults: as members ask for them, *)
(* as the manifests write them (server gateway/manifests.ts, cli           *)
(* manifests.ts), as the Gateway shows them, and as the parser reads them  *)
(* back (shared accessRuleParser.ts), from which the next rule is made.    *)
(*                                                                         *)
(* Each operation is one step here, its transaction included;              *)
(* TeamProposals and Provisioning are about what happens in between.       *)
(*                                                                         *)
(* A signer is named by a text, a resource and a local id.  The id stands  *)
(* for a key; its hexadecimal digits may be in upper case, and the         *)
(* brackets around it may be missing ("bare").  The ledger shows it in     *)
(* lower case and with brackets ("lower").                                 *)
(***************************************************************************)
EXTENDS Naturals, FiniteSets, Sequences

CONSTANTS
  Texts,       \* texts that members may type: a set of TextType
  PublicKeys,  \* public keys that may stand in a bootstrap.json instead
  Keys,        \* what a local id stands for
  Accounts,    \* accounts that hold badge NFTs
  Vaults,      \* accounts that may become vaults
  OwnRules,    \* [a set of vaults -> rules], accounts that have been there before
  Thresholds,  \* thresholds that members may type
  MaxSigners,  \* bound on the length of a rule
  MaxOdd,      \* bound on the oddities in one behaviour
  Null         \* no rule, and a rule the parser does not support

Badge == "badge"    \* the badge resource of the team
Config == "config"  \* that of the bootstrap tool
Entities == Vaults \cup {Badge, Config}

\* The two resources whose local ids are key hashes; any other has NFTs.
SignatureBadges == {"ed25519", "secp256k1"}
Resources == SignatureBadges \cup {"other"}
TextType == [resource : Resources, key : Keys, form : {"lower", "upper", "bare"}]
PublicKeyType == [resource : SignatureBadges, key : Keys, form : {"public"}]

\* What the ledger may show: also local ids that no key has (LocalIdOfKey).
LocalIds == Keys \cup [cutFrom : Keys]
LedgerText == [resource : Resources, key : LocalIds, form : {"lower"}]

RuleType ==
  [type : {"Require", "AllOf", "CountOf", "Composite"}, count : Nat, list : Seq(LedgerText)]

ParsedType == [type : {"AllOf", "CountOf"}, count : Nat, signers : Seq(LedgerText)]

ASSUME TextsAssumption == Texts \subseteq TextType /\ PublicKeys \subseteq PublicKeyType
ASSUME VaultsAssumption == {Badge, Config} \cap Vaults = {} /\ DOMAIN OwnRules \subseteq Vaults
ASSUME NumbersAssumption == Thresholds \subseteq Nat \ {0} /\ MaxSigners \in Nat /\ MaxOdd \in Nat
ASSUME OwnRulesAssumption ==
  \A v \in DOMAIN OwnRules :
    /\ OwnRules[v] \in RuleType
    /\ \A i \in DOMAIN OwnRules[v].list : OwnRules[v].list[i].key \in Keys
ASSUME NullAssumption == Null \notin RuleType \cup ParsedType

VARIABLES
  rule,    \* [Entities -> a rule, or Null while there is none]
  nft,     \* badge NFTs: their holders and the texts in their data
  record,  \* vaults on record with the team
  asked,   \* history: [Entities -> AskedType], what its members asked for last
  odd      \* history: what was typed or imported that the code does not make up for

vars == <<rule, nft, record, asked, odd>>

Oddities == {"case", "foreign", "shared", "hashed"}

\* The non-fungible a text names.
Ident(text) == [resource |-> text.resource, key |-> text.key]

Idents(list) == {Ident(list[i]) : i \in DOMAIN list}

AskedType == [signers : SUBSET [resource : Resources, key : Keys], threshold : Nat]

NotAsked == [signers |-> {}, threshold |-> 0]

TypeOK ==
  /\ rule \in [Entities -> RuleType \cup {Null}]
  /\ nft \subseteq [holder : Accounts, text : {t \in TextType : t.form # "bare"}]
  /\ record \subseteq Vaults
  /\ asked \in [Entities -> AskedType]
  /\ odd \subseteq Oddities

\* Accounts to import have an owner rule from the start.
Given(e) == IF e \in DOMAIN OwnRules THEN OwnRules[e] ELSE Null

Init ==
  /\ rule = [e \in Entities |-> Given(e)]
  /\ nft = {} /\ record = {} /\ odd = {}
  /\ asked = [e \in Entities |-> NotAsked]

-----------------------------------------------------------------------------
(* Rules as the Gateway shows them, and as a transaction must satisfy them. *)

Require(text) == [type |-> "Require", count |-> 1, list |-> <<text>>]
AllOf(list) == [type |-> "AllOf", count |-> Len(list), list |-> list]
CountOf(n, list) == [type |-> "CountOf", count |-> n, list |-> list]

\* What is not a single basic requirement of non-fungibles.
Composite(list) == [type |-> "Composite", count |-> 1, list |-> list]

Canonical(text) == [text EXCEPT !.form = "lower"]

\* Committed, a rule loses the spelling of its texts.
OnLedger(r) == [r EXCEPT !.list = [i \in DOMAIN r.list |-> Canonical(r.list[i])]]

\* The engine counts entries of the list, not keys.
Satisfied(r, proven) ==
  Cardinality({i \in DOMAIN r.list : Ident(r.list[i]) \in proven}) >= r.count

-----------------------------------------------------------------------------
(* The parser, and what is made of its result. *)

\* VARIANT: the shape of a new team's badge is not known.
ParseNoRequire(r) ==
  IF r.type \in {"CountOf", "AllOf"} /\ r.list # <<>>
    THEN [type |-> r.type, count |-> r.count, signers |-> r.list] ELSE Null

\* Require counts as an AllOf of one.
Parse(r) ==
  IF r.type \in {"CountOf", "AllOf", "Require"} /\ r.list # <<>>
    THEN [type |-> IF r.type = "CountOf" THEN "CountOf" ELSE "AllOf",
          count |-> r.count, signers |-> r.list]
    ELSE Null

\* validate: no such entity, or a rule of another form.
Validate(e) == IF rule[e] = Null THEN Null ELSE Parse(rule[e])

ThresholdOf(parsed) == IF parsed.type = "CountOf" THEN parsed.count ELSE Len(parsed.signers)

\* getVaultSigners, what the pages show of a vault.
Shown(e) ==
  IF Validate(e) = Null THEN NotAsked
  ELSE [signers |-> Idents(Validate(e).signers), threshold |-> ThresholdOf(Validate(e))]

\* getOverview: the holders of the badge joined with the data of their NFTs.
BadgeHolders ==
  {[holderAddress |-> n.holder, mfaVirtualResource |-> n.text] : n \in nft}

-----------------------------------------------------------------------------
(* The manifests. *)

\* VARIANT: the kind of a key is forgotten.
EntryOfOneKind(text) == [text EXCEPT !.resource = "ed25519"]

\* Every resource but the one is written as the other.
Entry(text) ==
  [text EXCEPT !.resource = IF @ = "ed25519" THEN "ed25519" ELSE "secp256k1"]

\* VARIANT: all but one are taken for all.
RuleOfAlmost(list, threshold) ==
  IF threshold + 1 >= Len(list) THEN AllOf(list) ELSE CountOf(threshold, list)

\* buildMultisigAccessRule
RuleOf(list, threshold) ==
  IF threshold = Len(list) THEN AllOf(list) ELSE CountOf(threshold, list)

MultisigRule(signers, threshold) ==
  RuleOf([i \in DOMAIN signers |-> Entry(signers[i])], threshold)

\* Preview turns down a manifest with an id it cannot read.
Readable(text) == text.form # "bare"

Fits(threshold, list) == threshold \in Thresholds /\ threshold <= Len(list)

\* SET_OWNER_ROLE for every entity of a function from entities to thresholds,
\* with one list of signers; and what its members have thereby asked for.
SetOwners(thresholds, signers, wanted) ==
  /\ rule' = [e \in Entities |->
       IF e \in DOMAIN thresholds THEN OnLedger(MultisigRule(signers, thresholds[e]))
                                  ELSE rule[e]]
  /\ asked' = [e \in Entities |->
       IF e \in DOMAIN thresholds THEN [signers |-> wanted, threshold |-> thresholds[e]]
                                  ELSE asked[e]]

\* The signers as the members saw them before they asked for another.
Before(e) == IF asked[e] = NotAsked THEN Shown(e).signers ELSE asked[e].signers

Strange(text) ==
  (IF text.form = "upper" THEN {"case"} ELSE {})
    \cup (IF text.resource \notin SignatureBadges THEN {"foreign"} ELSE {})

\* All oddities go through here.
Note(oddities) ==
  /\ odd' = odd \cup oddities
  /\ Cardinality(odd') <= MaxOdd

-----------------------------------------------------------------------------
(* createTeam and the bootstrap tool.  Their badges have nothing in common: a   *)
(* behaviour is about one of them, which bounds the number of states.           *)

\* VARIANT: the text is taken as it comes.
BracketedNot(text) == text

\* resolveVirtualBadge adds the brackets where they are missing.
Bracketed(text) == IF text.form = "bare" THEN Canonical(text) ELSE text

\* buildCreateTeamBadgeManifest: one signer, whose text also goes into the NFT.
CreateTeam(a, text) ==
  /\ rule[Badge] = Null /\ rule[Config] = Null
  /\ rule' = [rule EXCEPT ![Badge] = OnLedger(Require(Bracketed(text)))]
  /\ asked' = [asked EXCEPT ![Badge] = [signers |-> {Ident(text)}, threshold |-> 1]]
  /\ nft' = {[holder |-> a, text |-> Bracketed(text)]}
  /\ Note(Strange(text))
  /\ UNCHANGED record

\* deriveSignatureBadgeLocalId: 26 bytes of the hash, where the local id of a key's
\* badge is made of 29.  No key has this local id.
LocalIdOfKey(key) == [cutFrom |-> key]

\* resolveSignerNFG: a badge is taken as it is, a public key is hashed.
Resolved(text) ==
  IF text.form = "public"
    THEN [text EXCEPT !.key = LocalIdOfKey(@), !.form = "lower"] ELSE text

\* What may stand in a bootstrap.json, by its schema and readBootstrapConfig.
ConfigLists == UNION {[1..n -> Texts \cup PublicKeys] : n \in 1..2}

\* buildCreateBadgeResourceManifest: NFTs named by the local ids of their holders'
\* signers, and the badge's owner rule; here no resource is rewritten.
BadgeManifest(list, threshold) ==
  LET signers == [i \in DOMAIN list |-> Resolved(list[i])] IN
    [supply |-> [i \in DOMAIN signers |-> signers[i].key],
     owner |-> RuleOf(signers, threshold)]

\* pnpm bootstrap run.  The ledger refuses two NFTs of one local id.
Bootstrap(list, threshold) ==
  LET manifest == BadgeManifest(list, threshold) IN
    /\ rule[Badge] = Null /\ rule[Config] = Null
    /\ Fits(threshold, list)
    /\ \A i \in DOMAIN list : Readable(list[i])
    /\ \A i, j \in DOMAIN list : i # j => manifest.supply[i] # manifest.supply[j]
    /\ rule' = [rule EXCEPT ![Config] = OnLedger(manifest.owner)]
    /\ asked' = [asked EXCEPT ![Config] = [signers |-> Idents(list), threshold |-> threshold]]
    /\ Note(IF \E i \in DOMAIN list : list[i].form = "public" THEN {"hashed"} ELSE {})
    /\ UNCHANGED <<nft, record>>

-----------------------------------------------------------------------------
(* createVault, importVault and createChangeThreshold. *)

CreateVault(v, threshold) ==
  /\ rule[v] = Null /\ rule[Badge] # Null
  /\ Fits(threshold, Validate(Badge).signers)
  /\ SetOwners([e \in {v} |-> threshold], Validate(Badge).signers, asked[Badge].signers)
  /\ record' = record \cup {v}
  /\ UNCHANGED <<nft, odd>>

ImportVault(v) ==
  /\ rule[Badge] # Null
  /\ v \notin record /\ Validate(v) # Null
  /\ record' = record \cup {v}
  /\ Note(UNION {Strange(Validate(v).signers[i]) : i \in DOMAIN Validate(v).signers})
  /\ UNCHANGED <<rule, nft, asked>>

ChangeThreshold(v, threshold) ==
  /\ v \in record
  /\ Fits(threshold, Validate(v).signers)
  /\ SetOwners([e \in {v} |-> threshold], Validate(v).signers, Before(v))
  /\ UNCHANGED <<nft, record, odd>>

-----------------------------------------------------------------------------
(* createAddMember and createRemoveMember, with the vaults the form has listed. *)

\* A threshold for the badge and for each of the vaults, within reach of the list.
ThresholdsFor(list) ==
  [record \cup {Badge} -> {n \in Thresholds : Fits(n, list)}]

\* Resource and id are compared as they are spelled.
Same(s, t) == s = t

Listed(list, text) == \E i \in DOMAIN list : Same(list[i], text)

AddMember(a, text) ==
  /\ rule[Badge] # Null
  /\ LET list == Append(Validate(Badge).signers, text) IN
       /\ ~ Listed(Validate(Badge).signers, text)
       /\ Readable(text)
       /\ Len(list) <= MaxSigners
       /\ \E thresholds \in ThresholdsFor(list) :
            SetOwners(thresholds, list, asked[Badge].signers \cup {Ident(text)})
  /\ nft' = nft \cup {[holder |-> a, text |-> text]}
  /\ Note(Strange(text) \cup (IF \E n \in nft : n.holder = a THEN {"shared"} ELSE {}))
  /\ UNCHANGED record

\* How far along a set of positions one of them is.
Rank(positions, i) == Cardinality({j \in positions : j <= i})

\* signers.filter: the entries of a list with another text, in their order.
Filtered(list, text) ==
  LET kept == {i \in DOMAIN list : ~ Same(list[i], text)}
  IN  [n \in 1..Cardinality(kept) |-> list[CHOOSE i \in kept : Rank(kept, i) = n]]

\* The member chosen on the page is one of the holders; what is recalled is the
\* first badge of that account.
RemoveMember(chosen, recalled) ==
  /\ rule[Badge] # Null
  /\ chosen \in BadgeHolders /\ recalled \in nft
  /\ recalled.holder = chosen.holderAddress
  /\ LET list == Filtered(Validate(Badge).signers, chosen.mfaVirtualResource) IN
       /\ Listed(Validate(Badge).signers, chosen.mfaVirtualResource)
       /\ list # <<>>
       /\ \E thresholds \in ThresholdsFor(list) :
            SetOwners(thresholds, list, asked[Badge].signers \ {Ident(chosen.mfaVirtualResource)})
  /\ nft' = nft \ {recalled}
  /\ UNCHANGED <<record, odd>>

-----------------------------------------------------------------------------

Next ==
  \/ \E a \in Accounts, text \in Texts : CreateTeam(a, text) \/ AddMember(a, text)
  \/ \E list \in ConfigLists, t \in Thresholds : Bootstrap(list, t)
  \/ \E v \in Vaults, t \in Thresholds : CreateVault(v, t) \/ ChangeThreshold(v, t)
  \/ \E v \in Vaults : ImportVault(v)
  \/ \E chosen \in BadgeHolders, recalled \in nft : RemoveMember(chosen, recalled)

Spec == Init /\ [][Next]_vars

-----------------------------------------------------------------------------
(* Properties. *)

Without(set) == odd \cap set = {}

Written == {e \in Entities : asked[e] # NotAsked}

\* Every rule this code has written, through however many rounds of reading one
\* rule to write the next, is one it can read, and what it then shows are the
\* signers and the threshold asked for: unless a signer is no key or was hashed.
ShownAsAsked == Without({"foreign", "hashed"}) => \A e \in Written : Shown(e) = asked[e]

\* On the ledger as many of those signers as the threshold says are enough, and
\* fewer are not: unless one of them is no key or was hashed, or a key was spelled
\* differently and so is in the list twice.
ThresholdIsExact ==
  Without({"case", "foreign", "hashed"}) =>
    \A e \in Written : \A proven \in SUBSET asked[e].signers :
      Satisfied(rule[e], proven) <=> Cardinality(proven) >= asked[e].threshold

\* The badge's NFTs name its signers, so that the page can offer each of them for
\* removal, unless a text has another spelling or an account holds two badges.
MembersAreSigners ==
  Without(Oddities) /\ rule[Badge] # Null =>
    {Ident(h.mfaVirtualResource) : h \in BadgeHolders} = Shown(Badge).signers

-----------------------------------------------------------------------------
(* The inductive invariant.  A rule is made from the one that was read last,  *)
(* so what is true of one rule must be enough for the next.                   *)

\* No two entries of a list name one signer.
NamedOnce(list) == \A i, j \in DOMAIN list : Ident(list[i]) = Ident(list[j]) => i = j

\* What this code has written is a rule it can read, about the signers asked for.
WrittenInv(e) ==
  asked[e] # NotAsked =>
    /\ rule[e] # Null
    /\ rule[e].type \in {"Require", "AllOf", "CountOf"} /\ rule[e].list # <<>>
    /\ rule[e].count = asked[e].threshold
    /\ rule[e].type # "CountOf" => rule[e].count = Len(rule[e].list)
    /\ Without({"foreign", "hashed"}) => Idents(rule[e].list) = asked[e].signers

\* Rules from which another may be made: the badge's and those of vaults on record.
ReadInv(e) ==
  /\ e \in record => rule[e] # Null /\ Validate(e) # Null
  /\ (e \in record \/ (e = Badge /\ rule[Badge] # Null)) /\ Without({"foreign"}) =>
       \A i \in DOMAIN rule[e].list : rule[e].list[i].resource \in SignatureBadges

RuleInv(e) ==
  /\ asked[e] = NotAsked => rule[e] = Given(e)
  /\ rule[e] # Null /\ e # Config =>
       \A i \in DOMAIN rule[e].list : rule[e].list[i].key \in Keys
  /\ WrittenInv(e)
  /\ ReadInv(e)

\* If no account had an owner rule that named a signer twice.
OnceInv ==
  /\ \A v \in DOMAIN OwnRules : NamedOnce(OwnRules[v].list)
  /\ Without({"case", "foreign", "hashed"})
  => \A e \in Entities : e \in record \/ asked[e] # NotAsked => NamedOnce(rule[e].list)

\* Badges and entries of the badge's rule are one to one.
BadgesInv ==
  Without(Oddities) /\ rule[Badge] # Null =>
    /\ {n.text : n \in nft} = {rule[Badge].list[i] : i \in DOMAIN rule[Badge].list}
    /\ \A n, m \in nft : n.holder = m.holder \/ n.text = m.text => n = m

AccessInv ==
  /\ TypeOK
  /\ \A e \in Entities : RuleInv(e)
  /\ OnceInv
  /\ BadgesInv

=============================================================================
