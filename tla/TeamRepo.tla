------------------------------ MODULE TeamRepo ------------------------------
(***************************************************************************)
(* The team_members table of one team, keyed by account, and the columns   *)
(* of a team proposal that a vault proposal does not use: its type, the    *)
(* account it adds or removes, and what its manifest does: the owner rules *)
(* it installs and the badge it recalls.  Each operator is one SQL         *)
(* statement.                                                              *)
(***************************************************************************)
EXTENDS ProposalRepo

CONSTANT Founders   \* members from the creation of the team
ASSUME FoundersAssumption == Founders \subseteq Accounts

VARIABLES
  member,   \* [Accounts -> MemberStates]; pending is confirmed = false
  detail    \* [Proposals -> DetailType], more columns of table proposals

teamVars == <<member, detail>>

MemberStates == {"none", "pending", "confirmed"}

Kinds == {"add_member", "remove_member", "change_threshold"}

\* The SET_OWNER_ROLE instructions of a manifest: a rule for some entities.
PlanType == UNION {[es -> Rules] : es \in SUBSET Entities}

\* Badge NFTs: one was minted for each founder, and an add-member proposal
\* mints its own.
Badges == Accounts \cup Proposals

DetailType ==
  [kind : Kinds \cup {"none"},
   target : Accounts \cup {Null},
   plan : PlanType,
   recall : Badges \cup {Null}]

NoDetail == [kind |-> "none", target |-> Null, plan |-> <<>>, recall |-> Null]

TeamRepoTypeOK ==
  /\ member \in [Accounts -> MemberStates]
  /\ detail \in [Proposals -> DetailType]

TeamRepoInit ==
  /\ member = [a \in Accounts |-> IF a \in Founders THEN "confirmed" ELSE "none"]
  /\ detail = [p \in Proposals |-> NoDetail]

\* Inserting a member who has a row violates the primary key: the caller
\* swallows the error.
AddMember(a) ==
  member' = [member EXCEPT ![a] = IF @ = "none" THEN "pending" ELSE @]

\* An UPDATE of no row is no error.
ConfirmMember(a) ==
  member' = [member EXCEPT ![a] = IF @ = "none" THEN "none" ELSE "confirmed"]

RemoveMember(a) == member' = [member EXCEPT ![a] = "none"]

InsertTeamProposal(p, e, deadline, d) ==
  /\ Insert(p, e, deadline)
  /\ detail' = [detail EXCEPT ![p] = d]
=============================================================================
