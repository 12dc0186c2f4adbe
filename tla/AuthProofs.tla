----------------------------- MODULE AuthProofs -----------------------------
(***************************************************************************)
(* The safety properties of Auth hold for any number of challenges,        *)
(* sessions, accounts, keys and requests in flight, for any lifetimes and  *)
(* any difference between the two clocks, with or without faults.          *)
(***************************************************************************)
EXTENDS Auth, TLAPS

USE NullAssumption

-----------------------------------------------------------------------------
(* Types *)

\* Every step keeps the variables in their types.
LEMMA AuthTypeStep == AuthInv /\ [Next]_vars => TypeOK'
<1> SUFFICES ASSUME AuthInv, [Next]_vars PROVE TypeOK'
  OBVIOUS
<1> USE DEF TypeOK
<1>0. TypeOK
  BY DEF AuthInv
<1>a. Idle \in RequestType
  BY DEF Idle, RequestType
<1>f. ASSUME NEW r \in Requests, Finish(r) PROVE req' \in [Requests -> RequestType]
  BY <1>0, <1>a, <1>f DEF Finish
<1>g. ASSUME NEW r \in Requests, NEW pc \in VerifyPcs \cup GuardPcs, Goto(r, pc)
      PROVE  req' \in [Requests -> RequestType]
  BY <1>0, <1>g DEF Goto, RequestType
<1>s. 0..MaxTime \subseteq Int /\ \A k \in Skews : k \in Int
  BY TimesAssumption
<1>1. ASSUME NEW c \in Challenges, NEW skew \in Skews, CreateChallenge(c, skew)
      PROVE  TypeOK'
  <2>1. [state |-> "fresh", expiresAt |-> clock + skew + ChallengeTTL] \in ChallengeType
    BY <1>0, <1>s, TimesAssumption DEF ChallengeType
  <2> QED
    BY <1>0, <1>1, <2>1 DEF CreateChallenge, world
<1>2. ASSUME NEW r \in Requests, NEW c \in Challenges, NEW a \in Accounts,
             NEW k \in Keys, VerifyBegin(r, c, a, k)
      PROVE  TypeOK'
  <2>1. \A x \in Keys \cup {Null} :
          [Idle EXCEPT !.pc = "verify.consume", !.challenge = c, !.account = a,
                       !.key = k, !.signer = x] \in RequestType
    BY <1>a DEF RequestType, GuardPcs, VerifyPcs
  <2> QED
    BY <1>0, <1>2, <2>1 DEF VerifyBegin, Begin, tables, world
<1>3. ASSUME NEW r \in Requests, NEW s \in Sessions, GuardBegin(r, s)
      PROVE  TypeOK'
  <2>1. [Idle EXCEPT !.pc = "guard.validate", !.session = s] \in RequestType
    BY <1>a DEF RequestType, GuardPcs, VerifyPcs
  <2> QED
    BY <1>0, <1>3, <2>1 DEF GuardBegin, Begin, tables, world
<1>4. ASSUME NEW r \in Requests, Consume(r)
      PROVE  TypeOK'
  <2>1. req' \in [Requests -> RequestType]
    BY <1>4, <1>f, <1>g DEF Consume, VerifyPcs
  <2>2. challenge' \in [Challenges -> ChallengeType]
    BY <1>0, <1>4 DEF Consume, ChallengeType
  <2> QED
    BY <1>0, <1>4, <2>1, <2>2 DEF Consume, world
<1>5. ASSUME NEW r \in Requests, Rola(r)
      PROVE  TypeOK'
  BY <1>0, <1>5, <1>f, <1>g DEF Rola, VerifyPcs, tables, world
<1>6. ASSUME NEW r \in Requests, NEW s \in Sessions, NEW skew \in Skews,
             CreateSession(r, s, skew)
      PROVE  TypeOK'
  <2>1. /\ req[r].challenge \in Challenges /\ req[r].account \in Accounts
        /\ req[r].key \in Keys
    BY <1>6 DEF AuthInv, VerifyInv, CreateSession, At, VerifyPcs
  <2>2. clock + skew + SessionTTL \in Int
    BY <1>0, <1>s, TimesAssumption
  <2>3. session' \in [Sessions -> SessionType]
    BY <1>0, <1>6, <2>1, <2>2 DEF CreateSession, SessionType
  <2>4. opened' \subseteq OpenedType
    BY <1>0, <1>6, <2>1, <2>2 DEF CreateSession, OpenedType
  <2> QED
    BY <1>0, <1>6, <1>f, <2>3, <2>4 DEF CreateSession, world
<1>7. ASSUME NEW r \in Requests, Validate(r)
      PROVE  TypeOK'
  <2>1. req[r].session \in Sessions
    BY <1>7 DEF AuthInv, GuardInv, Validate, At, GuardPcs
  <2>2. session[req[r].session].account \in Accounts \cup {Null}
    BY <1>0, <2>1 DEF SessionType
  <2>3. req' \in [Requests -> RequestType]
    BY <1>0, <1>7, <1>f, <1>s, <2>2 DEF Validate, RequestType, GuardPcs
  <2> QED
    BY <1>0, <1>7, <2>3 DEF Validate, tables, world
<1>8. ASSUME NEW r \in Requests, Handle(r)
      PROVE  TypeOK'
  BY <1>0, <1>8, <1>f, <1>g DEF Handle, GuardPcs, tables, world
<1>9. ASSUME NEW r \in Requests, Destroy(r)
      PROVE  TypeOK'
  <2>1. req[r].session \in Sessions
    BY <1>9 DEF AuthInv, GuardInv, Destroy, At, GuardPcs
  <2>2. session' \in [Sessions -> SessionType]
    BY <1>0, <1>9, <2>1 DEF Destroy, DeleteRow, SessionType
  <2> QED
    BY <1>0, <1>9, <1>f, <2>1, <2>2 DEF Destroy, world
<1>10. ASSUME NEW r \in Requests, Abort(r)
       PROVE  TypeOK'
  BY <1>0, <1>10, <1>f DEF Abort, tables, world
<1>11. ASSUME NEW c \in Challenges, NEW k \in Keys, Sign(c, k)
       PROVE  TypeOK'
  BY <1>0, <1>11 DEF Sign, tables
<1>12. ASSUME NEW a \in Accounts, NEW keys \in KeySets[a], SetOwnerKeys(a, keys)
       PROVE  TypeOK'
  <2>1. ownerKeys' \in Metadata
    BY <1>0, <1>12, KeySetsAssumption DEF SetOwnerKeys, Metadata
  <2> QED
    BY <1>0, <1>12, <2>1 DEF SetOwnerKeys, HeldPairs, tables
<1>13. CASE Tick
  BY <1>0, <1>13, TimesAssumption DEF Tick, tables
<1>14. CASE UNCHANGED vars
  BY <1>0, <1>14 DEF vars, tables, world
<1> QED
  BY <1>1, <1>2, <1>3, <1>4, <1>5, <1>6, <1>7, <1>8, <1>9, <1>10, <1>11, <1>12,
     <1>13, <1>14 DEF Next, Continue

-----------------------------------------------------------------------------
(* What never goes away *)

\* Records only grow: a spent challenge stays spent, a signature, a key once
\* held and a login stay on record, a session row keeps its account and its
\* deadline, and a deleted one stays deleted.
Grows ==
  /\ signed \subseteq signed' /\ held \subseteq held' /\ opened \subseteq opened'
  /\ \A c \in Challenges : challenge[c].state = "used" => challenge'[c].state = "used"
  /\ \A s \in Sessions : session[s].state # "absent" =>
       /\ session'[s].state # "absent"
       /\ session'[s].account = session[s].account
       /\ session'[s].expiresAt = session[s].expiresAt
       /\ session[s].state = "deleted" => session'[s].state = "deleted"

LEMMA AuthGrowsStep == AuthInv /\ [Next]_vars => Grows
<1> SUFFICES ASSUME AuthInv, [Next]_vars PROVE Grows
  OBVIOUS
<1>0. TypeOK
  BY DEF AuthInv
<1>a. UNCHANGED tables /\ signed \subseteq signed' /\ held \subseteq held'
        /\ opened \subseteq opened' => Grows
  BY DEF Grows, tables
<1>1. ASSUME NEW c \in Challenges, NEW skew \in Skews, CreateChallenge(c, skew)
      PROVE  Grows
  BY <1>0, <1>1 DEF CreateChallenge, Grows, world, TypeOK
<1>2. ASSUME NEW r \in Requests, Consume(r)
      PROVE  Grows
  BY <1>0, <1>2 DEF Consume, Consumable, Grows, world, TypeOK, ChallengeType
<1>3. ASSUME NEW r \in Requests, NEW s \in Sessions, NEW skew \in Skews,
             CreateSession(r, s, skew)
      PROVE  Grows
  BY <1>0, <1>3 DEF CreateSession, Grows, world, TypeOK
<1>4. ASSUME NEW r \in Requests, Destroy(r)
      PROVE  Grows
  BY <1>0, <1>4 DEF Destroy, DeleteRow, Grows, world, TypeOK, SessionType
<1>5. ASSUME NEW r \in Requests,
             \/ \E c \in Challenges, a \in Accounts, k \in Keys : VerifyBegin(r, c, a, k)
             \/ \E s \in Sessions : GuardBegin(r, s)
             \/ Rola(r) \/ Validate(r) \/ Handle(r) \/ Abort(r)
      PROVE  Grows
  BY <1>5, <1>a DEF VerifyBegin, GuardBegin, Rola, Validate, Handle, Abort, world
<1>6. ASSUME NEW c \in Challenges, NEW k \in Keys, Sign(c, k)
      PROVE  Grows
  BY <1>6, <1>a DEF Sign
<1>7. ASSUME NEW a \in Accounts, NEW keys \in KeySets[a], SetOwnerKeys(a, keys)
      PROVE  Grows
  BY <1>7, <1>a DEF SetOwnerKeys
<1>8. CASE Tick \/ UNCHANGED vars
  BY <1>8, <1>a DEF Tick, vars, world
<1> QED
  BY <1>1, <1>2, <1>3, <1>4, <1>5, <1>6, <1>7, <1>8 DEF Next, Continue

-----------------------------------------------------------------------------
(* The parts of the invariant *)

\* A request that takes no step keeps what it knows.
LEMMA AuthOthers ==
  ASSUME AuthInv, Grows, NEW q \in Requests, req'[q] = req[q]
  PROVE  VerifyInv(q)' /\ GuardInv(q)'
<1>1. VerifyInv(q) /\ GuardInv(q)
  BY DEF AuthInv
<1>2. VerifyInv(q)'
  BY <1>1 DEF VerifyInv, Grows, Spending, At
<1>3. GuardInv(q)'
  BY <1>1 DEF GuardInv, Grows, At
<1> QED
  BY <1>2, <1>3

\* Moving on changes the program point of one request and nothing else.
Moved(r, pc) ==
  /\ req'[r].pc = pc
  /\ req'[r].challenge = req[r].challenge /\ req'[r].account = req[r].account
  /\ req'[r].key = req[r].key /\ req'[r].signer = req[r].signer
  /\ req'[r].session = req[r].session /\ req'[r].since = req[r].since
  /\ \A q \in Requests \ {r} : req'[q] = req[q]

LEMMA GotoMoves ==
  ASSUME TypeOK, NEW r \in Requests, NEW pc, Goto(r, pc)
  PROVE  Moved(r, pc)
  BY DEF Moved, Goto, TypeOK, RequestType

\* Each program point knows what its calls have established.
LEMMA AuthRequestStep ==
  ASSUME AuthInv, [Next]_vars
  PROVE  \A q \in Requests : VerifyInv(q)' /\ GuardInv(q)'
<1> USE DEF VerifyPcs, GuardPcs
<1>0. TypeOK /\ Grows
  BY AuthGrowsStep DEF AuthInv
<1>o. ASSUME NEW r \in Requests, \A q \in Requests \ {r} : req'[q] = req[q],
             VerifyInv(r)' /\ GuardInv(r)'
      PROVE  \A q \in Requests : VerifyInv(q)' /\ GuardInv(q)'
  BY <1>0, <1>o, AuthOthers
<1>u. ASSUME UNCHANGED req
      PROVE  \A q \in Requests : VerifyInv(q)' /\ GuardInv(q)'
  BY <1>0, <1>u, AuthOthers
<1>f. ASSUME NEW r \in Requests, Finish(r)
      PROVE  \A q \in Requests : VerifyInv(q)' /\ GuardInv(q)'
  <2>1. req'[r].pc = "idle" /\ \A q \in Requests \ {r} : req'[q] = req[q]
    BY <1>0, <1>f DEF Finish, Idle, TypeOK
  <2> QED
    BY <1>o, <2>1 DEF VerifyInv, GuardInv
<1>1. ASSUME NEW r \in Requests, NEW c \in Challenges, NEW a \in Accounts,
             NEW k \in Keys, VerifyBegin(r, c, a, k)
      PROVE  \A q \in Requests : VerifyInv(q)' /\ GuardInv(q)'
  <2>1. /\ req'[r].pc = "verify.consume" /\ req'[r].challenge = c
        /\ req'[r].account = a /\ req'[r].key = k
        /\ req'[r].signer = (IF <<c, k>> \in signed THEN k ELSE Null)
        /\ \A q \in Requests \ {r} : req'[q] = req[q]
    BY <1>0, <1>1 DEF VerifyBegin, Begin, Idle, TypeOK
  <2> QED
    BY <1>1, <1>o, <2>1 DEF VerifyBegin, VerifyInv, GuardInv, Spending, At, world
<1>2. ASSUME NEW r \in Requests, NEW s \in Sessions, GuardBegin(r, s)
      PROVE  \A q \in Requests : VerifyInv(q)' /\ GuardInv(q)'
  <2>1. /\ req'[r].pc = "guard.validate" /\ req'[r].session = s
        /\ \A q \in Requests \ {r} : req'[q] = req[q]
    BY <1>0, <1>2 DEF GuardBegin, Begin, Idle, TypeOK
  <2> QED
    BY <1>2, <1>o, <2>1 DEF GuardBegin, VerifyInv, GuardInv, At, tables
<1>3. ASSUME NEW r \in Requests, Consume(r)
      PROVE  \A q \in Requests : VerifyInv(q)' /\ GuardInv(q)'
  <2>1. CASE Finish(r)
    BY <2>1, <1>f
  <2>2. CASE Goto(r, "verify.rola") /\ Consumable(req[r].challenge)
    <3>1. VerifyInv(r) /\ At(r, "verify.consume")
      BY <1>3 DEF Consume, AuthInv
    <3>2. req[r].challenge \in Challenges
      BY <3>1 DEF VerifyInv, At
    <3>3. challenge'[req[r].challenge].state = "used"
      BY <1>0, <1>3, <2>2, <3>2 DEF Consume, TypeOK, ChallengeType
    <3>4. Moved(r, "verify.rola") /\ UNCHANGED signed
      BY <1>0, <1>3, <2>2, GotoMoves DEF Consume, world
    <3>5. VerifyInv(r)' /\ GuardInv(r)'
      BY <3>1, <3>3, <3>4 DEF Moved, VerifyInv, GuardInv, Spending, At
    <3> QED
      BY <1>o, <3>4, <3>5 DEF Moved
  <2> QED
    BY <1>3, <2>1, <2>2 DEF Consume
<1>4. ASSUME NEW r \in Requests, Rola(r)
      PROVE  \A q \in Requests : VerifyInv(q)' /\ GuardInv(q)'
  <2>1. CASE Finish(r)
    BY <2>1, <1>f
  <2>2. CASE Goto(r, "verify.create") /\ req[r].signer = req[r].key
               /\ SpeaksFor(req[r].key, req[r].account)
    <3>1. VerifyInv(r) /\ At(r, "verify.rola") /\ HeldInv
      BY <1>4 DEF Rola, AuthInv
    <3>2. <<req[r].account, req[r].key>> \in held
      BY <2>2, <3>1 DEF SpeaksFor, HeldInv, HeldPairs, VerifyInv, At
    <3>3. Moved(r, "verify.create") /\ UNCHANGED <<challenge, signed, held>>
      BY <1>0, <1>4, <2>2, GotoMoves DEF Rola, tables, world
    <3>4. VerifyInv(r)' /\ GuardInv(r)'
      BY <2>2, <3>1, <3>2, <3>3 DEF Moved, VerifyInv, GuardInv, Spending, At
    <3> QED
      BY <1>o, <3>3, <3>4 DEF Moved
  <2> QED
    BY <1>4, <2>1, <2>2 DEF Rola
<1>5. ASSUME NEW r \in Requests, Validate(r)
      PROVE  \A q \in Requests : VerifyInv(q)' /\ GuardInv(q)'
  <2>1. CASE Finish(r)
    BY <2>1, <1>f
  <2>2. CASE /\ Valid(req[r].session)
             /\ req' = [req EXCEPT ![r].pc = "guard.handler", ![r].since = clock,
                                   ![r].account = session[req[r].session].account]
    <3>1. GuardInv(r) /\ At(r, "guard.validate")
      BY <1>5 DEF Validate, AuthInv
    <3>2. /\ req[r].session \in Sessions
          /\ session[req[r].session].expiresAt \in Int /\ clock \in Int
      BY <1>0, <3>1 DEF GuardInv, At, TypeOK, SessionType
    <3>3. /\ req'[r].pc = "guard.handler" /\ req'[r].since = clock
          /\ req'[r].account = session[req[r].session].account
          /\ req'[r].session = req[r].session
          /\ \A q \in Requests \ {r} : req'[q] = req[q]
      BY <1>0, <2>2 DEF TypeOK, RequestType
    <3>4. UNCHANGED session
      BY <1>5 DEF Validate, tables
    <3>5. clock < session[req[r].session].expiresAt
      BY <2>2, <3>2 DEF Valid
    <3> QED
      BY <1>o, <3>1, <3>2, <3>3, <3>4, <3>5 DEF VerifyInv, GuardInv, At
  <2> QED
    BY <1>5, <2>1, <2>2 DEF Validate
<1>6. ASSUME NEW r \in Requests, Handle(r)
      PROVE  \A q \in Requests : VerifyInv(q)' /\ GuardInv(q)'
  <2>1. CASE Finish(r)
    BY <2>1, <1>f
  <2>2. CASE Goto(r, "logout.destroy")
    <3>1. GuardInv(r) /\ At(r, "guard.handler") /\ UNCHANGED session
      BY <1>6 DEF Handle, AuthInv, tables
    <3>2. Moved(r, "logout.destroy")
      BY <1>0, <2>2, GotoMoves
    <3>3. VerifyInv(r)' /\ GuardInv(r)'
      BY <3>1, <3>2 DEF Moved, VerifyInv, GuardInv, At
    <3> QED
      BY <1>o, <3>2, <3>3 DEF Moved
  <2> QED
    BY <1>6, <2>1, <2>2 DEF Handle
<1>7. ASSUME NEW r \in Requests,
             \/ \E s \in Sessions, skew \in Skews : CreateSession(r, s, skew)
             \/ Destroy(r) \/ Abort(r)
      PROVE  \A q \in Requests : VerifyInv(q)' /\ GuardInv(q)'
  BY <1>7, <1>f DEF CreateSession, Destroy, Abort
<1>8. CASE \/ \E c \in Challenges, skew \in Skews : CreateChallenge(c, skew)
           \/ \E c \in Challenges, k \in Keys : Sign(c, k)
           \/ \E a \in Accounts : \E keys \in KeySets[a] : SetOwnerKeys(a, keys)
           \/ Tick \/ UNCHANGED vars
  BY <1>8, <1>u DEF CreateChallenge, Sign, SetOwnerKeys, Tick, vars
<1> QED
  BY <1>1, <1>2, <1>3, <1>4, <1>5, <1>6, <1>7, <1>8 DEF Next, Continue

\* Only consume gives a request the use of a challenge, and only if no other
\* request and no session has had it; opening a session uses it up.
LEMMA AuthSpentStep == AuthInv /\ [Next]_vars => SpentInv'
<1> SUFFICES ASSUME AuthInv, [Next]_vars PROVE SpentInv'
  OBVIOUS
<1>0. TypeOK /\ SpentInv /\ Grows
  BY AuthGrowsStep DEF AuthInv
<1>v. \A q \in Requests : VerifyInv(q)
  BY DEF AuthInv
<1>c. \A x \in opened : x.challenge \in Challenges
  BY <1>0 DEF TypeOK, OpenedType
<1>a. ASSUME UNCHANGED opened,
             \A q \in Requests : Spending(q)' =>
               Spending(q) /\ req'[q].challenge = req[q].challenge
      PROVE  SpentInv'
  BY <1>0, <1>a, <1>c DEF SpentInv, Grows
<1>f. ASSUME NEW r \in Requests, Finish(r)
      PROVE  \A q \in Requests : Spending(q)' =>
               q # r /\ Spending(q) /\ req'[q].challenge = req[q].challenge
  BY <1>0, <1>f DEF Finish, Idle, Spending, TypeOK
<1>m. ASSUME NEW r \in Requests, NEW pc, Moved(r, pc),
             pc \in {"verify.rola", "verify.create"} => Spending(r)
      PROVE  \A q \in Requests : Spending(q)' =>
               Spending(q) /\ req'[q].challenge = req[q].challenge
  BY <1>m DEF Moved, Spending
<1>1. ASSUME NEW r \in Requests,
             \/ \E c \in Challenges, a \in Accounts, k \in Keys : VerifyBegin(r, c, a, k)
             \/ \E s \in Sessions : GuardBegin(r, s)
      PROVE  SpentInv'
  <2>1. ~ Spending(r)' /\ \A q \in Requests \ {r} : req'[q] = req[q]
    <3>1. ASSUME NEW c \in Challenges, NEW a \in Accounts, NEW k \in Keys,
                 VerifyBegin(r, c, a, k)
          PROVE  req'[r].pc = "verify.consume" /\ \A q \in Requests \ {r} : req'[q] = req[q]
      BY <1>0, <3>1 DEF VerifyBegin, Begin, Idle, TypeOK
    <3>2. ASSUME NEW s \in Sessions, GuardBegin(r, s)
          PROVE  req'[r].pc = "guard.validate" /\ \A q \in Requests \ {r} : req'[q] = req[q]
      BY <1>0, <3>2 DEF GuardBegin, Begin, Idle, TypeOK
    <3> QED
      BY <1>1, <3>1, <3>2 DEF Spending
  <2> QED
    BY <1>1, <1>a, <2>1 DEF VerifyBegin, GuardBegin, Spending
<1>2. ASSUME NEW r \in Requests, Consume(r)
      PROVE  SpentInv'
  <2>1. CASE Finish(r)
    BY <1>2, <2>1, <1>a, <1>f DEF Consume
  <2>2. CASE Goto(r, "verify.rola") /\ Consumable(req[r].challenge)
    <3>1. Moved(r, "verify.rola") /\ UNCHANGED opened
      BY <1>0, <1>2, <2>2, GotoMoves DEF Consume
    <3>2. req[r].challenge \in Challenges /\ challenge[req[r].challenge].state # "used"
      BY <1>2, <1>v, <2>2 DEF Consume, Consumable, VerifyInv, VerifyPcs, At
    <3>3. \A x \in opened : x.challenge # req[r].challenge
      BY <1>0, <3>2 DEF SpentInv
    <3>4. \A q \in Requests : Spending(q) => req[q].challenge # req[r].challenge
      BY <1>v, <3>2 DEF VerifyInv, VerifyPcs, Spending
    <3>5. \A q \in Requests \ {r} : Spending(q)' => Spending(q) /\ req'[q] = req[q]
      BY <3>1 DEF Moved, Spending
    <3>6. req'[r].challenge = req[r].challenge
      BY <3>1 DEF Moved
    <3>7. \A x \in opened : challenge'[x.challenge].state = "used"
      BY <1>0, <1>c DEF SpentInv, Grows
    <3> QED
      BY <1>0, <3>1, <3>3, <3>4, <3>5, <3>6, <3>7 DEF SpentInv
  <2> QED
    BY <1>2, <2>1, <2>2 DEF Consume
<1>3. ASSUME NEW r \in Requests, Rola(r)
      PROVE  SpentInv'
  <2>1. UNCHANGED opened /\ Spending(r)
    BY <1>3 DEF Rola, Spending, At
  <2>2. Finish(r) \/ Moved(r, "verify.create")
    BY <1>0, <1>3, GotoMoves DEF Rola
  <2> QED
    BY <1>a, <1>f, <1>m, <2>1, <2>2
<1>4. ASSUME NEW r \in Requests, NEW s \in Sessions, NEW skew \in Skews,
             CreateSession(r, s, skew)
      PROVE  SpentInv'
  <2>1. Spending(r) /\ Finish(r) /\ UNCHANGED challenge
    BY <1>4 DEF CreateSession, Spending, At
  <2>2. challenge[req[r].challenge].state = "used"
    BY <1>v, <2>1 DEF VerifyInv, VerifyPcs, Spending
  <2>3. \A x \in opened' : x \in opened \/ x.challenge = req[r].challenge
    BY <1>4 DEF CreateSession
  <2>4. \A q \in Requests : Spending(q)' => Spending(q) /\ q # r
                              /\ req'[q].challenge = req[q].challenge
    BY <1>f, <2>1
  <2> QED
    BY <1>0, <2>1, <2>2, <2>3, <2>4 DEF SpentInv
<1>5. ASSUME NEW r \in Requests, Validate(r)
      PROVE  SpentInv'
  <2>1. ASSUME ~ Finish(r)
        PROVE  ~ Spending(r)' /\ \A q \in Requests \ {r} : req'[q] = req[q]
    BY <1>0, <1>5, <2>1 DEF Validate, Spending, TypeOK, RequestType
  <2> QED
    BY <1>5, <1>a, <1>f, <2>1 DEF Validate, Spending
<1>6. ASSUME NEW r \in Requests, Handle(r)
      PROVE  SpentInv'
  <2>1. UNCHANGED opened
    BY <1>6 DEF Handle
  <2>2. Finish(r) \/ Moved(r, "logout.destroy")
    BY <1>0, <1>6, GotoMoves DEF Handle
  <2> QED
    BY <1>a, <1>f, <1>m, <2>1, <2>2
<1>7. ASSUME NEW r \in Requests, Destroy(r) \/ Abort(r)
      PROVE  SpentInv'
  BY <1>7, <1>a, <1>f DEF Destroy, Abort
<1>8. CASE \/ \E c \in Challenges, skew \in Skews : CreateChallenge(c, skew)
           \/ \E c \in Challenges, k \in Keys : Sign(c, k)
           \/ \E a \in Accounts : \E keys \in KeySets[a] : SetOwnerKeys(a, keys)
           \/ Tick \/ UNCHANGED vars
  BY <1>8, <1>a DEF CreateChallenge, Sign, SetOwnerKeys, Tick, vars, Spending
<1> QED
  BY <1>1, <1>2, <1>3, <1>4, <1>5, <1>6, <1>7, <1>8 DEF Next, Continue

\* What is said of logins and of session rows is only touched by opening a
\* session, which has its proof and its only challenge, and by logout.
LEMMA AuthSessionStep ==
  AuthInv /\ [Next]_vars => (SessionInv /\ OneSessionPerChallenge /\ SessionsAreProven)'
<1> SUFFICES ASSUME AuthInv, [Next]_vars
             PROVE  SessionInv' /\ OneSessionPerChallenge' /\ SessionsAreProven'
  OBVIOUS
<1>0. /\ TypeOK /\ Grows /\ SessionInv /\ SpentInv
      /\ OneSessionPerChallenge /\ SessionsAreProven
  BY AuthGrowsStep DEF AuthInv
<1>1. ASSUME NEW r \in Requests, NEW s \in Sessions, NEW skew \in Skews,
             CreateSession(r, s, skew)
      PROVE  SessionInv' /\ OneSessionPerChallenge' /\ SessionsAreProven'
  <2> DEFINE expiry == clock + skew + SessionTTL
             new == [session |-> s, challenge |-> req[r].challenge,
                     account |-> req[r].account, key |-> req[r].key, expiresAt |-> expiry]
  <2>1. /\ opened' = opened \cup {new}
        /\ session' = [session EXCEPT ![s] =
             [state |-> "stored", account |-> req[r].account, expiresAt |-> expiry]]
        /\ session[s].state = "absent" /\ UNCHANGED <<loggedOut, signed, held>>
    BY <1>1 DEF CreateSession, world
  <2>2. VerifyInv(r) /\ At(r, "verify.create") /\ Spending(r)
    BY <1>1 DEF CreateSession, AuthInv, Spending, At
  <2>3. \A x \in opened : x.challenge # new.challenge
    BY <1>0, <2>2 DEF SpentInv
  <2>4. OneSessionPerChallenge'
    BY <1>0, <2>1, <2>3 DEF OneSessionPerChallenge
  <2>5. <<new.challenge, new.key>> \in signed /\ <<new.account, new.key>> \in held
    BY <2>2 DEF VerifyInv, VerifyPcs, At
  <2>6. SessionsAreProven'
    BY <1>0, <2>1, <2>5 DEF SessionsAreProven
  <2>7. \A t \in Sessions : session'[t].state # "absent" =>
          \E x \in opened' : /\ x.session = t /\ x.account = session'[t].account
                             /\ x.expiresAt = session'[t].expiresAt
    <3> SUFFICES ASSUME NEW t \in Sessions, session'[t].state # "absent"
                 PROVE  \E x \in opened' : /\ x.session = t /\ x.account = session'[t].account
                                           /\ x.expiresAt = session'[t].expiresAt
      OBVIOUS
    <3>1. CASE t = s
      <4>1. session'[t].account = new.account /\ session'[t].expiresAt = new.expiresAt
        BY <1>0, <2>1, <3>1 DEF TypeOK
      <4> QED
        BY <2>1, <3>1, <4>1
    <3>2. CASE t # s
      <4>1. session'[t] = session[t]
        BY <1>0, <2>1, <3>2 DEF TypeOK
      <4> QED
        BY <1>0, <2>1, <4>1 DEF SessionInv
    <3> QED
      BY <3>1, <3>2
  <2>8. \A t \in loggedOut' : session'[t].state = "deleted"
    BY <1>0, <2>1 DEF SessionInv, TypeOK
  <2>9. SessionInv'
    BY <2>7, <2>8 DEF SessionInv
  <2> QED
    BY <2>4, <2>6, <2>9
<1>2. ASSUME NEW r \in Requests, Destroy(r)
      PROVE  SessionInv' /\ OneSessionPerChallenge' /\ SessionsAreProven'
  <2>1. GuardInv(r) /\ At(r, "logout.destroy")
    BY <1>2 DEF Destroy, AuthInv
  <2> DEFINE s == req[r].session
  <2>2. s \in Sessions /\ session[s].state # "absent"
    BY <2>1 DEF GuardInv, GuardPcs, At
  <2>3. /\ session' = [session EXCEPT ![s].state = "deleted"]
        /\ loggedOut' = loggedOut \cup {s} /\ UNCHANGED <<opened, signed, held>>
    BY <1>2 DEF Destroy, DeleteRow, world
  <2>4. /\ session'[s].state = "deleted" /\ session'[s].account = session[s].account
        /\ session'[s].expiresAt = session[s].expiresAt
        /\ \A t \in Sessions \ {s} : session'[t] = session[t]
    BY <1>0, <2>2, <2>3 DEF TypeOK, SessionType
  <2>5. SessionInv'
    BY <1>0, <2>2, <2>3, <2>4 DEF SessionInv, TypeOK
  <2> QED
    BY <1>0, <2>3, <2>5 DEF OneSessionPerChallenge, SessionsAreProven
<1>3. ASSUME UNCHANGED <<session, opened, loggedOut>>
      PROVE  SessionInv' /\ OneSessionPerChallenge' /\ SessionsAreProven'
  BY <1>0, <1>3 DEF SessionInv, OneSessionPerChallenge, SessionsAreProven, Grows
<1> QED
  BY <1>1, <1>2, <1>3 DEF Next, Continue, CreateChallenge, VerifyBegin, GuardBegin,
     Consume, Rola, Validate, Handle, Abort, Sign, SetOwnerKeys, Tick, vars, tables

\* The keys in force now are on record as held.
LEMMA AuthHeldStep == AuthInv /\ [Next]_vars => HeldInv'
<1> SUFFICES ASSUME AuthInv, [Next]_vars PROVE HeldInv'
  OBVIOUS
<1>1. ASSUME NEW a \in Accounts, NEW keys \in KeySets[a], SetOwnerKeys(a, keys)
      PROVE  HeldInv'
  BY <1>1 DEF SetOwnerKeys, HeldInv, HeldPairs, KeysOf
<1>2. ASSUME UNCHANGED <<ownerKeys, held>>
      PROVE  HeldInv'
  BY <1>2 DEF AuthInv, HeldInv, HeldPairs, KeysOf
<1> QED
  BY <1>1, <1>2 DEF Next, Continue, CreateChallenge, VerifyBegin, GuardBegin, Consume,
     Rola, CreateSession, Validate, Handle, Destroy, Abort, Sign, Tick, vars, world

-----------------------------------------------------------------------------
(* The theorems *)

LEMMA AuthInvInit == Init => AuthInv
<1> SUFFICES ASSUME Init PROVE AuthInv
  OBVIOUS
<1> USE DEF Init
<1>1. Idle \in RequestType /\ Idle.pc = "idle"
  BY DEF Idle, RequestType
<1>2. TypeOK
  BY <1>1, TimesAssumption DEF TypeOK, ChallengeType, SessionType, HeldPairs
<1>3. \A r \in Requests : req[r].pc = "idle"
  BY <1>1
<1>4. (\A r \in Requests : VerifyInv(r) /\ GuardInv(r)) /\ SpentInv
  BY <1>3 DEF VerifyInv, VerifyPcs, GuardInv, GuardPcs, SpentInv, Spending
<1>5. SessionInv /\ HeldInv /\ OneSessionPerChallenge /\ SessionsAreProven
  BY DEF SessionInv, HeldInv, OneSessionPerChallenge, SessionsAreProven
<1> QED
  BY <1>2, <1>4, <1>5 DEF AuthInv

\* The inductive invariant holds in every reachable state: every request of
\* authHandlers.ts and sessionMiddleware.ts knows what its calls established.
THEOREM AuthInvariance == Spec => []AuthInv
<1>1. AuthInv /\ [Next]_vars => AuthInv'
  BY AuthTypeStep, AuthRequestStep, AuthSpentStep, AuthSessionStep, AuthHeldStep
     DEF AuthInv
<1> QED
  BY <1>1, AuthInvInit, PTL DEF Spec

\* A challenge (challengeStore.ts) opens at most one session, however many
\* verify requests race for it.
THEOREM OneLoginPerChallenge == Spec => []OneSessionPerChallenge
<1>1. AuthInv => OneSessionPerChallenge
  BY DEF AuthInv
<1> QED
  BY <1>1, AuthInvariance, PTL

\* Every session was opened for an account with a signature by one of its keys
\* (rola.ts), over the challenge that was consumed for it.
THEOREM LoginSafety == Spec => []SessionsAreProven
<1>1. AuthInv => SessionsAreProven
  BY DEF AuthInv
<1> QED
  BY <1>1, AuthInvariance, PTL

\* Who gets past the session middleware acts for the account that logged in,
\* and came before its session ran out.
THEOREM AdmissionSafety == Spec => []ActorsHaveLoggedIn
<1>1. AuthInv => ActorsHaveLoggedIn
  BY DEF AuthInv, ActorsHaveLoggedIn, GuardInv, GuardPcs, SessionInv, At
<1> QED
  BY <1>1, AuthInvariance, PTL

\* No request is let in with a session whose logout has been answered.
THEOREM LogoutSafety == Spec => LogoutIsFinal
<1>1. ASSUME AuthInv, [Next]_vars, NEW r \in Requests,
             At(r, "guard.validate"), At(r, "guard.handler")'
      PROVE  req[r].session \notin loggedOut
  <2>0. TypeOK
    BY <1>1 DEF AuthInv
  <2>1. ASSUME NEW q \in Requests, Finish(q)
        PROVE  FALSE
    BY <1>1, <2>0, <2>1 DEF Finish, Idle, At, TypeOK
  <2>2. ASSUME NEW q \in Requests, NEW pc, pc # "guard.handler", Goto(q, pc)
        PROVE  FALSE
    BY <1>1, <2>0, <2>2, GotoMoves DEF Moved, At
  <2>3. ASSUME NEW q \in Requests, NEW c \in Challenges, NEW a \in Accounts,
               NEW k \in Keys, VerifyBegin(q, c, a, k)
        PROVE  FALSE
    BY <1>1, <2>0, <2>3 DEF VerifyBegin, Begin, Idle, At, TypeOK
  <2>4. ASSUME NEW q \in Requests, NEW s \in Sessions, GuardBegin(q, s)
        PROVE  FALSE
    BY <1>1, <2>0, <2>4 DEF GuardBegin, Begin, Idle, At, TypeOK
  <2>5. ASSUME UNCHANGED req
        PROVE  FALSE
    BY <1>1, <2>5 DEF At
  <2>6. PICK q \in Requests : Validate(q)
    BY <1>1, <2>1, <2>2, <2>3, <2>4, <2>5 DEF Next, Continue, Consume, Rola, CreateSession,
       Handle, Destroy, Abort, CreateChallenge, Sign, SetOwnerKeys, Tick, vars
  <2>7. q = r /\ Valid(req[r].session)
    BY <1>1, <2>0, <2>1, <2>6 DEF Validate, At, TypeOK
  <2> QED
    BY <1>1, <2>7 DEF Valid, AuthInv, SessionInv
<1>2. AuthInv /\ [Next]_vars =>
        [\A r \in Requests : At(r, "guard.validate") /\ At(r, "guard.handler")'
                               => req[r].session \notin loggedOut]_vars
  BY <1>1
<1> QED
  BY <1>2, AuthInvariance, PTL DEF Spec, LogoutIsFinal
=============================================================================
