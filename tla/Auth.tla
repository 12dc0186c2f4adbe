-------------------------------- MODULE Auth --------------------------------
(***************************************************************************)
(* Login, sessions and logout (auth/*, api/authHandlers.ts,                *)
(* api/sessionMiddleware.ts) as concurrent requests over two tables.       *)
(*                                                                         *)
(* A login proves that the wallet holds a key of the account: verify       *)
(* consumes the challenge, checks the signature and asks the ledger whose  *)
(* key it is, and only then opens a session.  The four steps are separate  *)
(* calls; other requests, and changes of owner_keys, fall between them.    *)
(*                                                                         *)
(* Expiry times are written by the server's clock and compared with the    *)
(* database's now().  Clock is the database's; the server's is off by a    *)
(* member of Skews, which may differ from call to call.                    *)
(***************************************************************************)
EXTENDS Integers, FiniteSets

CONSTANTS
  Challenges,    \* random 32 byte strings
  Sessions,      \* session ids
  Accounts,      \* account addresses
  Keys,          \* public keys; a key hash is the key itself
  AddressOf,     \* [Keys -> Accounts], the virtual account of a key
  KeySets,       \* what owner_keys of each account may be; {} is unset
  Requests,      \* slots for requests in flight (bounds the concurrency)
  ChallengeTTL,  \* 5 minutes
  SessionTTL,    \* 24 hours
  Skews,         \* what the server's clock may be ahead of the database's by
  MaxTime,       \* bound on the clock
  Faults,        \* whether a request may be cut short between two calls
  Null           \* the absent value of a local variable

ASSUME AddressAssumption == AddressOf \in [Keys -> Accounts]
ASSUME KeySetsAssumption == KeySets \in [Accounts -> SUBSET (SUBSET Keys)]
ASSUME TimesAssumption ==
  /\ ChallengeTTL \in Nat /\ SessionTTL \in Nat /\ MaxTime \in Nat
  /\ Skews \subseteq Int
ASSUME FaultsAssumption == Faults \in BOOLEAN
ASSUME NullAssumption == Null \notin Challenges \cup Sessions \cup Accounts \cup Keys

VARIABLES
  challenge,  \* [Challenges -> ChallengeType], table challenges
  session,    \* [Sessions -> SessionType], table sessions
  ownerKeys,  \* an element of Metadata, on the ledger
  clock,      \* the time now() of the database
  signed,     \* <<c, k>>: a wallet has signed challenge c with key k
  req,        \* [Requests -> RequestType], the requests in flight
  opened,     \* history: one entry per session row ever inserted
  held,       \* history: <<a, k>>: key k has been a key of account a
  loggedOut   \* history: sessions whose logout has been answered

tables == <<challenge, session>>
world == <<ownerKeys, clock, signed, held>>
vars == <<tables, world, req, opened, loggedOut>>

ChallengeType == [state : {"absent", "fresh", "used"}, expiresAt : Int]
SessionType == [state : {"absent", "stored", "deleted"},
                account : Accounts \cup {Null}, expiresAt : Int]
OpenedType == [session : Sessions, challenge : Challenges,
               account : Accounts, key : Keys, expiresAt : Int]

VerifyPcs == {"verify.consume", "verify.rola", "verify.create"}
GuardPcs == {"guard.validate", "guard.handler", "logout.destroy"}

Metadata == {m \in [Accounts -> SUBSET Keys] : \A a \in Accounts : m[a] \in KeySets[a]}

RequestType ==
  [pc : {"idle"} \cup VerifyPcs \cup GuardPcs,
   challenge : Challenges \cup {Null},  \* verify: the signed challenge
   account : Accounts \cup {Null},      \* verify: as claimed; guard: of the session
   key : Keys \cup {Null},              \* verify: the public key of the proof
   signer : Keys \cup {Null},           \* verify: whose signature the proof holds
   session : Sessions \cup {Null},      \* guard: the cookie
   since : Int]                         \* history: when validate accepted it

Idle == [pc |-> "idle", challenge |-> Null, account |-> Null, key |-> Null,
         signer |-> Null, session |-> Null, since |-> 0]

TypeOK ==
  /\ challenge \in [Challenges -> ChallengeType]
  /\ session \in [Sessions -> SessionType]
  /\ ownerKeys \in Metadata
  /\ clock \in 0..MaxTime
  /\ signed \subseteq Challenges \X Keys
  /\ req \in [Requests -> RequestType]
  /\ opened \subseteq OpenedType
  /\ held \subseteq Accounts \X Keys
  /\ loggedOut \subseteq Sessions

\* The keys that may speak for an account: owner_keys, or while that is unset
\* the key its address is derived from.
KeysOf(a, metadata) ==
  IF metadata[a] = {} THEN {k \in Keys : AddressOf[k] = a} ELSE metadata[a]

HeldPairs(metadata) == {x \in Accounts \X Keys : x[2] \in KeysOf(x[1], metadata)}

Init ==
  /\ challenge = [c \in Challenges |-> [state |-> "absent", expiresAt |-> 0]]
  /\ session = [s \in Sessions |-> [state |-> "absent", account |-> Null, expiresAt |-> 0]]
  /\ ownerKeys \in Metadata
  /\ clock = 0
  /\ signed = {}
  /\ req = [r \in Requests |-> Idle]
  /\ opened = {}
  /\ held = HeldPairs(ownerKeys)
  /\ loggedOut = {}

-----------------------------------------------------------------------------
(* Slots. *)

At(r, pc) == req[r].pc = pc

Begin(r, local) == req' = [req EXCEPT ![r] = local]

Goto(r, pc) == req' = [req EXCEPT ![r].pc = pc]

Finish(r) == req' = [req EXCEPT ![r] = Idle]

-----------------------------------------------------------------------------
(* createChallenge *)

CreateChallenge(c, skew) ==
  /\ challenge[c].state = "absent"
  /\ challenge' = [challenge EXCEPT
       ![c] = [state |-> "fresh", expiresAt |-> clock + skew + ChallengeTTL]]
  /\ UNCHANGED <<session, world, req, opened, loggedOut>>

-----------------------------------------------------------------------------
(* verify *)

VerifyBegin(r, c, a, k) ==
  /\ At(r, "idle")
  /\ Begin(r, [Idle EXCEPT !.pc = "verify.consume", !.challenge = c, !.account = a,
                           !.key = k, !.signer = IF <<c, k>> \in signed THEN k ELSE Null])
  /\ UNCHANGED <<tables, world, opened, loggedOut>>

\* VARIANT: a used challenge is accepted again until it expires.
ConsumableAgain(c) ==
  /\ challenge[c].state # "absent"
  /\ challenge[c].expiresAt > clock

\* The WHERE clause of consume.
Consumable(c) ==
  /\ challenge[c].state = "fresh"
  /\ challenge[c].expiresAt > clock

\* UPDATE ... RETURNING: the test and the mark are one statement.
Consume(r) ==
  /\ At(r, "verify.consume")
  /\ LET c == req[r].challenge IN
       IF Consumable(c)
         THEN /\ challenge' = [challenge EXCEPT ![c].state = "used"]
              /\ Goto(r, "verify.rola")
         ELSE /\ Finish(r)
              /\ UNCHANGED challenge
  /\ UNCHANGED <<session, world, opened, loggedOut>>

\* VARIANT: a derived address is good enough, whatever owner_keys says.
SpeaksForEither(k, a) == k \in ownerKeys[a] \/ AddressOf[k] = a

SpeaksFor(k, a) == k \in KeysOf(a, ownerKeys)

\* The signature is checked first, then the Gateway is asked for owner_keys.
Rola(r) ==
  /\ At(r, "verify.rola")
  /\ IF req[r].signer = req[r].key /\ SpeaksFor(req[r].key, req[r].account)
       THEN Goto(r, "verify.create")
       ELSE Finish(r)
  /\ UNCHANGED <<tables, world, opened, loggedOut>>

\* INSERT of a session with a fresh uuid; the answer sets the cookie.
CreateSession(r, s, skew) ==
  /\ At(r, "verify.create")
  /\ session[s].state = "absent"
  /\ LET expiresAt == clock + skew + SessionTTL IN
       /\ session' = [session EXCEPT ![s] =
            [state |-> "stored", account |-> req[r].account, expiresAt |-> expiresAt]]
       /\ opened' = opened \cup
            {[session |-> s, challenge |-> req[r].challenge, account |-> req[r].account,
              key |-> req[r].key, expiresAt |-> expiresAt]}
  /\ Finish(r)
  /\ UNCHANGED <<challenge, world, loggedOut>>

-----------------------------------------------------------------------------
(* The session middleware in front of every other handler, and logout.  The *)
(* cookie names a row that was inserted once: other ids find nothing.       *)

GuardBegin(r, s) ==
  /\ At(r, "idle")
  /\ session[s].state # "absent"
  /\ Begin(r, [Idle EXCEPT !.pc = "guard.validate", !.session = s])
  /\ UNCHANGED <<tables, world, opened, loggedOut>>

\* VARIANT: the row is enough, its deadline is not looked at.
ValidRow(s) == session[s].state = "stored"

\* The WHERE clause of validate.
Valid(s) == session[s].state = "stored" /\ session[s].expiresAt > clock

Validate(r) ==
  /\ At(r, "guard.validate")
  /\ LET s == req[r].session IN
       IF Valid(s)
         THEN req' = [req EXCEPT ![r].pc = "guard.handler", ![r].since = clock,
                                 ![r].account = session[s].account]
         ELSE Finish(r)
  /\ UNCHANGED <<tables, world, opened, loggedOut>>

\* The guarded handler: any operation but logout, which goes on to destroy.
Handle(r) ==
  /\ At(r, "guard.handler")
  /\ Finish(r) \/ Goto(r, "logout.destroy")
  /\ UNCHANGED <<tables, world, opened, loggedOut>>

\* VARIANT: logout only clears the cookie.
DestroyCookie(s) == UNCHANGED session

DeleteRow(s) == session' = [session EXCEPT ![s].state = "deleted"]

Destroy(r) ==
  /\ At(r, "logout.destroy")
  /\ DeleteRow(req[r].session)
  /\ loggedOut' = loggedOut \cup {req[r].session}
  /\ Finish(r)
  /\ UNCHANGED <<challenge, world, opened>>

-----------------------------------------------------------------------------
(* What goes on around the server, and requests that are cut short.        *)

\* A signature made after the challenge was used would never be looked at.
Sign(c, k) ==
  /\ challenge[c].state = "fresh"
  /\ signed' = signed \cup {<<c, k>>}
  /\ UNCHANGED <<tables, ownerKeys, clock, held, req, opened, loggedOut>>

SetOwnerKeys(a, keys) ==
  /\ ownerKeys' = [ownerKeys EXCEPT ![a] = keys]
  /\ held' = held \cup HeldPairs(ownerKeys')
  /\ UNCHANGED <<tables, clock, signed, req, opened, loggedOut>>

Tick ==
  /\ clock < MaxTime
  /\ clock' = clock + 1
  /\ UNCHANGED <<tables, ownerKeys, signed, held, req, opened, loggedOut>>

Abort(r) ==
  /\ Faults
  /\ ~ At(r, "idle")
  /\ Finish(r)
  /\ UNCHANGED <<tables, world, opened, loggedOut>>

Continue(r) ==
  \/ Consume(r) \/ Rola(r)
  \/ \E s \in Sessions, skew \in Skews : CreateSession(r, s, skew)
  \/ Validate(r) \/ Handle(r) \/ Destroy(r)

Next ==
  \/ \E c \in Challenges, skew \in Skews : CreateChallenge(c, skew)
  \/ \E r \in Requests :
       \/ \E c \in Challenges, a \in Accounts, k \in Keys : VerifyBegin(r, c, a, k)
       \/ \E s \in Sessions : GuardBegin(r, s)
       \/ Continue(r)
       \/ Abort(r)
  \/ \E c \in Challenges, k \in Keys : Sign(c, k)
  \/ \E a \in Accounts : \E keys \in KeySets[a] : SetOwnerKeys(a, keys)
  \/ Tick

Spec == Init /\ [][Next]_vars

-----------------------------------------------------------------------------
(* Properties. *)

\* A challenge opens at most one session, however many verify requests carry it
\* at the same time, one after the other, or again after one was cut short.
OneSessionPerChallenge ==
  \A x, y \in opened : x.challenge = y.challenge => x = y

\* Every session row ever inserted belongs to an account one of whose keys, by
\* owner_keys or by derivation at some time, signed the challenge that opened it.
SessionsAreProven ==
  \A x \in opened : /\ <<x.challenge, x.key>> \in signed
                    /\ <<x.account, x.key>> \in held

\* A handler behind the middleware acts for the account that logged in, and was
\* let in before the session it came with ran out.
ActorsHaveLoggedIn ==
  \A r \in Requests : req[r].pc \in {"guard.handler", "logout.destroy"} =>
    \E x \in opened : /\ x.session = req[r].session
                      /\ x.account = req[r].account
                      /\ req[r].since < x.expiresAt

\* Once a logout has been answered the middleware lets nobody in with that
\* session again: no verify request in flight brings the row back.
LogoutIsFinal ==
  [][\A r \in Requests : At(r, "guard.validate") /\ At(r, "guard.handler")'
                           => req[r].session \notin loggedOut]_vars

-----------------------------------------------------------------------------
(* The inductive invariant: what each program point knows. *)

\* Requests that hold the only use of their challenge.
Spending(r) == req[r].pc \in {"verify.rola", "verify.create"}

VerifyInv(r) ==
  req[r].pc \in VerifyPcs =>
    /\ req[r].challenge \in Challenges /\ req[r].account \in Accounts
    /\ req[r].key \in Keys
    /\ req[r].signer = req[r].key => <<req[r].challenge, req[r].key>> \in signed
    /\ Spending(r) => challenge[req[r].challenge].state = "used"
    /\ At(r, "verify.create") =>
         req[r].signer = req[r].key /\ <<req[r].account, req[r].key>> \in held

GuardInv(r) ==
  req[r].pc \in GuardPcs =>
    /\ req[r].session \in Sessions
    /\ session[req[r].session].state # "absent"
    /\ ~ At(r, "guard.validate") =>
         /\ req[r].account = session[req[r].session].account
         /\ req[r].since < session[req[r].session].expiresAt

\* A challenge is spent on at most one request in flight or one session.
SpentInv ==
  /\ \A x \in opened : challenge[x.challenge].state = "used"
  /\ \A x \in opened, r \in Requests : Spending(r) => req[r].challenge # x.challenge
  /\ \A r, q \in Requests :
       Spending(r) /\ Spending(q) /\ req[r].challenge = req[q].challenge => r = q

\* The rows of sessions are those opened, with what they were opened with.
SessionInv ==
  /\ \A s \in Sessions : session[s].state # "absent" =>
       \E x \in opened : /\ x.session = s /\ x.account = session[s].account
                         /\ x.expiresAt = session[s].expiresAt
  /\ \A s \in loggedOut : session[s].state = "deleted"

HeldInv == HeldPairs(ownerKeys) \subseteq held

AuthInv ==
  /\ TypeOK
  /\ \A r \in Requests : VerifyInv(r) /\ GuardInv(r)
  /\ SpentInv
  /\ SessionInv
  /\ HeldInv
  /\ OneSessionPerChallenge
  /\ SessionsAreProven
=============================================================================
