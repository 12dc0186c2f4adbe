---------------------------- MODULE WalletSession ----------------------------
(***************************************************************************)
(* The client's login state (apps/client/src/atom/wallet.ts, auth.ts,      *)
(* teams.ts).  Being connected to the wallet, holding a session's cookie   *)
(* and showing a session are three things.  Two fibers keep them together: *)
(* one sends every proof of the wallet to verify, the other logs out when  *)
(* the wallet's data says that it was disconnected.  Both then refetch     *)
(* what the page shows.                                                    *)
(*                                                                         *)
(* The fibers run concurrently.  A request, the server's work and the      *)
(* arrival of the answer, which may set or clear the one cookie, are       *)
(* separate steps.  The server does what module Auth says, in one step.    *)
(***************************************************************************)
EXTENDS Naturals, Sequences, FiniteSets

CONSTANTS
  Sessions,     \* session ids; a cookie is one of them
  First,        \* the session there may be when the page is loaded
  MaxPending,   \* bound on the wallet's events not yet taken from a stream
  MaxMishaps,   \* bound on the kinds of mishap in one run
  Null          \* no session, no cookie

ASSUME SessionsAssumption == First \in Sessions /\ Null \notin Sessions
ASSUME BoundsAssumption == MaxPending \in Nat \ {0} /\ MaxMishaps \in Nat

VARIABLES
  connected,   \* whether the toolkit is connected to the wallet
  walletData,  \* sequence of Boolean: its changes, not yet taken by the sync fiber
  proofs,      \* number of proofs not yet taken by the login fiber
  was,         \* wasConnectedRef of the sync fiber
  call,        \* [Fibers -> CallType], what each fiber waits for
  fetch,       \* [Views -> FetchType], the fetch under a view
  shown,       \* [Views -> Sessions \cup {Null}], what the last fetch has brought
  jar,         \* the cookie in the browser
  session,     \* [Sessions -> {"absent", "stored", "gone"}], table sessions
  mishap       \* history: what has happened that the code does not make up for

wallet == <<connected, walletData, proofs>>
page == <<fetch, shown>>
vars == <<wallet, was, call, page, jar, session, mishap>>

Fibers == {"login", "sync", "action"}
Views == {"session", "teams"}
Cookies == Sessions \cup {Null}
Mishaps == {"load", "overlap", "lost", "expired"}

CallType ==
  [to : {"none", "verify", "logout", "other"},
   state : {"sent", "answered"},
   cookie : Cookies,   \* of logout: as sent; of an answered verify: as received
   ok : BOOLEAN]       \* answered: whether it succeeded

FetchType == [state : {"done", "sent", "answered"}, cookie : Cookies]

TypeOK ==
  /\ connected \in BOOLEAN
  /\ walletData \in Seq(BOOLEAN) /\ Len(walletData) <= MaxPending
  /\ proofs \in 0..MaxPending
  /\ was \in BOOLEAN
  /\ call \in [Fibers -> CallType]
  /\ fetch \in [Views -> FetchType]
  /\ shown \in [Views -> Cookies]
  /\ jar \in Cookies
  /\ session \in [Sessions -> {"absent", "stored", "gone"}]
  /\ mishap \subseteq Mishaps

NoCall == [to |-> "none", state |-> "sent", cookie |-> Null, ok |-> FALSE]

Stored(c) == c # Null /\ session[c] = "stored"

\* The session a cookie stands for, as the server sees it.
Live(c) == IF Stored(c) THEN c ELSE Null

\* A page is loaded: the streams start with the wallet's present state, both
\* views are fetched.  The cookie and the toolkit's stored state may disagree.
Init ==
  /\ connected \in BOOLEAN
  /\ walletData = <<connected>>
  /\ proofs = 0
  /\ was = FALSE
  /\ call = [f \in Fibers |-> NoCall]
  /\ jar \in {First, Null}
  /\ session = [s \in Sessions |-> IF s = jar THEN "stored" ELSE "absent"]
  /\ fetch = [v \in Views |-> [state |-> "sent", cookie |-> jar]]
  /\ shown = [v \in Views |-> Null]
  /\ mishap = IF connected = (jar # Null) THEN {} ELSE {"load"}

-----------------------------------------------------------------------------
(* What the fibers have in common. *)

Free(f) == call[f].to = "none"

\* A fiber's answer to its own request, or the loss of one, is what it waits for.
Answered(f, to) == call[f].to = to /\ call[f].state = "answered"

Request(to, c) == [to |-> to, state |-> "sent", cookie |-> c, ok |-> FALSE]

Answer(to, c, ok) == [to |-> to, state |-> "answered", cookie |-> c, ok |-> ok]

\* VARIANT: the list of teams is left as it is.
RefreshSession(c) ==
  fetch' = [fetch EXCEPT !["session"] = [state |-> "sent", cookie |-> c]]

\* get.refresh of sessionAtom and teamsListAtom: a fetch under way is dropped.
Refresh(c) == fetch' = [v \in Views |-> [state |-> "sent", cookie |-> c]]

\* All mishaps go through here.
Suffer(m) ==
  /\ mishap' = mishap \cup {m}
  /\ Cardinality(mishap') <= MaxMishaps

\* No fiber has, or is about to have, anything to do.
Settled == Free("login") /\ Free("sync") /\ proofs = 0 /\ walletData = <<>>

Overlap == IF Settled THEN UNCHANGED mishap ELSE Suffer("overlap")

\* rdt.disconnect(): the wallet's data changes if it was connected.
Disconnect ==
  /\ connected' = FALSE
  /\ walletData' = IF connected THEN Append(walletData, FALSE) ELSE walletData

-----------------------------------------------------------------------------
(* The user, and the action atoms behind disconnectOnUnauthorized. *)

UserConnects ==
  /\ ~ connected
  /\ Len(walletData) < MaxPending /\ proofs < MaxPending
  /\ connected' = TRUE
  /\ walletData' = Append(walletData, TRUE)
  /\ proofs' = proofs + 1
  /\ Overlap
  /\ UNCHANGED <<was, call, page, jar, session>>

UserDisconnects ==
  /\ connected
  /\ Len(walletData) < MaxPending
  /\ Disconnect
  /\ Overlap
  /\ UNCHANGED <<proofs, was, call, page, jar, session>>

\* A button that needs a session: sign, submit, create and so on.  Only what the
\* middleware turns away matters here; it looks at the cookie as it is sent.
UserActs ==
  /\ Free("action")
  /\ fetch["session"].state = "done" /\ shown["session"] # Null
  /\ ~ Stored(jar)
  /\ call' = [call EXCEPT !["action"] = Answer("other", Null, FALSE)]
  /\ UNCHANGED <<wallet, was, page, jar, session, mishap>>

\* Unauthorized disconnects the wallet, the rest is left to the sync fiber.
ActionAnswered ==
  /\ Answered("action", "other")
  /\ call' = [call EXCEPT !["action"] = NoCall]
  /\ Len(walletData) < MaxPending
  /\ Disconnect
  /\ Overlap
  /\ UNCHANGED <<proofs, was, page, jar, session>>

-----------------------------------------------------------------------------
(* rolaVerificationAtom *)

TakeProof ==
  /\ Free("login") /\ proofs > 0
  /\ proofs' = proofs - 1
  /\ call' = [call EXCEPT !["login"] = Request("verify", Null)]
  /\ UNCHANGED <<connected, walletData, was, page, jar, session, mishap>>

\* The server opens a session, or refuses the proof.
VerifyServed ==
  /\ call["login"].to = "verify" /\ call["login"].state = "sent"
  /\ \/ \E s \in Sessions :
          /\ session[s] = "absent"
          /\ session' = [session EXCEPT ![s] = "stored"]
          /\ call' = [call EXCEPT !["login"] = Answer("verify", s, TRUE)]
     \/ /\ call' = [call EXCEPT !["login"] = Answer("verify", Null, FALSE)]
        /\ UNCHANGED session
  /\ UNCHANGED <<wallet, was, page, jar, mishap>>

\* VARIANT: the wallet stays connected when its proof is refused.
VerificationFailsConnected ==
  /\ UNCHANGED <<connected, walletData>>
  /\ call' = [call EXCEPT !["login"] = Request("logout", jar)]
  /\ UNCHANGED <<jar, fetch>>

\* handleVerificationFailure, up to its call of logout.
VerificationFails ==
  /\ Len(walletData) < MaxPending
  /\ Disconnect
  /\ call' = [call EXCEPT !["login"] = Request("logout", jar)]
  /\ UNCHANGED <<jar, fetch>>

VerifyAnswered ==
  /\ Answered("login", "verify")
  /\ IF call["login"].ok
       THEN /\ jar' = call["login"].cookie
            /\ call' = [call EXCEPT !["login"] = NoCall]
            /\ Refresh(jar')
            /\ UNCHANGED <<connected, walletData>>
       ELSE VerificationFails
  /\ UNCHANGED <<proofs, was, shown, session, mishap>>

VerifyLost ==
  /\ call["login"].to = "verify"
  /\ VerificationFails
  /\ Suffer("lost")
  /\ UNCHANGED <<proofs, was, shown, session>>

-----------------------------------------------------------------------------
(* disconnectSyncAtom *)

\* VARIANT: what was seen before is not written down.
TakeWalletDataOnce ==
  /\ Free("sync") /\ walletData # <<>>
  /\ walletData' = Tail(walletData)
  /\ UNCHANGED was
  /\ IF was /\ ~ Head(walletData)
       THEN call' = [call EXCEPT !["sync"] = Request("logout", jar)]
       ELSE UNCHANGED call
  /\ UNCHANGED <<connected, proofs, page, jar, session, mishap>>

TakeWalletData ==
  /\ Free("sync") /\ walletData # <<>>
  /\ walletData' = Tail(walletData)
  /\ was' = Head(walletData)
  /\ IF was /\ ~ Head(walletData)
       THEN call' = [call EXCEPT !["sync"] = Request("logout", jar)]
       ELSE UNCHANGED call
  /\ UNCHANGED <<connected, proofs, page, jar, session, mishap>>

-----------------------------------------------------------------------------
(* logout, called by either fiber *)

LogoutServed(f) ==
  /\ call[f].to = "logout" /\ call[f].state = "sent"
  /\ LET c == call[f].cookie IN
       /\ call' = [call EXCEPT ![f] = Answer("logout", Null, Stored(c))]
       /\ session' = IF Stored(c) THEN [session EXCEPT ![c] = "gone"] ELSE session
  /\ UNCHANGED <<wallet, was, page, jar, mishap>>

\* VARIANT: the sync fiber never comes to its refreshes.
GivesUpAlways(f, ok) == f = "sync"

\* The sync fiber gives up on any failure of logout, Unauthorized included; the
\* login fiber ignores it and goes on.
GivesUp(f, ok) == f = "sync" /\ ~ ok

\* VARIANT: the page is refetched before the answer's cookie is taken.
LogoutDoneEarly(f, ok) ==
  /\ call' = [call EXCEPT ![f] = NoCall]
  /\ jar' = IF ok THEN Null ELSE jar
  /\ IF GivesUp(f, ok) THEN UNCHANGED fetch ELSE Refresh(jar)

LogoutDone(f, ok) ==
  /\ call' = [call EXCEPT ![f] = NoCall]
  /\ jar' = IF ok THEN Null ELSE jar
  /\ IF GivesUp(f, ok) THEN UNCHANGED fetch ELSE Refresh(jar')

LogoutAnswered(f) ==
  /\ Answered(f, "logout")
  /\ LogoutDone(f, call[f].ok)
  /\ UNCHANGED <<wallet, was, shown, session, mishap>>

\* The request or the answer is lost.
LogoutLost(f) ==
  /\ call[f].to = "logout"
  /\ LogoutDone(f, FALSE)
  /\ Suffer("lost")
  /\ UNCHANGED <<wallet, was, shown, session>>

-----------------------------------------------------------------------------
(* sessionAtom and teamsListAtom: without a session null and the empty list. *)

FetchServed(v) ==
  /\ fetch[v].state = "sent"
  /\ fetch' = [fetch EXCEPT ![v] =
       [state |-> "answered", cookie |-> Live(fetch[v].cookie)]]
  /\ UNCHANGED <<wallet, was, call, shown, jar, session, mishap>>

FetchDone(v, c) ==
  /\ fetch' = [fetch EXCEPT ![v] = [state |-> "done", cookie |-> Null]]
  /\ shown' = [shown EXCEPT ![v] = c]
  /\ UNCHANGED <<wallet, was, call, jar, session>>

FetchAnswered(v) ==
  /\ fetch[v].state = "answered"
  /\ FetchDone(v, fetch[v].cookie)
  /\ UNCHANGED mishap

FetchLost(v) ==
  /\ fetch[v].state # "done"
  /\ FetchDone(v, Null)
  /\ Suffer("lost")

-----------------------------------------------------------------------------

\* A session runs out; nothing tells the page.
Expire(s) ==
  /\ session[s] = "stored"
  /\ session' = [session EXCEPT ![s] = "gone"]
  /\ Suffer("expired")
  /\ UNCHANGED <<wallet, was, call, page, jar>>

Lose ==
  \/ VerifyLost
  \/ \E f \in Fibers : LogoutLost(f)
  \/ \E v \in Views : FetchLost(v)

\* The user and the session's deadline: nothing obliges them.
Outside ==
  \/ UserConnects \/ UserDisconnects \/ UserActs
  \/ \E s \in Sessions : Expire(s)

LoginFiber == TakeProof \/ VerifyServed \/ VerifyAnswered
LogoutStep(f) == LogoutServed(f) \/ LogoutAnswered(f)
ViewStep(v) == FetchServed(v) \/ FetchAnswered(v)

Next ==
  \/ Outside \/ Lose
  \/ LoginFiber \/ ActionAnswered \/ TakeWalletData
  \/ \E f \in Fibers : LogoutStep(f)
  \/ \E v \in Views : ViewStep(v)

Spec == Init /\ [][Next]_vars

\* The runtime schedules its fibers fairly, a request is answered or fails.
Fairness ==
  /\ WF_vars(LoginFiber) /\ WF_vars(ActionAnswered) /\ WF_vars(TakeWalletData)
  /\ \A f \in Fibers : WF_vars(LogoutStep(f))
  /\ \A v \in Views : WF_vars(ViewStep(v))

FairSpec == Spec /\ Fairness

-----------------------------------------------------------------------------
(* Properties.  None can hold in every run of the page: a request can be      *)
(* lost, a session runs out unseen.  Each says which of the four mishaps it   *)
(* takes to break it.                                                         *)

Quiet == Settled /\ \A v \in Views : fetch[v].state = "done"

Without(set) == mishap \cap set = {}

\* Once all is quiet, the page shows the very session the server knows the
\* browser by, in both views, however connects, disconnects, failed logins and
\* their logouts have overlapped.
ShownIsTrue ==
  Quiet /\ Without({"lost", "expired"}) => \A v \in Views : shown[v] = Live(jar)

\* Once all is quiet, the browser has a session if the wallet is connected and
\* has none if it is not, unless connects and disconnects overlapped: a logout then
\* comes before the cookie it is meant for, or its answer after the next one.  A
\* proof that is refused, or whose answer is lost, ends the connection; a session
\* that has run out does not.
LoginFollowsWallet ==
  Quiet /\ Without({"load", "overlap"}) =>
    /\ ~ connected /\ Without({"lost"}) => Live(jar) = Null
    /\ connected /\ Without({"expired"}) => Live(jar) # Null

\* No session stays open on the server which the browser no longer names, and
\* which so nobody can log out.
NoOrphans ==
  Quiet /\ Without({"load", "overlap", "lost"}) =>
    \A s \in Sessions : session[s] = "stored" => s = jar

\* A page that shows a session with the wallet disconnected does not stay so.
DisconnectIsSeen ==
  (~ connected /\ shown["session"] # Null)
    ~> (connected \/ shown["session"] = Null \/ ~ Without(Mishaps))

-----------------------------------------------------------------------------
(* The inductive invariant: what the fibers may rely on.                      *)

\* The wallet's last change, once it is taken, is what the sync fiber knows.
WalletInv ==
  IF walletData = <<>> THEN was = connected ELSE walletData[Len(walletData)] = connected

\* Who calls what; a cookie that was handed out is that of a session.
CallInv ==
  /\ call["login"].to # "other" /\ call["sync"].to \in {"none", "logout"}
  /\ call["action"].to \in {"none", "other"}
  /\ Answered("login", "verify") /\ call["login"].ok =>
       call["login"].cookie \in Sessions /\ session[call["login"].cookie] # "absent"
  /\ jar # Null => session[jar] # "absent"

\* The answer to a logout that succeeded has yet to be handled.
Clearing == \E f \in Fibers : Answered(f, "logout") /\ call[f].ok

\* A view is true, or is about to be fetched again.
ViewInv(v) ==
  /\ fetch[v].state = "sent" => fetch[v].cookie = jar
  /\ Without({"lost", "expired"}) =>
       /\ fetch[v].state = "answered" => fetch[v].cookie = Live(jar) \/ Clearing
       /\ fetch[v].state = "done" => shown[v] = Live(jar) \/ Clearing

LoggingIn == proofs > 0 \/ call["login"].to = "verify"

\* If nothing overlaps, logins belong to a connected wallet and logouts to one that
\* is not; who is connected and not about to log in has a session.
ConnectedInv ==
  Without({"overlap"}) =>
    /\ proofs \in {0, 1} /\ (~ Free("login") => proofs = 0)
    /\ LoggingIn => connected
    /\ connected => /\ walletData \in {<<>>, <<TRUE>>}
                    /\ Free("sync") /\ call["login"].to # "logout"
    /\ Without({"expired"}) /\ Answered("login", "verify") /\ call["login"].ok =>
         session[call["login"].cookie] = "stored"
    /\ Without({"load", "expired"}) /\ connected /\ ~ LoggingIn => Live(jar) # Null

\* If moreover no call is lost, the only session is that of the jar, or is on its
\* way there; with the wallet disconnected it is about to be logged out.
StoredInv ==
  Without({"load", "overlap", "lost"}) =>
    \A s \in Sessions : session[s] = "stored" =>
      /\ IF LoggingIn
           THEN Answered("login", "verify") /\ call["login"].ok /\ call["login"].cookie = s
           ELSE s = jar
      /\ call["login"].to # "logout"
      /\ ~ connected =>
           \/ walletData = <<FALSE>> /\ was /\ Free("sync")
           \/ call["sync"] = Request("logout", jar)

SessionInv ==
  /\ TypeOK
  /\ WalletInv
  /\ CallInv
  /\ \A v \in Views : ViewInv(v)
  /\ ConnectedInv
  /\ StoredInv
=============================================================================
