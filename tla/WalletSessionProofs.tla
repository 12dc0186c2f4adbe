------------------------ MODULE WalletSessionProofs ------------------------
(***************************************************************************)
(* Proofs about WalletSession: once its fibers are done the page shows     *)
(* what the server knows, and the session follows the wallet, for any      *)
(* number of sessions, of events not yet taken and of mishaps.             *)
(***************************************************************************)
EXTENDS WalletSession, SequenceTheorems, TLAPS

(* Sequences of the wallet's changes. *)

LEMMA Appended ==
  ASSUME NEW w \in Seq(BOOLEAN), NEW b \in BOOLEAN
  PROVE  /\ Append(w, b) \in Seq(BOOLEAN) /\ Append(w, b) # <<>>
         /\ Len(Append(w, b)) = Len(w) + 1
         /\ Append(w, b)[Len(Append(w, b))] = b
BY AppendProperties

LEMMA AppendedOne ==
  ASSUME NEW b
  PROVE  Append(<<>>, b) = <<b>>
OBVIOUS

LEMMA Taken ==
  ASSUME NEW w \in Seq(BOOLEAN), w # <<>>
  PROVE  /\ Head(w) \in BOOLEAN /\ Tail(w) \in Seq(BOOLEAN) /\ Len(Tail(w)) <= Len(w)
         /\ Tail(w) = <<>> => Head(w) = w[Len(w)]
         /\ Tail(w) # <<>> => Tail(w)[Len(Tail(w))] = w[Len(w)]
<1>0. Len(w) \in Nat \ {0} /\ Len(Tail(w)) = Len(w) - 1
  BY EmptySeq, HeadTailProperties
<1>1. /\ Len(w) \in Nat \ {0} /\ Tail(w) \in Seq(BOOLEAN) /\ Head(w) \in BOOLEAN
      /\ Len(Tail(w)) = Len(w) - 1 /\ Head(w) = w[1]
  BY EmptySeq, HeadTailProperties
<1>2. \A i \in 1..Len(Tail(w)) : Tail(w)[i] = w[i + 1]
  BY HeadTailProperties
<1>3. CASE Tail(w) = <<>>
  <2>1. Len(Tail(w)) = 0
    BY <1>3, Len(<<>>) = 0, Zenon
  <2>2. \A n \in Nat \ {0} : n - 1 = 0 => n = 1
    OBVIOUS
  <2>3. Len(w) = 1
    BY <1>0, <2>1, <2>2, Zenon
  <2>4. Head(w) = w[Len(w)]
    BY <1>1, <2>3, Zenon
  <2>5. Len(Tail(w)) <= Len(w)
    BY <1>1
  <2> QED
    BY <1>1, <1>3, <2>4, <2>5, Zenon
<1>4. CASE Tail(w) # <<>>
  <2>1. Len(Tail(w)) \in 1..Len(Tail(w))
    BY <1>1, <1>4, EmptySeq
  <2>2. Tail(w)[Len(Tail(w))] = w[Len(Tail(w)) + 1]
    BY <1>2, <2>1, Zenon
  <2>3. Len(Tail(w)) + 1 = Len(w) /\ Len(Tail(w)) <= Len(w)
    BY <1>1
  <2>4. Tail(w)[Len(Tail(w))] = w[Len(w)]
    BY <2>2, <2>3, Zenon
  <2> QED
    BY <1>1, <1>4, <2>3, <2>4, Zenon
<1> QED
  BY <1>1, <1>3, <1>4

LEMMA TakenOne ==
  ASSUME NEW b
  PROVE  Head(<<b>>) = b /\ Tail(<<b>>) = <<>> /\ <<b>> # <<>> /\ Len(<<b>>) = 1
OBVIOUS

-----------------------------------------------------------------------------
(* Calls and fetches *)

\* A fiber goes from one call to another.
LEMMA CallSet ==
  ASSUME call \in [Fibers -> CallType], NEW f \in Fibers, NEW x \in CallType,
         call' = [call EXCEPT ![f] = x]
  PROVE  /\ call' \in [Fibers -> CallType] /\ call'[f] = x
         /\ \A g \in Fibers : g # f => call'[g] = call[g]
OBVIOUS

LEMMA Calls ==
  /\ NoCall \in CallType /\ NoCall.to = "none"
  /\ \A c \in Cookies :
       /\ Request("verify", c) \in CallType /\ Request("logout", c) \in CallType
       /\ Request("verify", c).to = "verify" /\ Request("verify", c).state = "sent"
       /\ Request("logout", c).to = "logout" /\ Request("logout", c).state = "sent"
  /\ \A to \in {"verify", "logout", "other"}, c \in Cookies, ok \in BOOLEAN :
       /\ Answer(to, c, ok) \in CallType /\ Answer(to, c, ok).to = to
       /\ Answer(to, c, ok).state = "answered"
       /\ Answer(to, c, ok).cookie = c /\ (Answer(to, c, ok).ok <=> ok)
BY DEF NoCall, Request, Answer, CallType, Cookies

LEMMA FiberNames ==
  /\ "login" \in Fibers /\ "sync" \in Fibers /\ "action" \in Fibers
  /\ \A f \in Fibers : f \in {"login", "sync", "action"}
BY DEF Fibers

\* What happens to a call is no mishap's undoing.
LEMMA MishapsStay ==
  ASSUME mishap \subseteq mishap'
  PROVE  \A S : Without(S)' => Without(S)
BY DEF Without

LEMMA Suffered ==
  ASSUME NEW m, Suffer(m)
  PROVE  mishap \subseteq mishap' /\ m \in mishap' /\ mishap' = mishap \cup {m}
BY DEF Suffer

\* What is refetched is fetched with the cookie there is.
LEMMA Refreshed ==
  ASSUME Refresh(jar')
  PROVE  \A v \in Views : ViewInv(v)'
<1>1. \A v \in Views : fetch'[v] = [state |-> "sent", cookie |-> jar']
  BY DEF Refresh
<1>2. \A v \in Views : fetch'[v].state = "sent" /\ fetch'[v].cookie = jar'
  BY <1>1
<1> QED
  BY <1>2 DEF ViewInv

LEMMA RefreshType ==
  ASSUME NEW c \in Cookies, Refresh(c)
  PROVE  fetch' \in [Views -> FetchType]
BY DEF Refresh, FetchType

\* What is neither fetched nor changed stays as true as it was.
LEMMA ViewStays ==
  ASSUME NEW v, ViewInv(v), fetch'[v] = fetch[v], shown'[v] = shown[v], jar' = jar,
         Live(jar)' = Live(jar) \/ Clearing', Clearing => Clearing',
         mishap \subseteq mishap'
  PROVE  ViewInv(v)'
BY MishapsStay DEF ViewInv

-----------------------------------------------------------------------------
(* What an action leaves alone *)

\* Fetches and answers of the third fiber are no business of the other two.
LEMMA ConnectedStays ==
  ASSUME ConnectedInv, UNCHANGED <<connected, walletData, proofs, jar, session>>,
         call'["login"] = call["login"], call'["sync"] = call["sync"],
         mishap \subseteq mishap'
  PROVE  ConnectedInv'
BY MishapsStay DEF ConnectedInv, LoggingIn, Free, Answered, Live, Stored

LEMMA StoredStays ==
  ASSUME StoredInv, UNCHANGED <<connected, walletData, proofs, was, jar, session>>,
         call'["login"] = call["login"], call'["sync"] = call["sync"],
         mishap \subseteq mishap'
  PROVE  StoredInv'
BY MishapsStay DEF StoredInv, LoggingIn, Free, Answered, Request

\* A view follows the jar as long as no answer that clears it gets lost.
LEMMA ViewsStay ==
  ASSUME \A v \in Views : ViewInv(v), UNCHANGED <<fetch, shown, jar>>,
         Live(jar)' = Live(jar) \/ Clearing', Clearing => Clearing',
         mishap \subseteq mishap'
  PROVE  \A v \in Views : ViewInv(v)'
BY ViewStays

\* A call that is no answer of a logout can be replaced by any other.
LEMMA ClearingStays ==
  ASSUME NEW f \in Fibers, ~ (Answered(f, "logout") /\ call[f].ok),
         \A g \in Fibers : g # f => call'[g] = call[g]
  PROVE  Clearing => Clearing'
BY DEF Clearing, Answered

\* Whoever overlaps has nothing to say about runs in which nothing does.
LEMMA Overlapped ==
  ASSUME Overlap
  PROVE  /\ mishap \subseteq mishap'
         /\ \A S : "overlap" \in S /\ Without(S)' => Settled /\ mishap' = mishap
BY Suffered DEF Overlap, Without

LEMMA MishapType ==
  ASSUME mishap \subseteq Mishaps, NEW m \in Mishaps, Suffer(m)
  PROVE  mishap' \subseteq Mishaps
BY DEF Suffer

\* With the wallet disconnected and no login under way nothing is promised.
LEMMA Unconnected ==
  ASSUME Without({"overlap"})' => ~ connected' /\ proofs' = 0 /\ call'["login"].to # "verify"
  PROVE  ConnectedInv'
<1>1. SUFFICES ASSUME Without({"overlap"})'
               PROVE  /\ proofs' \in {0, 1} /\ (~ Free("login")' => proofs' = 0)
                      /\ ~ LoggingIn' /\ ~ connected' /\ ~ Answered("login", "verify")'
  BY DEF ConnectedInv
<1>2. proofs' = 0 /\ call'["login"].to # "verify" /\ ~ connected'
  BY <1>1
<1>3. ~ (0 > 0)
  OBVIOUS
<1> QED
  BY <1>2, <1>3 DEF LoggingIn, Free, Answered

-----------------------------------------------------------------------------
(* The user *)

LEMMA ConnectsSafe ==
  ASSUME SessionInv, UserConnects
  PROVE  SessionInv'
<1>1. /\ TypeOK /\ WalletInv /\ CallInv /\ ConnectedInv /\ StoredInv
      /\ \A v \in Views : ViewInv(v)
  BY DEF SessionInv
<1>2. /\ ~ connected /\ connected' = TRUE /\ walletData' = Append(walletData, TRUE)
      /\ proofs' = proofs + 1 /\ Len(walletData) < MaxPending /\ proofs < MaxPending
      /\ Overlap /\ UNCHANGED <<was, call, fetch, shown, jar, session>>
  BY DEF UserConnects, page
<1>3. walletData \in Seq(BOOLEAN) /\ proofs \in 0..MaxPending
  BY <1>1 DEF TypeOK
<1>4. /\ walletData' \in Seq(BOOLEAN) /\ walletData' # <<>>
      /\ Len(walletData') = Len(walletData) + 1 /\ walletData'[Len(walletData')] = TRUE
  BY <1>2, <1>3, Appended
<1>5. mishap \subseteq mishap' /\ mishap' \subseteq Mishaps
  <2>1. mishap \subseteq Mishaps
    BY <1>1 DEF TypeOK
  <2> QED
    BY <1>2, <2>1, Overlapped, Suffered DEF Overlap, Mishaps
<1>6. TypeOK'
  <2>1. Len(walletData') <= MaxPending /\ proofs' \in 0..MaxPending
    <3>1. Len(walletData) \in Nat
      BY <1>3, EmptySeq, LenProperties
    <3> QED
      BY <1>2, <1>3, <1>4, <3>1, BoundsAssumption
  <2> QED
    BY <1>1, <1>2, <1>4, <1>5, <2>1 DEF TypeOK
<1>7. WalletInv'
  BY <1>2, <1>4 DEF WalletInv
<1>8. CallInv'
  BY <1>1, <1>2 DEF CallInv, Answered
<1>9. \A v \in Views : ViewInv(v)'
  BY <1>1, <1>2, <1>5, ViewsStay DEF Live, Stored, Clearing, Answered
<1>10. Without({"overlap"})' => Settled /\ mishap' = mishap
  BY <1>2, Overlapped
<1>11. ASSUME Settled
       PROVE  /\ walletData' = <<TRUE>> /\ proofs = 0 /\ proofs' = 1
              /\ call'["login"].to = "none" /\ call'["sync"].to = "none"
  BY <1>2, <1>11, AppendedOne DEF Settled, Free
<1>12. ConnectedInv'
  <2>1. SUFFICES ASSUME Without({"overlap"})'
                 PROVE  /\ proofs' \in {0, 1} /\ Free("login")' /\ LoggingIn' /\ connected'
                        /\ walletData' \in {<<>>, <<TRUE>>} /\ Free("sync")'
                        /\ call'["login"].to # "logout" /\ ~ Answered("login", "verify")'
    BY DEF ConnectedInv
  <2>2. /\ walletData' = <<TRUE>> /\ proofs' = 1
        /\ call'["login"].to = "none" /\ call'["sync"].to = "none"
    BY <1>2, <1>10, <1>11, <2>1
  <2>3. proofs' \in {0, 1} /\ proofs' > 0
    BY <2>2
  <2>4. Free("login")' /\ Free("sync")' /\ ~ Answered("login", "verify")'
    BY <2>2 DEF Free, Answered
  <2> QED
    BY <1>2, <2>2, <2>3, <2>4, Zenon DEF LoggingIn
<1>13. StoredInv'
  <2>1. SUFFICES ASSUME Without({"load", "overlap", "lost"})', NEW s \in Sessions,
                        session'[s] = "stored"
                 PROVE  FALSE
    BY DEF StoredInv
  <2>2. Settled /\ mishap' = mishap /\ Without({"load", "overlap", "lost"})
    BY <1>2, <1>5, <2>1, Overlapped, MishapsStay
  <2>3. \/ walletData = <<FALSE>> /\ was /\ Free("sync")
        \/ call["sync"] = Request("logout", jar)
    BY <1>1, <1>2, <2>1, <2>2 DEF StoredInv
  <2>4. walletData = <<>> /\ call["sync"].to = "none"
    BY <2>2 DEF Settled, Free
  <2> QED
    BY <2>3, <2>4, TakenOne DEF Request
<1> QED
  BY <1>6, <1>7, <1>8, <1>9, <1>12, <1>13 DEF SessionInv

\* The wallet is disconnected by the user, or by an action that was turned away.
LEMMA Disconnected ==
  ASSUME SessionInv, Disconnect, Overlap, Len(walletData) < MaxPending,
         UNCHANGED <<proofs, was, fetch, shown, jar, session>>,
         call' \in [Fibers -> CallType],
         call'["login"] = call["login"], call'["sync"] = call["sync"],
         call'["action"].to \in {"none", "other"},
         Clearing => Clearing'
  PROVE  SessionInv'
<1>1. /\ TypeOK /\ WalletInv /\ CallInv /\ ConnectedInv /\ StoredInv
      /\ \A v \in Views : ViewInv(v)
  BY DEF SessionInv
<1>2. walletData \in Seq(BOOLEAN) /\ proofs \in 0..MaxPending /\ connected \in BOOLEAN
  BY <1>1 DEF TypeOK
<1>3. /\ connected' = FALSE
      /\ ~ connected => walletData' = walletData
      /\ connected => walletData' = Append(walletData, FALSE)
  BY DEF Disconnect
<1>4. /\ walletData' \in Seq(BOOLEAN) /\ Len(walletData') <= Len(walletData) + 1
      /\ connected => walletData' # <<>> /\ walletData'[Len(walletData')] = FALSE
  <2>1. CASE connected
    <3>1. /\ walletData' = Append(walletData, FALSE)
          /\ Append(walletData, FALSE) \in Seq(BOOLEAN) /\ Append(walletData, FALSE) # <<>>
          /\ Len(Append(walletData, FALSE)) = Len(walletData) + 1
          /\ Append(walletData, FALSE)[Len(Append(walletData, FALSE))] = FALSE
      BY <1>2, <1>3, <2>1, Appended
    <3>2. Len(walletData) \in Nat
      BY <1>2, LenProperties
    <3>3. Len(walletData) + 1 <= Len(walletData) + 1
      BY <3>2
    <3> QED
      BY <3>1, <3>3, Zenon
  <2>2. CASE ~ connected
    BY <1>2, <1>3, <2>2, LenProperties
  <2> QED
    BY <2>1, <2>2
<1>5. mishap \subseteq mishap' /\ mishap' \subseteq Mishaps
  <2>1. mishap \subseteq Mishaps
    BY <1>1 DEF TypeOK
  <2> QED
    BY <2>1, Overlapped, Suffered DEF Overlap, Mishaps
<1>6. TypeOK'
  <2>1. Len(walletData') <= MaxPending
    <3>1. Len(walletData) \in Nat /\ Len(walletData') \in Nat
      BY <1>2, <1>4, LenProperties
    <3> QED
      BY <1>4, <3>1, BoundsAssumption
  <2> QED
    BY <1>1, <1>3, <1>4, <1>5, <2>1 DEF TypeOK
<1>7. WalletInv'
  <2>1. CASE connected
    BY <1>3, <1>4, <2>1 DEF WalletInv
  <2>2. CASE ~ connected
    BY <1>1, <1>2, <1>3, <2>2 DEF WalletInv
  <2> QED
    BY <2>1, <2>2
<1>8. CallInv'
  BY <1>1 DEF CallInv, Answered
<1>9. \A v \in Views : ViewInv(v)'
  BY <1>1, <1>5, ViewsStay DEF Live, Stored
<1>10. ASSUME NEW S, "overlap" \in S, Without(S)'
       PROVE  /\ Without(S) /\ Without({"overlap"}) /\ proofs' = 0 /\ walletData = <<>>
              /\ call'["login"].to = "none" /\ call'["sync"].to = "none"
              /\ call["login"].to = "none" /\ call["sync"].to = "none"
  BY <1>10, Overlapped DEF Settled, Free, Without
<1>11. ConnectedInv'
  BY <1>3, <1>10, Unconnected
<1>12. StoredInv'
  <2>1. SUFFICES ASSUME Without({"load", "overlap", "lost"})', NEW s \in Sessions,
                        session'[s] = "stored"
                 PROVE  /\ IF LoggingIn'
                             THEN FALSE
                             ELSE s = jar'
                        /\ call'["login"].to # "logout"
                        /\ \/ walletData' = <<FALSE>> /\ was' /\ Free("sync")'
                           \/ call'["sync"] = Request("logout", jar')
    BY DEF StoredInv, Request
  <2>2. /\ Without({"load", "overlap", "lost"}) /\ proofs' = 0 /\ walletData = <<>>
        /\ call'["login"].to = "none" /\ call'["sync"].to = "none"
        /\ call["login"].to = "none" /\ call["sync"].to = "none"
    BY <1>10, <2>1
  <2>3. /\ s = jar
        /\ ~ connected => \/ walletData = <<FALSE>> /\ was /\ Free("sync")
                          \/ call["sync"] = Request("logout", jar)
    BY <1>1, <2>1, <2>2 DEF StoredInv, LoggingIn, Free, Answered
  <2>4. connected
    BY <2>2, <2>3, TakenOne DEF Request
  <2>5. walletData' = <<FALSE>>
    BY <1>3, <2>2, <2>4, AppendedOne
  <2>6. was
    BY <1>1, <2>2, <2>4 DEF WalletInv
  <2> QED
    BY <2>2, <2>3, <2>5, <2>6 DEF LoggingIn, Free
<1> QED
  BY <1>6, <1>7, <1>8, <1>9, <1>11, <1>12 DEF SessionInv

LEMMA DisconnectsSafe ==
  ASSUME SessionInv, UserDisconnects
  PROVE  SessionInv'
<1>1. call \in [Fibers -> CallType] /\ call["action"].to \in {"none", "other"}
  BY DEF SessionInv, TypeOK, CallInv
<1>2. /\ Disconnect /\ Overlap /\ Len(walletData) < MaxPending
      /\ UNCHANGED <<proofs, was, call, fetch, shown, jar, session>>
  BY DEF UserDisconnects, page
<1>3. Clearing => Clearing'
  BY <1>2 DEF Clearing, Answered
<1> QED
  BY <1>1, <1>2, <1>3, Disconnected

LEMMA ActionAnsweredSafe ==
  ASSUME SessionInv, ActionAnswered
  PROVE  SessionInv'
<1>1. /\ Disconnect /\ Overlap /\ Len(walletData) < MaxPending
      /\ UNCHANGED <<proofs, was, fetch, shown, jar, session>>
      /\ call["action"].to = "other" /\ call' = [call EXCEPT !["action"] = NoCall]
  BY DEF ActionAnswered, Answered, page
<1>2. /\ call' \in [Fibers -> CallType] /\ call'["action"] = NoCall
      /\ \A g \in Fibers : g # "action" => call'[g] = call[g]
  BY <1>1, Calls, FiberNames, CallSet DEF SessionInv, TypeOK
<1>3. Clearing => Clearing'
  BY <1>1, <1>2, FiberNames, ClearingStays DEF Answered
<1>4. /\ call'["login"] = call["login"] /\ call'["sync"] = call["sync"]
      /\ call'["action"].to \in {"none", "other"}
  BY <1>2, FiberNames, Calls
<1> QED
  BY <1>1, <1>2, <1>3, <1>4, Disconnected

LEMMA ActsSafe ==
  ASSUME SessionInv, UserActs
  PROVE  SessionInv'
<1>1. /\ TypeOK /\ WalletInv /\ CallInv /\ ConnectedInv /\ StoredInv
      /\ \A v \in Views : ViewInv(v)
  BY DEF SessionInv
<1>2. /\ UNCHANGED <<connected, walletData, proofs, was, fetch, shown, jar, session, mishap>>
      /\ call["action"].to = "none"
      /\ call' = [call EXCEPT !["action"] = Answer("other", Null, FALSE)]
  BY DEF UserActs, Free, wallet, page
<1>3. Answer("other", Null, FALSE) \in CallType /\ Answer("other", Null, FALSE).to = "other"
  BY Calls DEF Cookies
<1>4. /\ call' \in [Fibers -> CallType] /\ call'["action"].to = "other"
      /\ \A g \in Fibers : g # "action" => call'[g] = call[g]
  BY <1>1, <1>2, <1>3, FiberNames, CallSet DEF TypeOK
<1>5. call'["login"] = call["login"] /\ call'["sync"] = call["sync"]
  BY <1>4, FiberNames
<1>6. Clearing => Clearing'
  BY <1>2, <1>4, FiberNames, ClearingStays DEF Answered
<1>7. TypeOK'
  BY <1>1, <1>2, <1>4 DEF TypeOK
<1>8. WalletInv' /\ CallInv'
  BY <1>1, <1>2, <1>4, <1>5 DEF WalletInv, CallInv, Answered
<1>9. \A v \in Views : ViewInv(v)'
  BY <1>1, <1>2, <1>6, ViewsStay DEF Live, Stored
<1>10. ConnectedInv' /\ StoredInv'
  BY <1>1, <1>2, <1>5, ConnectedStays, StoredStays
<1> QED
  BY <1>7, <1>8, <1>9, <1>10 DEF SessionInv

LEMMA ExpireSafe ==
  ASSUME SessionInv, NEW x \in Sessions, Expire(x)
  PROVE  SessionInv'
<1>1. /\ TypeOK /\ WalletInv /\ CallInv /\ ConnectedInv /\ StoredInv
      /\ \A v \in Views : ViewInv(v)
  BY DEF SessionInv
<1>2. /\ UNCHANGED <<connected, walletData, proofs, was, call, fetch, shown, jar>>
      /\ session[x] = "stored" /\ session' = [session EXCEPT ![x] = "gone"]
      /\ Suffer("expired")
  BY DEF Expire, wallet, page
<1>3. /\ mishap \subseteq mishap' /\ "expired" \in mishap' /\ mishap' \subseteq Mishaps
  BY <1>1, <1>2, Suffered, MishapType DEF TypeOK, Mishaps
<1>4. /\ session' \in [Sessions -> {"absent", "stored", "gone"}]
      /\ \A t \in Sessions : /\ session'[t] = "stored" => session[t] = "stored"
                             /\ session[t] # "absent" => session'[t] # "absent"
  BY <1>1, <1>2 DEF TypeOK
<1>5. \A S : "expired" \in S => ~ Without(S)'
  BY <1>3 DEF Without
<1>6. TypeOK'
  BY <1>1, <1>2, <1>3, <1>4 DEF TypeOK
<1>7. WalletInv' /\ CallInv'
  BY <1>1, <1>2, <1>4 DEF WalletInv, CallInv, Answered, TypeOK, Cookies
<1>8. \A v \in Views : ViewInv(v)'
  BY <1>1, <1>2, <1>5 DEF ViewInv
<1>9. ConnectedInv'
  BY <1>1, <1>2, <1>3, <1>5, MishapsStay DEF ConnectedInv, LoggingIn, Free, Answered
<1>10. StoredInv'
  BY <1>1, <1>2, <1>3, <1>4, MishapsStay DEF StoredInv, LoggingIn, Free, Answered, Request
<1> QED
  BY <1>6, <1>7, <1>8, <1>9, <1>10 DEF SessionInv

-----------------------------------------------------------------------------
(* The login fiber *)

LEMMA TakeProofSafe ==
  ASSUME SessionInv, TakeProof
  PROVE  SessionInv'
<1>1. /\ TypeOK /\ WalletInv /\ CallInv /\ ConnectedInv /\ StoredInv
      /\ \A v \in Views : ViewInv(v)
  BY DEF SessionInv
<1>2. /\ UNCHANGED <<connected, walletData, was, fetch, shown, jar, session, mishap>>
      /\ call["login"].to = "none" /\ proofs > 0 /\ proofs' = proofs - 1
      /\ call' = [call EXCEPT !["login"] = Request("verify", Null)]
  BY DEF TakeProof, Free, page
<1>3. /\ Request("verify", Null) \in CallType /\ Request("verify", Null).to = "verify"
      /\ Request("verify", Null).state = "sent"
  BY Calls DEF Cookies
<1>4. /\ call' \in [Fibers -> CallType]
      /\ call'["login"].to = "verify" /\ call'["login"].state = "sent"
      /\ \A g \in Fibers : g # "login" => call'[g] = call[g]
  BY <1>1, <1>2, <1>3, FiberNames, CallSet DEF TypeOK
<1>5. call'["action"] = call["action"] /\ call'["sync"] = call["sync"]
  BY <1>4, FiberNames
<1>6. Clearing => Clearing'
  BY <1>2, <1>4, FiberNames, ClearingStays DEF Answered
<1>7. proofs \in 0..MaxPending /\ proofs' \in 0..MaxPending
  BY <1>1, <1>2, BoundsAssumption DEF TypeOK
<1>8. TypeOK'
  BY <1>1, <1>2, <1>4, <1>7 DEF TypeOK
<1>9. WalletInv' /\ CallInv'
  BY <1>1, <1>2, <1>4, <1>5 DEF WalletInv, CallInv, Answered
<1>10. \A v \in Views : ViewInv(v)'
  BY <1>1, <1>2, <1>6, ViewsStay DEF Live, Stored
<1>11. LoggingIn /\ LoggingIn'
  BY <1>2, <1>4 DEF LoggingIn
<1>12. ConnectedInv'
  <2>1. SUFFICES ASSUME Without({"overlap"})'
                 PROVE  /\ proofs' = 0 /\ connected' /\ walletData' \in {<<>>, <<TRUE>>}
                        /\ Free("sync")' /\ call'["login"].to # "logout"
                        /\ ~ Answered("login", "verify")' /\ LoggingIn'
    BY DEF ConnectedInv
  <2>2. Without({"overlap"})
    BY <1>2, <2>1 DEF Without
  <2>3. /\ proofs \in {0, 1} /\ connected /\ walletData \in {<<>>, <<TRUE>>} /\ Free("sync")
    BY <1>1, <1>11, <2>2 DEF ConnectedInv
  <2>4. proofs' = 0
    BY <1>2, <2>3
  <2> QED
    BY <1>2, <1>4, <1>5, <1>11, <2>3, <2>4 DEF Free, Answered
<1>13. StoredInv'
  BY <1>1, <1>2, <1>11 DEF StoredInv, Answered, Without
<1> QED
  BY <1>8, <1>9, <1>10, <1>12, <1>13 DEF SessionInv

LEMMA VerifyServedSafe ==
  ASSUME SessionInv, VerifyServed
  PROVE  SessionInv'
<1>1. /\ TypeOK /\ WalletInv /\ CallInv /\ ConnectedInv /\ StoredInv
      /\ \A v \in Views : ViewInv(v)
  BY DEF SessionInv
<1>2. /\ UNCHANGED <<connected, walletData, proofs, was, fetch, shown, jar, mishap>>
      /\ call["login"].to = "verify" /\ call["login"].state = "sent"
  BY DEF VerifyServed, wallet, page
<1>3. PICK c \in Cookies, ok \in BOOLEAN :
        /\ call' = [call EXCEPT !["login"] = Answer("verify", c, ok)]
        /\ ok => /\ c \in Sessions /\ session[c] = "absent"
                 /\ session' = [session EXCEPT ![c] = "stored"]
        /\ ~ ok => c = Null /\ session' = session
  <2>1. CASE \E s \in Sessions :
          /\ session[s] = "absent"
          /\ session' = [session EXCEPT ![s] = "stored"]
          /\ call' = [call EXCEPT !["login"] = Answer("verify", s, TRUE)]
    BY <2>1 DEF Cookies
  <2>2. CASE /\ call' = [call EXCEPT !["login"] = Answer("verify", Null, FALSE)]
             /\ UNCHANGED session
    BY <2>2 DEF Cookies
  <2> QED
    BY <2>1, <2>2 DEF VerifyServed
<1>4. /\ Answer("verify", c, ok) \in CallType /\ Answer("verify", c, ok).to = "verify"
      /\ Answer("verify", c, ok).state = "answered" /\ Answer("verify", c, ok).cookie = c
      /\ (Answer("verify", c, ok).ok <=> ok)
  BY Calls
<1>5. /\ call' \in [Fibers -> CallType] /\ call'["login"] = Answer("verify", c, ok)
      /\ \A g \in Fibers : g # "login" => call'[g] = call[g]
  BY <1>1, <1>3, <1>4, FiberNames, CallSet DEF TypeOK
<1>6. /\ call'["action"] = call["action"] /\ call'["sync"] = call["sync"]
      /\ call'["login"].to = "verify" /\ call'["login"].cookie = c /\ (call'["login"].ok <=> ok)
      /\ call'["login"].state = "answered"
  BY <1>4, <1>5, FiberNames
<1>7. Clearing => Clearing'
  BY <1>2, <1>5, FiberNames, ClearingStays DEF Answered
<1>8. /\ session' \in [Sessions -> {"absent", "stored", "gone"}]
      /\ \A t \in Sessions : session[t] # "absent" => session'[t] = session[t]
      /\ \A t \in Sessions : session'[t] = "stored" => session[t] = "stored" \/ (ok /\ t = c)
      /\ ok => c \in Sessions /\ session'[c] = "stored"
  <2>1. session \in [Sessions -> {"absent", "stored", "gone"}]
    BY <1>1 DEF TypeOK
  <2>2. CASE ok
    BY <1>3, <2>1, <2>2
  <2>3. CASE ~ ok
    BY <1>3, <2>1, <2>3
  <2> QED
    BY <2>2, <2>3
<1>9. jar # Null => jar \in Sessions /\ session[jar] # "absent" /\ session'[jar] = session[jar]
  BY <1>1, <1>8 DEF CallInv, TypeOK, Cookies
<1>10. Live(jar)' = Live(jar)
  BY <1>2, <1>9 DEF Live, Stored
<1>11. TypeOK'
  BY <1>1, <1>2, <1>5, <1>8 DEF TypeOK
<1>12. WalletInv' /\ CallInv'
  BY <1>1, <1>2, <1>6, <1>8, <1>9 DEF WalletInv, CallInv, Answered
<1>13. \A v \in Views : ViewInv(v)'
  BY <1>1, <1>2, <1>7, <1>10, ViewsStay
<1>14. LoggingIn /\ LoggingIn'
  BY <1>2, <1>6 DEF LoggingIn
<1>15. ConnectedInv'
  <2>1. SUFFICES ASSUME Without({"overlap"})'
                 PROVE  /\ proofs' = 0 /\ connected' /\ walletData' \in {<<>>, <<TRUE>>}
                        /\ Free("sync")' /\ call'["login"].to # "logout"
                        /\ (call'["login"].ok => session'[call'["login"].cookie] = "stored")
                        /\ LoggingIn'
    BY DEF ConnectedInv
  <2>2. Without({"overlap"})
    BY <1>2, <2>1 DEF Without
  <2>3. /\ proofs = 0 /\ connected /\ walletData \in {<<>>, <<TRUE>>} /\ Free("sync")
    BY <1>1, <1>2, <1>14, <2>2 DEF ConnectedInv, Free
  <2> QED
    BY <1>2, <1>6, <1>8, <1>14, <2>3 DEF Free
<1>16. StoredInv'
  <2>1. SUFFICES ASSUME Without({"load", "overlap", "lost"})', NEW t \in Sessions,
                        session'[t] = "stored"
                 PROVE  /\ Answered("login", "verify")' /\ call'["login"].ok
                        /\ call'["login"].cookie = t
                        /\ call'["login"].to # "logout" /\ connected'
    BY <1>14 DEF StoredInv
  <2>2. Without({"load", "overlap", "lost"}) /\ Without({"overlap"})
    BY <1>2, <2>1 DEF Without
  <2>3. session[t] # "stored"
    BY <1>1, <1>2, <1>14, <2>2 DEF StoredInv, Answered
  <2>4. connected
    BY <1>1, <1>14, <2>2 DEF ConnectedInv
  <2> QED
    BY <1>2, <1>6, <1>8, <2>1, <2>3, <2>4 DEF Answered
<1> QED
  BY <1>11, <1>12, <1>13, <1>15, <1>16 DEF SessionInv

\* A refused or unanswered proof: the wallet is disconnected, the session closed.
LEMMA VerificationFailsSafe ==
  ASSUME SessionInv, VerificationFails, call["login"].to = "verify",
         UNCHANGED <<proofs, was, shown, session>>,
         mishap \subseteq mishap', mishap' \subseteq Mishaps,
         "lost" \in mishap' \/ (Answered("login", "verify") /\ ~ call["login"].ok)
  PROVE  SessionInv'
<1>1. /\ TypeOK /\ WalletInv /\ CallInv /\ ConnectedInv /\ StoredInv
      /\ \A v \in Views : ViewInv(v)
  BY DEF SessionInv
<1>2. /\ Len(walletData) < MaxPending /\ Disconnect
      /\ call' = [call EXCEPT !["login"] = Request("logout", jar)]
      /\ UNCHANGED <<jar, fetch>>
  BY DEF VerificationFails
<1>3. /\ walletData \in Seq(BOOLEAN) /\ connected \in BOOLEAN /\ jar \in Cookies
      /\ proofs \in 0..MaxPending
  BY <1>1 DEF TypeOK
<1>4. /\ Request("logout", jar) \in CallType /\ Request("logout", jar).to = "logout"
      /\ Request("logout", jar).state = "sent"
  BY <1>3, Calls
<1>5. /\ call' \in [Fibers -> CallType]
      /\ call'["login"].to = "logout" /\ call'["login"].state = "sent"
      /\ \A g \in Fibers : g # "login" => call'[g] = call[g]
  BY <1>1, <1>2, <1>4, FiberNames, CallSet DEF TypeOK
<1>6. call'["action"] = call["action"] /\ call'["sync"] = call["sync"]
  BY <1>5, FiberNames
<1>7. Clearing => Clearing'
  BY <1>5, FiberNames, ClearingStays DEF Answered
<1>8. /\ connected' = FALSE
      /\ ~ connected => walletData' = walletData
      /\ connected => walletData' = Append(walletData, FALSE)
  BY <1>2 DEF Disconnect
<1>9. /\ walletData' \in Seq(BOOLEAN) /\ Len(walletData') <= MaxPending
      /\ connected => walletData' # <<>> /\ walletData'[Len(walletData')] = FALSE
  <2>0. Len(walletData) \in Nat /\ Len(walletData) + 1 <= MaxPending
        /\ Len(walletData) <= MaxPending
    <3>1. Len(walletData) \in Nat
      BY <1>3, LenProperties
    <3> QED
      BY <1>2, <3>1, BoundsAssumption
  <2>1. CASE connected
    <3>1. /\ walletData' = Append(walletData, FALSE)
          /\ Append(walletData, FALSE) \in Seq(BOOLEAN) /\ Append(walletData, FALSE) # <<>>
          /\ Len(Append(walletData, FALSE)) = Len(walletData) + 1
          /\ Append(walletData, FALSE)[Len(Append(walletData, FALSE))] = FALSE
      BY <1>3, <1>8, <2>1, Appended
    <3> QED
      BY <3>1, <2>0, Zenon
  <2>2. CASE ~ connected
    BY <1>3, <1>8, <2>0, <2>2
  <2> QED
    BY <2>1, <2>2
<1>10. TypeOK'
  BY <1>1, <1>2, <1>5, <1>8, <1>9 DEF TypeOK
<1>11. WalletInv'
  <2>1. CASE connected
    BY <1>8, <1>9, <2>1 DEF WalletInv
  <2>2. CASE ~ connected
    BY <1>1, <1>3, <1>8, <2>2 DEF WalletInv
  <2> QED
    BY <2>1, <2>2
<1>12. CallInv'
  BY <1>1, <1>2, <1>5, <1>6 DEF CallInv, Answered
<1>13. \A v \in Views : ViewInv(v)'
  BY <1>1, <1>2, <1>7, ViewsStay DEF Live, Stored
<1>14. ConnectedInv'
  <2>1. ASSUME Without({"overlap"})'
        PROVE  proofs' = 0
    <3>1. Without({"overlap"})
      BY <2>1, MishapsStay
    <3> QED
      BY <1>1, <3>1 DEF ConnectedInv, Free
  <2> QED
    BY <1>5, <1>8, <2>1, Unconnected
<1>15. StoredInv'
  <2>1. SUFFICES ASSUME Without({"load", "overlap", "lost"})', NEW t \in Sessions,
                        session'[t] = "stored"
                 PROVE  FALSE
    BY DEF StoredInv
  <2>2. "lost" \notin mishap' /\ Without({"load", "overlap", "lost"})
    BY <2>1, MishapsStay DEF Without
  <2> QED
    BY <1>1, <2>1, <2>2 DEF StoredInv, LoggingIn, Answered
<1> QED
  BY <1>10, <1>11, <1>12, <1>13, <1>14, <1>15 DEF SessionInv

LEMMA VerifyLostSafe ==
  ASSUME SessionInv, VerifyLost
  PROVE  SessionInv'
<1>1. /\ VerificationFails /\ call["login"].to = "verify" /\ Suffer("lost")
      /\ UNCHANGED <<proofs, was, shown, session>>
  BY DEF VerifyLost
<1>2. /\ mishap \subseteq mishap' /\ "lost" \in mishap' /\ mishap' \subseteq Mishaps
  BY <1>1, Suffered, MishapType DEF SessionInv, TypeOK, Mishaps
<1> QED
  BY <1>1, <1>2, VerificationFailsSafe

LEMMA VerifyAnsweredSafe ==
  ASSUME SessionInv, VerifyAnswered
  PROVE  SessionInv'
<1>1. /\ TypeOK /\ WalletInv /\ CallInv /\ ConnectedInv /\ StoredInv
      /\ \A v \in Views : ViewInv(v)
  BY DEF SessionInv
<1>2. /\ Answered("login", "verify") /\ call["login"].to = "verify"
      /\ UNCHANGED <<proofs, was, shown, session, mishap>>
  BY DEF VerifyAnswered, Answered
<1>3. CASE ~ call["login"].ok
  <2>1. VerificationFails
    BY <1>3 DEF VerifyAnswered
  <2>2. mishap \subseteq mishap' /\ mishap' \subseteq Mishaps
    BY <1>1, <1>2 DEF TypeOK
  <2> QED
    BY <1>2, <1>3, <2>1, <2>2, VerificationFailsSafe
<1>4. CASE call["login"].ok
  <2>1. /\ jar' = call["login"].cookie /\ call' = [call EXCEPT !["login"] = NoCall]
        /\ Refresh(jar') /\ UNCHANGED <<connected, walletData>>
    BY <1>4 DEF VerifyAnswered
  <2>2. jar' \in Sessions /\ session[jar'] # "absent" /\ jar' # Null /\ jar' \in Cookies
    BY <1>1, <1>2, <1>4, <2>1, SessionsAssumption DEF CallInv, Cookies
  <2>3. /\ call' \in [Fibers -> CallType] /\ call'["login"] = NoCall
        /\ \A g \in Fibers : g # "login" => call'[g] = call[g]
    BY <1>1, <2>1, Calls, FiberNames, CallSet DEF TypeOK
  <2>4. /\ call'["action"] = call["action"] /\ call'["sync"] = call["sync"]
        /\ call'["login"].to = "none"
    BY <2>3, FiberNames, Calls
  <2>5. fetch' \in [Views -> FetchType]
    BY <2>1, <2>2, RefreshType
  <2>6. TypeOK'
    BY <1>1, <1>2, <2>1, <2>2, <2>3, <2>5 DEF TypeOK
  <2>7. WalletInv' /\ CallInv'
    BY <1>1, <1>2, <2>1, <2>2, <2>4 DEF WalletInv, CallInv, Answered
  <2>8. \A v \in Views : ViewInv(v)'
    BY <2>1, Refreshed
  <2>9. LoggingIn
    BY <1>2 DEF LoggingIn
  <2>10. ConnectedInv'
    <3>1. SUFFICES ASSUME Without({"overlap"})'
                   PROVE  /\ proofs' = 0 /\ connected' /\ walletData' \in {<<>>, <<TRUE>>}
                          /\ Free("sync")' /\ Free("login")'
                          /\ (Without({"load", "expired"})' => Live(jar)' # Null)
      BY DEF ConnectedInv, LoggingIn, Free, Answered
    <3>2. Without({"overlap"}) /\ (Without({"load", "expired"})' => Without({"expired"}))
      BY <1>2, <3>1 DEF Without
    <3>3. /\ proofs = 0 /\ connected /\ walletData \in {<<>>, <<TRUE>>} /\ Free("sync")
          /\ Without({"expired"}) => session[jar'] = "stored"
      BY <1>1, <1>2, <1>4, <2>1, <2>9, <3>2 DEF ConnectedInv, Free
    <3>4. Without({"load", "expired"})' => Live(jar)' # Null
      BY <1>2, <2>2, <3>2, <3>3 DEF Live, Stored
    <3> QED
      BY <1>2, <2>1, <2>4, <3>3, <3>4 DEF Free
  <2>11. StoredInv'
    <3>1. SUFFICES ASSUME Without({"load", "overlap", "lost"})', NEW t \in Sessions,
                          session'[t] = "stored"
                   PROVE  /\ ~ LoggingIn' /\ t = jar'
                          /\ call'["login"].to # "logout" /\ connected'
      BY DEF StoredInv
    <3>2. Without({"load", "overlap", "lost"}) /\ Without({"overlap"})
      BY <1>2, <3>1 DEF Without
    <3>3. t = jar'
      BY <1>1, <1>2, <2>1, <2>9, <3>1, <3>2 DEF StoredInv
    <3>4. connected /\ proofs = 0
      BY <1>1, <1>2, <2>9, <3>2 DEF ConnectedInv, Free
    <3> QED
      BY <1>2, <2>1, <2>4, <3>3, <3>4 DEF LoggingIn
  <2> QED
    BY <2>6, <2>7, <2>8, <2>10, <2>11 DEF SessionInv
<1> QED
  BY <1>3, <1>4

-----------------------------------------------------------------------------
(* The sync fiber, and logout in either of the two *)

LEMMA TakeWalletDataSafe ==
  ASSUME SessionInv, TakeWalletData
  PROVE  SessionInv'
<1>1. /\ TypeOK /\ WalletInv /\ CallInv /\ ConnectedInv /\ StoredInv
      /\ \A v \in Views : ViewInv(v)
  BY DEF SessionInv
<1>2. /\ UNCHANGED <<connected, proofs, fetch, shown, jar, session, mishap>>
      /\ call["sync"].to = "none" /\ walletData # <<>>
      /\ walletData' = Tail(walletData) /\ was' = Head(walletData)
      /\ was /\ ~ Head(walletData) =>
           call' = [call EXCEPT !["sync"] = Request("logout", jar)]
      /\ ~ (was /\ ~ Head(walletData)) => call' = call
  BY DEF TakeWalletData, Free, page
<1>3. /\ walletData \in Seq(BOOLEAN) /\ Len(walletData) <= MaxPending /\ jar \in Cookies
      /\ call \in [Fibers -> CallType]
  BY <1>1 DEF TypeOK
<1>4. /\ Head(walletData) \in BOOLEAN /\ Tail(walletData) \in Seq(BOOLEAN)
      /\ Len(Tail(walletData)) <= Len(walletData)
      /\ Tail(walletData) = <<>> => Head(walletData) = walletData[Len(walletData)]
      /\ Tail(walletData) # <<>> =>
           Tail(walletData)[Len(Tail(walletData))] = walletData[Len(walletData)]
  BY <1>2, <1>3, Taken
<1>5. Len(Tail(walletData)) <= MaxPending
  <2>1. Len(walletData) \in Nat /\ Len(Tail(walletData)) \in Nat
    BY <1>3, <1>4, LenProperties
  <2> QED
    BY <1>3, <1>4, <2>1, BoundsAssumption
<1>6. /\ call' \in [Fibers -> CallType]
      /\ \A g \in Fibers : g # "sync" => call'[g] = call[g]
      /\ was /\ ~ Head(walletData) => call'["sync"] = Request("logout", jar)
      /\ ~ (was /\ ~ Head(walletData)) => call'["sync"] = call["sync"]
  <2>1. CASE was /\ ~ Head(walletData)
    <3>1. /\ Request("logout", jar) \in CallType
          /\ call' = [call EXCEPT !["sync"] = Request("logout", jar)]
      BY <1>2, <1>3, <2>1, Calls
    <3> QED
      BY <1>3, <2>1, <3>1, FiberNames, CallSet
  <2>2. CASE ~ (was /\ ~ Head(walletData))
    BY <1>2, <1>3, <2>2
  <2> QED
    BY <2>1, <2>2
<1>7. call'["action"] = call["action"] /\ call'["login"] = call["login"]
  BY <1>6, FiberNames
<1>8. Clearing => Clearing'
  BY <1>2, <1>6, FiberNames, ClearingStays DEF Answered
<1>9. TypeOK'
  BY <1>1, <1>2, <1>4, <1>5, <1>6 DEF TypeOK
<1>10. WalletInv'
  <2>1. walletData[Len(walletData)] = connected
    BY <1>1, <1>2 DEF WalletInv
  <2> QED
    BY <1>2, <1>4, <2>1, Zenon DEF WalletInv
<1>11. CallInv'
  <2>1. call'["sync"].to \in {"none", "logout"}
    <3>1. Request("logout", jar).to = "logout"
      BY <1>3, Calls
    <3> QED
      BY <1>2, <1>6, <3>1
  <2> QED
    BY <1>1, <1>2, <1>7, <2>1 DEF CallInv, Answered
<1>12. \A v \in Views : ViewInv(v)'
  BY <1>1, <1>2, <1>8, ViewsStay DEF Live, Stored
<1>13. ConnectedInv'
  <2>1. SUFFICES ASSUME Without({"overlap"})', connected
                 PROVE  ConnectedInv'
    BY <1>1, <1>2, <1>7 DEF ConnectedInv, LoggingIn, Free, Answered, Live, Stored, Without
  <2>2. Without({"overlap"})
    BY <1>2, <2>1 DEF Without
  <2>3. walletData = <<TRUE>>
    BY <1>1, <1>2, <2>1, <2>2 DEF ConnectedInv
  <2>4. Head(walletData) = TRUE /\ Tail(walletData) = <<>>
    BY <2>3, TakenOne
  <2>5. walletData' = <<>> /\ call' = call
    BY <1>2, <2>4
  <2> QED
    BY <1>1, <1>2, <2>5 DEF ConnectedInv, LoggingIn, Free, Answered, Live, Stored, Without
<1>14. StoredInv'
  <2>1. SUFFICES ASSUME Without({"load", "overlap", "lost"})', NEW t \in Sessions,
                        session'[t] = "stored", ~ connected
                 PROVE  call'["sync"] = Request("logout", jar')
    BY <1>1, <1>2, <1>7 DEF StoredInv, LoggingIn, Answered, Without
  <2>2. Without({"load", "overlap", "lost"})
    BY <1>2, <2>1 DEF Without
  <2>3. \/ walletData = <<FALSE>> /\ was
        \/ call["sync"] = Request("logout", jar)
    BY <1>1, <1>2, <2>1, <2>2 DEF StoredInv
  <2>4. CASE walletData = <<FALSE>> /\ was
    <3>1. Head(walletData) = FALSE
      BY <2>4, TakenOne
    <3> QED
      BY <1>2, <1>6, <2>4, <3>1
  <2>5. CASE call["sync"] = Request("logout", jar)
    BY <1>2, <1>3, <2>5, Calls
  <2> QED
    BY <2>3, <2>4, <2>5
<1> QED
  BY <1>9, <1>10, <1>11, <1>12, <1>13, <1>14 DEF SessionInv

\* Who logs out is not connected; while a session is left it is the sync fiber,
\* whose request is that of the jar.
LEMMA WhoLogsOut ==
  ASSUME SessionInv, NEW f \in Fibers, call[f].to = "logout"
  PROVE  /\ f \in {"login", "sync"}
         /\ Without({"overlap"}) =>
              /\ ~ connected /\ ~ LoggingIn /\ proofs = 0 /\ call["login"].to # "verify"
         /\ Without({"load", "overlap", "lost"}) =>
              \A s \in Sessions : session[s] = "stored" =>
                f = "sync" /\ call[f] = Request("logout", jar) /\ s = jar
<1>1. TypeOK /\ CallInv /\ ConnectedInv /\ StoredInv
  BY DEF SessionInv
<1>2. f \in {"login", "sync"}
  BY <1>1, FiberNames DEF CallInv
<1>3. ASSUME Without({"overlap"})
      PROVE  /\ ~ connected /\ ~ LoggingIn /\ proofs = 0 /\ call["login"].to # "verify"
  <2>1. ~ connected
    BY <1>1, <1>2, <1>3 DEF ConnectedInv, Free
  <2>2. ~ LoggingIn
    BY <1>1, <1>3, <2>1 DEF ConnectedInv
  <2>3. proofs \in {0, 1}
    BY <1>1, <1>3 DEF ConnectedInv
  <2> QED
    BY <2>1, <2>2, <2>3 DEF LoggingIn
<1>4. ASSUME Without({"load", "overlap", "lost"}), NEW s \in Sessions, session[s] = "stored"
      PROVE  f = "sync" /\ call[f] = Request("logout", jar) /\ s = jar
  <2>1. Without({"overlap"})
    BY <1>4 DEF Without
  <2>2. f = "sync"
    BY <1>1, <1>2, <1>4 DEF StoredInv
  <2>3. /\ s = jar
        /\ \/ walletData = <<FALSE>> /\ was /\ Free("sync")
           \/ call["sync"] = Request("logout", jar)
    BY <1>1, <1>3, <1>4, <2>1 DEF StoredInv
  <2> QED
    BY <2>2, <2>3 DEF Free
<1> QED
  BY <1>2, <1>3, <1>4

LEMMA LogoutServedSafe ==
  ASSUME SessionInv, NEW f \in Fibers, LogoutServed(f)
  PROVE  SessionInv'
<1>1. /\ TypeOK /\ WalletInv /\ CallInv /\ ConnectedInv /\ StoredInv
      /\ \A v \in Views : ViewInv(v)
  BY DEF SessionInv
<1> DEFINE c == call[f].cookie
<1>2. /\ UNCHANGED <<connected, walletData, proofs, was, fetch, shown, jar, mishap>>
      /\ call[f].to = "logout" /\ call[f].state = "sent"
      /\ call' = [call EXCEPT ![f] = Answer("logout", Null, Stored(c))]
      /\ session' = IF Stored(c) THEN [session EXCEPT ![c] = "gone"] ELSE session
  BY DEF LogoutServed, wallet, page
<1>3. c \in Cookies /\ jar \in Cookies /\ session \in [Sessions -> {"absent", "stored", "gone"}]
  BY <1>1 DEF TypeOK, CallType
<1> HIDE DEF c
<1>4. Stored(c) \in BOOLEAN /\ (Stored(c) => c \in Sessions)
  BY <1>3 DEF Stored, Cookies
<1>5. /\ Answer("logout", Null, Stored(c)) \in CallType
      /\ Answer("logout", Null, Stored(c)).to = "logout"
      /\ Answer("logout", Null, Stored(c)).state = "answered"
      /\ (Answer("logout", Null, Stored(c)).ok <=> Stored(c))
  BY <1>4, Calls DEF Cookies
<1>6. /\ call' \in [Fibers -> CallType]
      /\ call'[f].to = "logout" /\ call'[f].state = "answered" /\ (call'[f].ok <=> Stored(c))
      /\ \A g \in Fibers : g # f => call'[g] = call[g]
  BY <1>1, <1>2, <1>5, CallSet DEF TypeOK
<1>7. /\ session' \in [Sessions -> {"absent", "stored", "gone"}]
      /\ Stored(c) => session'[c] = "gone"
      /\ \A t \in Sessions : /\ session'[t] = "stored" => session[t] = "stored"
                             /\ session[t] # "absent" => session'[t] # "absent"
      /\ ~ Stored(c) => session' = session
  BY <1>2, <1>3, <1>4
<1>8. Clearing => Clearing'
  BY <1>2, <1>6, ClearingStays DEF Answered
<1>9. Live(jar)' = Live(jar) \/ Clearing'
  <2>1. CASE Stored(c)
    BY <1>6, <2>1 DEF Clearing, Answered
  <2>2. CASE ~ Stored(c)
    BY <1>2, <1>7, <2>2 DEF Live, Stored
  <2> QED
    BY <2>1, <2>2
<1>10. /\ f \in {"login", "sync"}
       /\ Without({"overlap"}) =>
            /\ ~ connected /\ ~ LoggingIn /\ proofs = 0 /\ call["login"].to # "verify"
       /\ Without({"load", "overlap", "lost"}) =>
            \A s \in Sessions : session[s] = "stored" =>
              f = "sync" /\ call[f] = Request("logout", jar) /\ s = jar
  BY <1>2, WhoLogsOut
<1>11. TypeOK'
  BY <1>1, <1>2, <1>6, <1>7 DEF TypeOK
<1>12. WalletInv'
  BY <1>1, <1>2 DEF WalletInv
<1>13. CallInv'
  <2>1. \A g \in Fibers : g # f => call'[g] = call[g]
    BY <1>6
  <2>2. /\ call'["login"].to # "other" /\ call'["sync"].to \in {"none", "logout"}
        /\ call'["action"].to \in {"none", "other"}
    BY <1>1, <1>6, <1>10, FiberNames DEF CallInv
  <2>3. call'["login"].to = "verify" => call'["login"] = call["login"]
    BY <1>6, FiberNames
  <2>4. jar' # Null => session'[jar'] # "absent"
    BY <1>1, <1>2, <1>3, <1>7 DEF CallInv, Cookies
  <2>5. ASSUME Answered("login", "verify")', call'["login"].ok
        PROVE  call'["login"].cookie \in Sessions /\ session'[call'["login"].cookie] # "absent"
    <3>1. call'["login"] = call["login"] /\ Answered("login", "verify") /\ call["login"].ok
      BY <2>3, <2>5 DEF Answered
    <3> QED
      BY <1>1, <1>7, <3>1 DEF CallInv
  <2> QED
    BY <2>2, <2>4, <2>5 DEF CallInv
<1>14. \A v \in Views : ViewInv(v)'
  BY <1>1, <1>2, <1>8, <1>9, ViewsStay
<1>15. ConnectedInv'
  <2>1. ASSUME Without({"overlap"})'
        PROVE  ~ connected' /\ proofs' = 0 /\ call'["login"].to # "verify"
    <3>1. Without({"overlap"})
      BY <1>2, <2>1 DEF Without
    <3> QED
      BY <1>2, <1>6, <1>10, <3>1, FiberNames
  <2> QED
    BY <2>1, Unconnected
<1>16. StoredInv'
  <2>1. SUFFICES ASSUME Without({"load", "overlap", "lost"})', NEW t \in Sessions,
                        session'[t] = "stored"
                 PROVE  FALSE
    BY DEF StoredInv
  <2>2. Without({"load", "overlap", "lost"})
    BY <1>2, <2>1 DEF Without
  <2>3. session[t] = "stored"
    BY <1>7, <2>1
  <2>4. call[f] = Request("logout", jar) /\ t = jar
    BY <1>10, <2>2, <2>3
  <2>5. c = t
    BY <2>4 DEF c, Request
  <2>6. Stored(c)
    BY <2>3, <2>5, SessionsAssumption DEF Stored
  <2> QED
    BY <1>7, <2>1, <2>5, <2>6
<1> QED
  BY <1>11, <1>12, <1>13, <1>14, <1>15, <1>16 DEF SessionInv

\* The answer, or its loss.
LEMMA LogoutDoneSafe ==
  ASSUME SessionInv, NEW f \in Fibers, NEW ok \in BOOLEAN,
         call[f].to = "logout", LogoutDone(f, ok),
         UNCHANGED <<connected, walletData, proofs, was, shown, session>>,
         mishap \subseteq mishap', mishap' \subseteq Mishaps,
         "lost" \in mishap' \/ (Answered(f, "logout") /\ (ok <=> call[f].ok))
  PROVE  SessionInv'
<1>1. /\ TypeOK /\ WalletInv /\ CallInv /\ ConnectedInv /\ StoredInv
      /\ \A v \in Views : ViewInv(v)
  BY DEF SessionInv
<1>2. /\ call' = [call EXCEPT ![f] = NoCall]
      /\ jar' = IF ok THEN Null ELSE jar
      /\ IF GivesUp(f, ok) THEN UNCHANGED fetch ELSE Refresh(jar')
  BY DEF LogoutDone
<1>3. jar \in Cookies /\ jar' \in Cookies /\ jar' \in {jar, Null}
  BY <1>1, <1>2 DEF TypeOK, Cookies
<1>4. /\ call' \in [Fibers -> CallType] /\ call'[f].to = "none"
      /\ \A g \in Fibers : g # f => call'[g] = call[g]
  BY <1>1, <1>2, Calls, CallSet DEF TypeOK
<1>5. fetch' \in [Views -> FetchType]
  <2>1. CASE GivesUp(f, ok)
    BY <1>1, <1>2, <2>1 DEF TypeOK
  <2>2. CASE ~ GivesUp(f, ok)
    BY <1>2, <1>3, <2>2, RefreshType
  <2> QED
    BY <2>1, <2>2
<1>6. /\ f \in {"login", "sync"}
      /\ Without({"overlap"}) =>
           /\ ~ connected /\ ~ LoggingIn /\ proofs = 0 /\ call["login"].to # "verify"
      /\ Without({"load", "overlap", "lost"}) =>
           \A s \in Sessions : session[s] = "stored" =>
             f = "sync" /\ call[f] = Request("logout", jar) /\ s = jar
  BY WhoLogsOut
<1>7. TypeOK'
  BY <1>1, <1>3, <1>4, <1>5 DEF TypeOK
<1>8. WalletInv'
  BY <1>1 DEF WalletInv
<1>9. CallInv'
  <2>1. /\ call'["login"].to # "other" /\ call'["sync"].to \in {"none", "logout"}
        /\ call'["action"].to \in {"none", "other"}
    BY <1>1, <1>4, <1>6, FiberNames DEF CallInv
  <2>2. call'["login"].to = "verify" => call'["login"] = call["login"]
    BY <1>4, FiberNames
  <2> QED
    BY <1>1, <1>3, <2>1, <2>2 DEF CallInv, Answered
<1>10. \A v \in Views : ViewInv(v)'
  <2>1. CASE ~ GivesUp(f, ok)
    BY <1>2, <2>1, Refreshed
  <2>2. CASE GivesUp(f, ok)
    <3>1. fetch' = fetch /\ jar' = jar /\ ~ ok
      BY <1>2, <2>2 DEF GivesUp
    <3>2. CASE "lost" \in mishap'
      <4>1. ~ Without({"lost", "expired"})'
        BY <3>2 DEF Without
      <4> QED
        BY <1>1, <3>1, <4>1 DEF ViewInv
    <3>3. CASE Answered(f, "logout") /\ (ok <=> call[f].ok)
      <4>1. Clearing => Clearing'
        BY <1>4, <3>1, <3>3, ClearingStays
      <4>2. Live(jar)' = Live(jar)
        BY <3>1 DEF Live, Stored
      <4> QED
        BY <1>1, <3>1, <4>1, <4>2, ViewsStay
    <3> QED
      BY <3>2, <3>3
  <2> QED
    BY <2>1, <2>2
<1>11. ConnectedInv'
  <2>1. ASSUME Without({"overlap"})'
        PROVE  ~ connected' /\ proofs' = 0 /\ call'["login"].to # "verify"
    <3>1. Without({"overlap"})
      BY <2>1, MishapsStay
    <3> QED
      BY <1>4, <1>6, <3>1, FiberNames
  <2> QED
    BY <2>1, Unconnected
<1>12. StoredInv'
  <2>1. SUFFICES ASSUME Without({"load", "overlap", "lost"})', NEW t \in Sessions,
                        session'[t] = "stored"
                 PROVE  FALSE
    BY DEF StoredInv
  <2>2. Without({"load", "overlap", "lost"}) /\ Answered(f, "logout")
    BY <2>1, MishapsStay DEF Without
  <2>3. call[f] = Request("logout", jar)
    BY <1>6, <2>1, <2>2
  <2> QED
    BY <1>3, <2>2, <2>3, Calls DEF Answered
<1> QED
  BY <1>7, <1>8, <1>9, <1>10, <1>11, <1>12 DEF SessionInv

LEMMA LogoutAnsweredSafe ==
  ASSUME SessionInv, NEW f \in Fibers, LogoutAnswered(f)
  PROVE  SessionInv'
<1>1. /\ Answered(f, "logout") /\ LogoutDone(f, call[f].ok) /\ call[f].to = "logout"
      /\ UNCHANGED <<connected, walletData, proofs, was, shown, session, mishap>>
  BY DEF LogoutAnswered, Answered, wallet
<1>2. mishap \subseteq mishap' /\ mishap' \subseteq Mishaps /\ call[f].ok \in BOOLEAN
  BY <1>1 DEF SessionInv, TypeOK, CallType
<1> QED
  BY <1>1, <1>2, LogoutDoneSafe

LEMMA LogoutLostSafe ==
  ASSUME SessionInv, NEW f \in Fibers, LogoutLost(f)
  PROVE  SessionInv'
<1>1. /\ call[f].to = "logout" /\ LogoutDone(f, FALSE) /\ Suffer("lost")
      /\ UNCHANGED <<connected, walletData, proofs, was, shown, session>>
  BY DEF LogoutLost, wallet
<1>2. /\ mishap \subseteq mishap' /\ "lost" \in mishap' /\ mishap' \subseteq Mishaps
  BY <1>1, Suffered, MishapType DEF SessionInv, TypeOK, Mishaps
<1> QED
  BY <1>1, <1>2, LogoutDoneSafe

-----------------------------------------------------------------------------
(* The views *)

\* A fetch has no part in what the fibers and the server know.
LEMMA Fetched ==
  ASSUME SessionInv, UNCHANGED <<connected, walletData, proofs, was, call, jar, session>>,
         mishap \subseteq mishap', mishap' \subseteq Mishaps,
         fetch' \in [Views -> FetchType], shown' \in [Views -> Cookies],
         \A v \in Views : ViewInv(v)'
  PROVE  SessionInv'
<1>1. TypeOK /\ WalletInv /\ CallInv /\ ConnectedInv /\ StoredInv
  BY DEF SessionInv
<1>2. TypeOK'
  BY <1>1 DEF TypeOK
<1>3. WalletInv' /\ CallInv'
  BY <1>1 DEF WalletInv, CallInv, Answered
<1>4. ConnectedInv' /\ StoredInv'
  BY <1>1, ConnectedStays, StoredStays
<1> QED
  BY <1>2, <1>3, <1>4 DEF SessionInv

LEMMA FetchServedSafe ==
  ASSUME SessionInv, NEW v \in Views, FetchServed(v)
  PROVE  SessionInv'
<1>1. TypeOK /\ \A w \in Views : ViewInv(w)
  BY DEF SessionInv
<1> DEFINE x == [state |-> "answered", cookie |-> Live(fetch[v].cookie)]
<1>2. /\ UNCHANGED <<connected, walletData, proofs, was, call, shown, jar, session, mishap>>
      /\ fetch[v].state = "sent" /\ fetch' = [fetch EXCEPT ![v] = x]
  BY DEF FetchServed, wallet
<1>3. fetch[v].cookie = jar /\ jar \in Cookies
  BY <1>1, <1>2 DEF ViewInv, TypeOK
<1>4. Live(jar) \in Cookies /\ x.state = "answered" /\ x.cookie = Live(jar) /\ x \in FetchType
  BY <1>3 DEF Live, Cookies, FetchType
<1> HIDE DEF x
<1>5. /\ fetch' \in [Views -> FetchType] /\ fetch'[v] = x
      /\ \A w \in Views : w # v => fetch'[w] = fetch[w]
  BY <1>1, <1>2, <1>4 DEF TypeOK
<1>6. Live(jar)' = Live(jar) /\ (Clearing => Clearing')
  BY <1>2 DEF Live, Stored, Clearing, Answered
<1>7. \A w \in Views : ViewInv(w)'
  <2>1. ViewInv(v)'
    BY <1>4, <1>5, <1>6 DEF ViewInv
  <2>2. ASSUME NEW w \in Views, w # v
        PROVE  ViewInv(w)'
    BY <1>1, <1>2, <1>5, <1>6, <2>2, ViewStays
  <2> QED
    BY <2>1, <2>2
<1> QED
  BY <1>1, <1>2, <1>5, <1>7, Fetched DEF TypeOK

\* The answer, or its loss.
LEMMA FetchDoneSafe ==
  ASSUME SessionInv, NEW v \in Views, NEW c \in Cookies, FetchDone(v, c),
         mishap \subseteq mishap', mishap' \subseteq Mishaps,
         Without({"lost", "expired"})' => c = Live(jar) \/ Clearing
  PROVE  SessionInv'
<1>1. TypeOK /\ \A w \in Views : ViewInv(w)
  BY DEF SessionInv
<1> DEFINE x == [state |-> "done", cookie |-> Null]
<1>2. /\ UNCHANGED <<connected, walletData, proofs, was, call, jar, session>>
      /\ fetch' = [fetch EXCEPT ![v] = x] /\ shown' = [shown EXCEPT ![v] = c]
  BY DEF FetchDone, wallet
<1>3. x.state = "done" /\ x \in FetchType
  BY DEF FetchType, Cookies
<1> HIDE DEF x
<1>4. /\ fetch' \in [Views -> FetchType] /\ fetch'[v] = x
      /\ shown' \in [Views -> Cookies] /\ shown'[v] = c
      /\ \A w \in Views : w # v => fetch'[w] = fetch[w] /\ shown'[w] = shown[w]
  BY <1>1, <1>2, <1>3 DEF TypeOK
<1>5. Live(jar)' = Live(jar) /\ (Clearing => Clearing')
  BY <1>2 DEF Live, Stored, Clearing, Answered
<1>6. \A w \in Views : ViewInv(w)'
  <2>1. ViewInv(v)'
    BY <1>3, <1>4, <1>5 DEF ViewInv
  <2>2. ASSUME NEW w \in Views, w # v
        PROVE  ViewInv(w)'
    BY <1>1, <1>2, <1>4, <1>5, <2>2, ViewStays
  <2> QED
    BY <2>1, <2>2
<1> QED
  BY <1>2, <1>4, <1>6, Fetched

LEMMA FetchAnsweredSafe ==
  ASSUME SessionInv, NEW v \in Views, FetchAnswered(v)
  PROVE  SessionInv'
<1>1. TypeOK /\ ViewInv(v) /\ fetch[v].state = "answered"
      /\ FetchDone(v, fetch[v].cookie) /\ mishap' = mishap
  BY DEF SessionInv, FetchAnswered
<1>2. fetch[v].cookie \in Cookies /\ mishap \subseteq mishap' /\ mishap' \subseteq Mishaps
  BY <1>1 DEF TypeOK, FetchType
<1>3. Without({"lost", "expired"})' => fetch[v].cookie = Live(jar) \/ Clearing
  BY <1>1 DEF ViewInv, Without
<1> QED
  BY <1>1, <1>2, <1>3, FetchDoneSafe

LEMMA FetchLostSafe ==
  ASSUME SessionInv, NEW v \in Views, FetchLost(v)
  PROVE  SessionInv'
<1>1. FetchDone(v, Null) /\ Suffer("lost") /\ Null \in Cookies
  BY DEF FetchLost, Cookies
<1>2. /\ mishap \subseteq mishap' /\ "lost" \in mishap' /\ mishap' \subseteq Mishaps
  BY <1>1, Suffered, MishapType DEF SessionInv, TypeOK, Mishaps
<1>3. ~ Without({"lost", "expired"})'
  BY <1>2 DEF Without
<1> QED
  BY <1>1, <1>2, <1>3, FetchDoneSafe

-----------------------------------------------------------------------------

\* One step of the invariance proof per action.
LEMMA SessionSteps ==
  ASSUME SessionInv, [Next]_vars
  PROVE  SessionInv'
<1>1. CASE Outside
  BY <1>1, ConnectsSafe, DisconnectsSafe, ActsSafe, ExpireSafe DEF Outside
<1>2. CASE Lose
  BY <1>2, VerifyLostSafe, LogoutLostSafe, FetchLostSafe DEF Lose
<1>3. CASE LoginFiber
  BY <1>3, TakeProofSafe, VerifyServedSafe, VerifyAnsweredSafe DEF LoginFiber
<1>4. CASE ActionAnswered \/ TakeWalletData
  BY <1>4, ActionAnsweredSafe, TakeWalletDataSafe
<1>5. CASE \E f \in Fibers : LogoutStep(f)
  BY <1>5, LogoutServedSafe, LogoutAnsweredSafe DEF LogoutStep
<1>6. CASE \E v \in Views : ViewStep(v)
  BY <1>6, FetchServedSafe, FetchAnsweredSafe DEF ViewStep
<1>7. CASE UNCHANGED vars
  <2>1. UNCHANGED <<connected, walletData, proofs, was, call, fetch, shown, jar, session,
                    mishap>>
    BY <1>7 DEF vars, wallet, page
  <2>2. TypeOK /\ \A v \in Views : ViewInv(v)
    BY DEF SessionInv
  <2>3. \A v \in Views : ViewInv(v)'
    BY <2>1, <2>2, ViewsStay DEF Live, Stored, Clearing, Answered
  <2> QED
    BY <2>1, <2>2, <2>3, Fetched DEF TypeOK
<1> QED
  BY <1>1, <1>2, <1>3, <1>4, <1>5, <1>6, <1>7 DEF Next

LEMMA SessionStart ==
  ASSUME Init
  PROVE  SessionInv
<1>1. /\ connected \in BOOLEAN /\ walletData = <<connected>> /\ proofs = 0 /\ was = FALSE
      /\ call = [f \in Fibers |-> NoCall] /\ jar \in {First, Null}
      /\ session = [s \in Sessions |-> IF s = jar THEN "stored" ELSE "absent"]
      /\ fetch = [v \in Views |-> [state |-> "sent", cookie |-> jar]]
      /\ shown = [v \in Views |-> Null]
      /\ mishap = IF connected = (jar # Null) THEN {} ELSE {"load"}
  BY DEF Init
<1>2. jar \in Cookies /\ Null \in Cookies
  BY <1>1, SessionsAssumption DEF Cookies
<1>3. /\ call \in [Fibers -> CallType]
      /\ call["login"].to = "none" /\ call["sync"].to = "none" /\ call["action"].to = "none"
  BY <1>1, Calls, FiberNames
<1>4. /\ fetch \in [Views -> FetchType]
      /\ \A v \in Views : fetch[v].state = "sent" /\ fetch[v].cookie = jar
  BY <1>1, <1>2 DEF FetchType
<1>5. /\ session \in [Sessions -> {"absent", "stored", "gone"}]
      /\ jar # Null => jar \in Sessions /\ session[jar] = "stored"
      /\ \A s \in Sessions : session[s] = "stored" => s = jar
  BY <1>1, SessionsAssumption
<1>6. /\ walletData \in Seq(BOOLEAN) /\ Len(walletData) = 1 /\ walletData # <<>>
      /\ walletData[1] = connected
  BY <1>1
<1>7. proofs \in 0..MaxPending /\ 1 <= MaxPending /\ ~ (proofs > 0)
  BY <1>1, BoundsAssumption
<1>8. mishap \subseteq Mishaps
  BY <1>1 DEF Mishaps
<1>9. TypeOK
  <2>1. was \in BOOLEAN /\ shown \in [Views -> Cookies]
    BY <1>1, <1>2
  <2>2. Len(walletData) <= MaxPending
    BY <1>6, <1>7
  <2> QED
    BY <1>1, <1>2, <1>3, <1>4, <1>5, <1>6, <1>7, <1>8, <2>1, <2>2 DEF TypeOK
<1>10. WalletInv
  BY <1>6, Zenon DEF WalletInv
<1>11. CallInv
  BY <1>3, <1>5 DEF CallInv, Answered
<1>12. \A v \in Views : ViewInv(v)
  BY <1>4 DEF ViewInv
<1>13. ~ LoggingIn /\ Free("login") /\ Free("sync") /\ ~ Answered("login", "verify")
  BY <1>3, <1>7 DEF LoggingIn, Free, Answered
<1>14. ConnectedInv
  <2>1. connected => walletData = <<TRUE>>
    BY <1>1
  <2>2. Without({"load", "expired"}) /\ connected => Live(jar) # Null
    BY <1>1, <1>5 DEF Without, Live, Stored
  <2> QED
    BY <1>1, <1>3, <1>13, <2>1, <2>2 DEF ConnectedInv
<1>15. StoredInv
  <2>1. SUFFICES ASSUME Without({"load", "overlap", "lost"}), NEW s \in Sessions,
                        session[s] = "stored"
                 PROVE  s = jar /\ connected
    BY <1>3, <1>13 DEF StoredInv
  <2>2. s = jar /\ jar # Null
    BY <1>5, <2>1, SessionsAssumption
  <2>3. connected
    BY <1>1, <2>1, <2>2 DEF Without
  <2> QED
    BY <2>2, <2>3
<1> QED
  BY <1>9, <1>10, <1>11, <1>12, <1>14, <1>15 DEF SessionInv

-----------------------------------------------------------------------------
(* Theorems *)

\* What the login and the sync fiber of the page rely on: who is connected, who
\* is logging in or out, and which session the cookie names, whatever overlaps.
THEOREM SessionInvariance == Spec => []SessionInv
<1>1. Init => SessionInv
  BY SessionStart
<1>2. SessionInv /\ [Next]_vars => SessionInv'
  BY SessionSteps
<1> QED
  BY <1>1, <1>2, PTL DEF Spec

\* Once the fibers and the fetches are done, both views of the page show the session
\* the server knows the browser by: the refreshes after verify and logout suffice.
THEOREM ShownTruth == Spec => []ShownIsTrue
<1>1. ASSUME SessionInv
      PROVE  ShownIsTrue
  <2>1. \A v \in Views : ViewInv(v) /\ CallInv
    BY <1>1 DEF SessionInv
  <2>2. SUFFICES ASSUME Quiet, Without({"lost", "expired"}), NEW v \in Views
                 PROVE  shown[v] = Live(jar)
    BY DEF ShownIsTrue
  <2>3. ~ Clearing
    BY <2>1, <2>2, FiberNames DEF Clearing, Answered, Quiet, Settled, Free, CallInv
  <2>4. fetch[v].state = "done"
    BY <2>2 DEF Quiet
  <2> QED
    BY <2>1, <2>2, <2>3, <2>4 DEF ViewInv
<1> QED
  BY <1>1, SessionInvariance, PTL

\* The browser has a session just while the wallet is connected, as rolaVerificationAtom
\* and disconnectSyncAtom see to it.
THEOREM LoginSafety == Spec => []LoginFollowsWallet
<1>1. ASSUME SessionInv
      PROVE  LoginFollowsWallet
  <2>1. ConnectedInv /\ StoredInv /\ TypeOK
    BY <1>1 DEF SessionInv
  <2>2. SUFFICES ASSUME Quiet, Without({"load", "overlap"})
                 PROVE  /\ ~ connected /\ Without({"lost"}) => Live(jar) = Null
                        /\ connected /\ Without({"expired"}) => Live(jar) # Null
    BY DEF LoginFollowsWallet
  <2>3. /\ proofs = 0 /\ walletData = <<>>
        /\ call["login"].to = "none" /\ call["sync"].to = "none"
    BY <2>2 DEF Quiet, Settled, Free
  <2>4. ~ LoggingIn
    BY <2>3 DEF LoggingIn
  <2>5. ASSUME ~ connected, Without({"lost"})
        PROVE  Live(jar) = Null
    <3>1. SUFFICES ASSUME jar # Null, session[jar] = "stored"
                   PROVE  FALSE
      BY DEF Live, Stored
    <3>2. jar \in Sessions /\ Without({"load", "overlap", "lost"})
      BY <2>1, <2>2, <2>5, <3>1 DEF TypeOK, Cookies, Without
    <3>3. \/ walletData = <<FALSE>> /\ was /\ Free("sync")
          \/ call["sync"] = Request("logout", jar)
      BY <2>1, <2>5, <3>1, <3>2 DEF StoredInv
    <3> QED
      BY <2>3, <3>3, TakenOne DEF Request
  <2>6. ASSUME connected, Without({"expired"})
        PROVE  Live(jar) # Null
    <3>1. Without({"overlap"}) /\ Without({"load", "expired"})
      BY <2>2, <2>6 DEF Without
    <3> QED
      BY <2>1, <2>4, <2>6, <3>1 DEF ConnectedInv
  <2> QED
    BY <2>5, <2>6
<1> QED
  BY <1>1, SessionInvariance, PTL

\* No session is left on the server that the browser no longer names.
THEOREM OrphanSafety == Spec => []NoOrphans
<1>1. ASSUME SessionInv
      PROVE  NoOrphans
  <2>1. StoredInv
    BY <1>1 DEF SessionInv
  <2>2. ASSUME Quiet
        PROVE  ~ LoggingIn
    BY <2>2 DEF Quiet, Settled, Free, LoggingIn
  <2> QED
    BY <2>1, <2>2 DEF NoOrphans, StoredInv
<1> QED
  BY <1>1, SessionInvariance, PTL
=============================================================================
