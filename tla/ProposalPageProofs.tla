------------------------- MODULE ProposalPageProofs -------------------------
(***************************************************************************)
(* What the page of a proposal shows, and what it has signed, for any      *)
(* number of members, any threshold and any proposal: while others work on *)
(* the same proposal, requests and answers being lost, and whatever the    *)
(* times, zones and lengths of an epoch are.                               *)
(***************************************************************************)
EXTENDS ProposalPage, FiniteSetTheorems, TLAPS

USE PageAssumption, HeaderAssumption

-----------------------------------------------------------------------------
(* The header: arithmetic of the two windows *)

\* Division rounds down.
LEMMA DivBounds ==
  ASSUME NEW a \in Int, NEW b \in Nat \ {0}
  PROVE  /\ a \div b \in Int
         /\ b * (a \div b) <= a /\ a < b * (a \div b) + b
OBVIOUS

\* A common positive factor can be left out.
LEMMA CancelFactor ==
  ASSUME NEW b \in Nat \ {0}, NEW m \in Int, NEW n \in Int, b * m < b * n
  PROVE  m < n
OBVIOUS

\* CeilDiv rounds up.
LEMMA CeilBounds ==
  ASSUME NEW a \in Int, NEW b \in Nat \ {0}
  PROVE  CeilDiv(a, b) \in Int /\ a <= b * CeilDiv(a, b)
<1> DEFINE m == (- a) \div b
<1>1. - a \in Int
  OBVIOUS
<1>2. m \in Int /\ b * m <= - a
  BY <1>1, DivBounds
<1> HIDE DEF m
<1>3. - m \in Int /\ b * (- m) = - (b * m)
  BY <1>2
<1> QED
  BY <1>2, <1>3 DEF CeilDiv, m

\* Fewer epochs begin before a deadline than would fill the time up to it.
LEMMA EpochsNeeded ==
  ASSUME NEW d \in Nat, NEW length \in Int, d < length
  PROVE  (d \div EpochSeconds) < CeilDiv(length, EpochSeconds)
<1>1. /\ d \div EpochSeconds \in Int
      /\ EpochSeconds * (d \div EpochSeconds) <= d
  BY DivBounds
<1>2. /\ CeilDiv(length, EpochSeconds) \in Int
      /\ length <= EpochSeconds * CeilDiv(length, EpochSeconds)
  BY CeilBounds
<1>3. EpochSeconds * (d \div EpochSeconds) < EpochSeconds * CeilDiv(length, EpochSeconds)
  BY <1>1, <1>2
<1> QED
  BY <1>1, <1>2, <1>3, CancelFactor

\* The window of epochs is at least twice the epochs needed.
LEMMA WindowLength ==
  ASSUME NEW epoch \in Int, NEW length \in Int
  PROVE  /\ EpochMax(epoch, length) \in Int
         /\ epoch + 2 * CeilDiv(length, EpochSeconds) <= EpochMax(epoch, length)
<1>1. PICK c \in Int : c = CeilDiv(length, EpochSeconds)
  BY CeilBounds
<1>2. EpochMax(epoch, length) = epoch + (IF 2 * c > MinEpochs THEN 2 * c ELSE MinEpochs)
  BY <1>1 DEF EpochMax
<1> QED
  BY <1>1, <1>2

\* Times of a proposal, in seconds, are whole numbers.
LEMMA HeaderTypes ==
  ASSUME NEW r \in Rows
  PROVE  /\ Seconds(r.createdAt) \in Int /\ r.epochMin \in Int
         /\ StoredHeader(r).until \in Int
         /\ r.epochMax = EpochMax(r.epochMin, StoredHeader(r).until - Seconds(r.createdAt))
<1>1. /\ r.createdAt \in Int /\ r.epochMin \in Int /\ r.maxProposerTimestamp.ms \in Int
      /\ r = Columns(r.createdAt, r.maxProposerTimestamp, r.epochMin)
  BY RowsAssumption
<1>2. Parse(r.maxProposerTimestamp, ServerZone) \in Int
  BY <1>1 DEF Parse
<1>3. /\ Seconds(r.createdAt) \in Int
      /\ Seconds(Parse(r.maxProposerTimestamp, ServerZone)) \in Int
  BY <1>1, <1>2, DivBounds DEF Seconds
<1>4. StoredHeader(r).until = Seconds(Parse(r.maxProposerTimestamp, ServerZone))
  BY DEF StoredHeader
<1>5. r.epochMax = EpochMax(r.epochMin, Seconds(Parse(r.maxProposerTimestamp, ServerZone))
                                          - Seconds(r.createdAt))
  BY <1>1 DEF Columns
<1> QED
  BY <1>1, <1>3, <1>4, <1>5

\* The stored window of epochs holds every epoch the ledger may reach before
\* the deadline.
LEMMA RowOutlasts ==
  ASSUME NEW r \in Rows, NEW s \in Seconds(r.createdAt) .. (StoredHeader(r).until - 1)
  PROVE  LatestEpoch(r, s) < r.epochMax
<1> DEFINE from == Seconds(r.createdAt)
           until == StoredHeader(r).until
           passed == (s - from) \div EpochSeconds
           needed == CeilDiv(until - from, EpochSeconds)
<1>1. from \in Int /\ until \in Int /\ r.epochMin \in Int
      /\ r.epochMax = EpochMax(r.epochMin, until - from)
  BY HeaderTypes
<1>2. s \in from .. (until - 1)
  OBVIOUS
<1> HIDE DEF from, until
<1>3. s - from \in Nat /\ until - from \in Int /\ s - from < until - from
  BY <1>1, <1>2
<1>4. passed < needed /\ passed \in Int /\ needed \in Int /\ 0 <= passed
  <2>1. passed \in Int /\ needed \in Int /\ passed < needed
    <3>1. passed \in Int
      BY <1>3, DivBounds
    <3>2. needed \in Int
      BY <1>3, CeilBounds
    <3>3. passed < needed
      BY <1>3, EpochsNeeded
    <3> QED
      BY <3>1, <3>2, <3>3
  <2>2. s - from < EpochSeconds * passed + EpochSeconds
    BY <1>3, DivBounds
  <2> HIDE DEF passed, needed
  <2>3. EpochSeconds * (- 1) < EpochSeconds * passed
    BY <1>3, <2>1, <2>2
  <2>4. - 1 < passed
    BY <2>1, <2>3, CancelFactor
  <2> QED
    BY <2>1, <2>4
<1>5. r.epochMin + 2 * needed <= r.epochMax /\ r.epochMax \in Int
  BY <1>1, <1>3, WindowLength
<1> HIDE DEF passed, needed
<1>6. r.epochMin + 1 + passed < r.epochMax
  BY <1>1, <1>4, <1>5
<1> QED
  BY <1>6 DEF LatestEpoch, passed, from

\* The browser rebuilds the stored header when the server runs in UTC, or the
\* deadline names its zone.
LEMMA HeadersAgree ==
  ASSUME ServerZone = 0 \/ \A r \in Rows : r.maxProposerTimestamp.zone = "Z",
         NEW r \in Rows
  PROVE  WalletHeader(r) = StoredHeader(r)
<1> DEFINE text == r.maxProposerTimestamp
<1>1. text.ms \in Int
  BY RowsAssumption
<1>2. r = Columns(r.createdAt, text, r.epochMin)
  BY RowsAssumption
<1>3. Parse(text, ServerZone) = text.ms
  BY <1>1 DEF Parse
<1>4. Parse(InUTC(text), ClientZone) = text.ms
  BY DEF InUTC, Parse
<1> QED
  BY <1>3, <1>4 DEF WalletHeader, StoredHeader

-----------------------------------------------------------------------------
(* The server *)

ServerTypeOK ==
  /\ row \in Rows /\ status \in Statuses /\ signed \subseteq Members /\ late \in BOOLEAN
  /\ verdict \in {"open", "executed", "refused"}

\* What the server does to a proposal keeps its columns and its signatures.
ServerKept == ServerTypeOK' /\ ServerInv' /\ row' = row /\ signed \subseteq signed'

\* A status stays backed when signatures are added.
LEMMA MoreBacks ==
  ASSUME NEW S, NEW T, S \subseteq T, IsFiniteSet(T), NEW s, BackedBy(s, S)
  PROVE  BackedBy(s, T)
<1>1. /\ Cardinality(S) \in Nat /\ Cardinality(T) \in Nat
      /\ Cardinality(S) <= Cardinality(T)
  BY FS_Subset, FS_CardinalityType
<1>2. Required \in Int
  OBVIOUS
<1> QED
  BY <1>1, <1>2 DEF BackedBy

\* Whoever is served, and whatever the answer.
LEMMA ServeKeeps ==
  ASSUME ServerTypeOK, ServerInv, NEW c \in Cards, NEW m \in Members, NEW ok, Serve(c, m, ok)
  PROVE  ServerKept
<1>0. UNCHANGED <<row, late, verdict>>
  BY DEF Serve
<1>1. ASSUME UNCHANGED <<status, signed>> PROVE ServerKept
  BY <1>0, <1>1 DEF ServerKept, ServerTypeOK, ServerInv, BackedBy
<1>2. ASSUME NEW s \in Statuses, status' = s, UNCHANGED signed,
             BackedBy(s, signed)
      PROVE  ServerKept
  BY <1>0, <1>2 DEF ServerKept, ServerTypeOK, ServerInv, BackedBy
<1>3. Expires(ok) => ServerKept
  BY <1>2 DEF Expires, BackedBy, Statuses, TERMINAL_STATUSES
<1>4. CASE c = "sign"
  <2>1. ServeSign(m, ok)
    BY <1>4 DEF Serve
  <2>2. ASSUME signed' = signed \cup {m},
               status' = IF Cardinality(signed') >= Required THEN "ready" ELSE "signing"
        PROVE  ServerKept
    <3>1. IsFiniteSet(signed')
      BY <2>2, FS_AddElement DEF ServerInv
    <3>2. status' \in Statuses /\ BackedBy(status', signed')
      BY <2>2 DEF Statuses, SIGNABLE_STATUSES, BackedBy
    <3> QED
      BY <1>0, <2>2, <3>1, <3>2 DEF ServerKept, ServerTypeOK, ServerInv, BackedBy
  <2> QED
    BY <1>1, <1>3, <2>1, <2>2 DEF ServeSign, Refused
<1>5. CASE c = "submit"
  <2>1. ServeSubmit(ok)
    BY <1>5 DEF Serve
  <2>2. ASSUME status = "ready", NEW s \in {"submitted", "invalid", "ready"}
        PROVE  s \in Statuses /\ BackedBy(s, signed)
    BY <2>2 DEF ServerInv, BackedBy, Statuses, TERMINAL_STATUSES
  <2> QED
    BY <1>1, <1>2, <1>3, <2>1, <2>2 DEF ServeSubmit, Refused
<1>6. CASE c = "check"
  <2>1. ServeCheck(ok)
    BY <1>6 DEF Serve
  <2>2. ASSUME status = "submitted", NEW s \in {"submitted", Reported(verdict)}
        PROVE  s \in Statuses /\ BackedBy(s, signed)
    BY <2>2 DEF ServerInv, BackedBy, Statuses, TERMINAL_STATUSES, Reported
  <2> QED
    BY <1>1, <1>2, <2>1, <2>2 DEF ServeCheck, Refused
<1> QED
  BY <1>4, <1>5, <1>6 DEF Cards

\* Other members, the sweep, time and the ledger.
LEMMA OthersKeep ==
  ASSUME ServerTypeOK, ServerInv, Others
  PROVE  ServerKept /\ UNCHANGED <<page, job, stray, loose>>
<1>0. UNCHANGED <<page, job, stray, loose>>
  BY DEF Others
<1>1. ASSUME NEW c \in Cards, NEW m \in Members \ {Me}, NEW ok \in BOOLEAN, Serve(c, m, ok)
      PROVE  ServerKept
  BY <1>1, ServeKeeps
<1>2. ASSUME status' = "expired", UNCHANGED <<row, signed, late, verdict>> PROVE ServerKept
  BY <1>2 DEF ServerKept, ServerTypeOK, ServerInv, BackedBy, Statuses, TERMINAL_STATUSES
<1>3. ASSUME late' = TRUE, UNCHANGED <<row, status, signed, verdict>> PROVE ServerKept
  BY <1>3 DEF ServerKept, ServerTypeOK, ServerInv, BackedBy
<1>4. ASSUME verdict' \in {"executed", "refused"}, UNCHANGED <<row, status, signed, late>>
      PROVE  ServerKept
  BY <1>4 DEF ServerKept, ServerTypeOK, ServerInv, BackedBy
<1> QED
  BY <1>0, <1>1, <1>2, <1>3, <1>4 DEF Others

-----------------------------------------------------------------------------
(* The page *)

PageTypeOK ==
  /\ fetch \in FetchType
  /\ view \in ViewType \cup {Blank}
  /\ busy \subseteq Cards /\ awaited \subseteq Cards
  /\ job \in [Cards -> JobType]
  /\ stray \subseteq Cards /\ loose \subseteq Cards
  /\ busy \subseteq awaited

LEMMA TypeParts == TypeOK <=> ServerTypeOK /\ PageTypeOK
BY DEF TypeOK, ServerTypeOK, PageTypeOK

\* What has been fetched or shown is not touched by more signatures.
LEMMA FetchStays ==
  ASSUME PageInv, ServerKept, UNCHANGED <<fetch, view>>
  PROVE  FetchInv' /\ ShownIsBacked'
<1>1. fetch.state = "second" => BackedBy(fetch.got.status, signed')
  BY MoreBacks DEF PageInv, FetchInv, ServerKept, ServerInv
<1> QED
  BY <1>1 DEF PageInv, FetchInv, ShownIsBacked, BackedBy, ViewType

\* While the cards are off the screen the refresh forgets that they were busy,
\* and the history that they were in action.
LEMMA RefreshKeeps ==
  ASSUME PageTypeOK, Refresh, job' \in [Cards -> JobType], stray' \subseteq Cards,
         awaited' \subseteq Cards
  PROVE  /\ fetch' \in FetchType /\ busy' \subseteq awaited' /\ loose' \subseteq Cards
         /\ FetchInv'
         /\ \A c \in Cards : CardInv(c)'
<1>1. fetch' = Begun /\ busy' = {} /\ loose' = {c \in loose \cup Cards : InAction(c)'}
  BY DEF Refresh
<1>2. fetch' \in FetchType
  BY <1>1 DEF Begun, FetchType
<1>3. FetchInv'
  BY <1>1 DEF Begun, FetchInv
<1>4. ASSUME NEW c \in Cards PROVE CardInv(c)'
  <2>1. InAction(c)' => c \in loose'
    BY <1>1
  <2> QED
    BY <2>1 DEF CardInv, InAction
<1>5. loose' \subseteq Cards
  BY <1>1 DEF PageTypeOK
<1> QED
  BY <1>1, <1>2, <1>3, <1>4, <1>5

\* Every step keeps the invariant.
LEMMA PageStep == PageInv /\ [Next]_vars => PageInv'
<1> SUFFICES ASSUME PageInv, [Next]_vars PROVE PageInv'
  OBVIOUS
<1> USE DEF server, page
<1>0. ServerTypeOK /\ PageTypeOK /\ ServerInv /\ FetchInv /\ ShownIsBacked
  BY TypeParts DEF PageInv
<1>s. UNCHANGED server => ServerKept
  BY <1>0 DEF ServerKept, ServerTypeOK, ServerInv, BackedBy
<1>c. ASSUME NEW c \in Cards, UNCHANGED <<busy, job, stray, loose>> PROVE CardInv(c)'
  BY <1>c DEF PageInv, CardInv, Running
\* The parts make up the invariant.
<1>p. ASSUME ServerTypeOK', PageTypeOK', ServerInv', FetchInv', ShownIsBacked',
             \A c \in Cards : CardInv(c)'
      PROVE  PageInv'
  <2>1. TypeOK'
    BY <1>p DEF TypeOK, ServerTypeOK, PageTypeOK
  <2> QED
    BY <1>p, <2>1 DEF PageInv
\* Steps that leave the fetch and the view alone.
<1>k. ASSUME ServerKept, UNCHANGED <<fetch, view>>, PageTypeOK', \A c \in Cards : CardInv(c)'
      PROVE  PageInv'
  BY <1>k, <1>p, FetchStays DEF ServerKept
\* Steps of the fetch.
<1>f. ASSUME UNCHANGED <<server, busy, awaited, job, stray, loose>>,
             fetch' \in FetchType, view' \in ViewType \cup {Blank}, FetchInv', ShownIsBacked'
      PROVE  PageInv'
  <2>1. PageTypeOK'
    BY <1>0, <1>f DEF PageTypeOK
  <2>2. ServerTypeOK' /\ ServerInv'
    BY <1>f, <1>s DEF ServerKept
  <2>3. \A c \in Cards : CardInv(c)'
    BY <1>c, <1>f
  <2> QED
    BY <1>f, <1>p, <2>1, <2>2, <2>3
\* A job that starts or ends.
<1>j. ASSUME NEW c \in Cards, NEW state \in {"none", "wallet", "sent", "answered"},
             NEW ok \in BOOLEAN
      PROVE  /\ [state |-> state, ok |-> ok] \in JobType
             /\ [job EXCEPT ![c] = [state |-> state, ok |-> ok]] \in [Cards -> JobType]
  BY <1>0 DEF JobType, PageTypeOK
<1>1. CASE Others
  <2>1. ServerKept /\ UNCHANGED <<page, job, stray, loose>>
    BY <1>0, <1>1, OthersKeep
  <2>2. PageTypeOK'
    BY <1>0, <2>1 DEF PageTypeOK
  <2> QED
    BY <1>c, <1>k, <2>1, <2>2
<1>2. CASE PressRefresh
  <2>1. Refresh /\ UNCHANGED <<server, view, awaited, job, stray>>
    BY <1>2 DEF PressRefresh
  <2>2. /\ fetch' \in FetchType /\ busy' \subseteq awaited' /\ loose' \subseteq Cards
        /\ FetchInv'
        /\ \A c \in Cards : CardInv(c)'
    BY <1>0, <2>1, RefreshKeeps DEF PageTypeOK
  <2>3. PageTypeOK' /\ ShownIsBacked'
    BY <1>0, <2>1, <2>2 DEF PageTypeOK, ShownIsBacked
  <2> QED
    BY <1>p, <1>s, <2>1, <2>2, <2>3 DEF ServerKept
<1>3. CASE ReadFirst
  <2>1. fetch' = [state |-> "second", got |-> [fetch.got EXCEPT !.status = status]]
        /\ UNCHANGED <<server, view, busy, awaited, job, stray, loose>>
    BY <1>3 DEF ReadFirst, FetchGoes, Read, ReadOrder
  <2>2. [fetch.got EXCEPT !.status = status] \in ViewType
        /\ [fetch.got EXCEPT !.status = status].status = status
    BY <1>0 DEF PageTypeOK, ServerTypeOK, FetchType, ViewType, Blank
  <2>3. fetch' \in FetchType
    BY <2>1, <2>2 DEF FetchType
  <2>4. FetchInv' /\ ShownIsBacked'
    BY <1>0, <2>1, <2>2 DEF FetchInv, ShownIsBacked, ServerInv, BackedBy
  <2> QED
    BY <1>0, <1>f, <2>1, <2>3, <2>4 DEF PageTypeOK
<1>4. CASE ReadSecond
  <2>1. fetch' = [state |-> "answered", got |-> [fetch.got EXCEPT !.signed = signed]]
        /\ UNCHANGED <<server, view, busy, awaited, job, stray, loose>>
    BY <1>4 DEF ReadSecond, FetchGoes, Read, ReadOrder
  <2>2. fetch.got \in ViewType /\ BackedBy(fetch.got.status, signed)
    BY <1>0, <1>4 DEF ReadSecond, FetchInv
  <2>3. /\ [fetch.got EXCEPT !.signed = signed] \in ViewType
        /\ [fetch.got EXCEPT !.signed = signed].status = fetch.got.status
        /\ [fetch.got EXCEPT !.signed = signed].signed = signed
    BY <1>0, <2>2 DEF ServerTypeOK, ViewType
  <2>4. fetch' \in FetchType
    BY <2>1, <2>3 DEF FetchType
  <2>5. FetchInv' /\ ShownIsBacked'
    BY <1>0, <2>1, <2>2, <2>3 DEF FetchInv, ShownIsBacked, BackedBy
  <2> QED
    BY <1>0, <1>f, <2>1, <2>4, <2>5 DEF PageTypeOK
<1>5. ASSUME NEW v \in ViewType \cup {Blank}, Show(v), BackedBy(v.status, v.signed)
      PROVE  PageInv'
  <2>1. fetch' = [state |-> "done", got |-> Blank] /\ view' = v
        /\ UNCHANGED <<server, busy, awaited, job, stray, loose>>
    BY <1>5 DEF Show
  <2>2. fetch' \in FetchType
    BY <2>1 DEF FetchType
  <2>3. FetchInv' /\ ShownIsBacked'
    BY <1>5, <2>1 DEF FetchInv, ShownIsBacked, BackedBy
  <2> QED
    BY <1>f, <2>1, <2>2, <2>3
<1>6. CASE FetchAnswered \/ FetchFails
  <2>1. BackedBy(Blank.status, Blank.signed)
    BY DEF Blank, BackedBy
  <2> QED
    BY <1>0, <1>5, <1>6, <2>1 DEF FetchAnswered, FetchFails, FetchInv
<1>7. CASE PressSign \/ PressSubmit \/ PressCheck
  <2>1. PICK c \in Cards, state \in {"wallet", "sent"} : Press(c, state)
    BY <1>7 DEF PressSign, PressSubmit, PressCheck, Cards
  <2>2. /\ c \notin busy /\ busy' = busy \cup {c} /\ awaited' = awaited \cup {c}
        /\ job' = [job EXCEPT ![c] = [state |-> state, ok |-> FALSE]]
        /\ stray' = IF job[c].state = "sent" THEN stray \cup {c} ELSE stray
        /\ UNCHANGED <<server, fetch, view, loose>>
    BY <2>1 DEF Press, Enabled
  <2>3. PageTypeOK'
    BY <1>0, <1>j, <2>2 DEF PageTypeOK
  <2>4. ASSUME NEW d \in Cards PROVE CardInv(d)'
    <3>1. CASE d = c
      BY <2>2, <3>1 DEF PageInv, CardInv, Running
    <3>2. CASE d # c
      BY <1>0, <2>2, <3>2 DEF PageInv, PageTypeOK, CardInv, Running
    <3> QED
      BY <3>1, <3>2
  <2> QED
    BY <1>k, <1>s, <2>2, <2>3, <2>4
<1>8. CASE WalletAnswers
  <2>1. PICK state \in {"sent", "answered"} : JobGoes("sign", state, FALSE)
    BY <1>8 DEF WalletAnswers
  <2>2. UNCHANGED <<server, page, stray, loose>> /\ job["sign"].state = "wallet"
    BY <1>8 DEF WalletAnswers
  <2>3. PageTypeOK'
    BY <1>0, <1>j, <2>1, <2>2 DEF PageTypeOK, JobGoes, Cards
  <2>4. ASSUME NEW d \in Cards PROVE CardInv(d)'
    BY <1>0, <2>1, <2>2 DEF PageInv, PageTypeOK, JobGoes, CardInv, Running, Cards
  <2> QED
    BY <1>k, <1>s, <2>2, <2>3, <2>4
<1>9. ASSUME NEW c \in Cards, Served(c) PROVE PageInv'
  <2>1. PICK ok \in BOOLEAN : Serve(c, Me, ok) /\ JobGoes(c, "answered", ok)
    BY <1>9 DEF Served
  <2>2. UNCHANGED <<page, stray, loose>> /\ job[c].state = "sent"
    BY <1>9 DEF Served
  <2>3. ServerKept
    BY <1>0, <2>1, ServeKeeps
  <2>4. PageTypeOK'
    BY <1>0, <1>j, <2>1, <2>2 DEF PageTypeOK, JobGoes
  <2>5. ASSUME NEW d \in Cards PROVE CardInv(d)'
    BY <1>0, <2>1, <2>2 DEF PageInv, PageTypeOK, JobGoes, CardInv, Running
  <2> QED
    BY <1>k, <2>2, <2>3, <2>4, <2>5
<1>10. ASSUME NEW c \in Cards, StrayServed(c) PROVE PageInv'
  <2>1. /\ stray' = stray \ {c} /\ UNCHANGED <<page, job>>
        /\ loose' = IF Running(c) THEN loose ELSE loose \ {c}
    BY <1>10 DEF StrayServed
  <2>2. ServerKept
    BY <1>0, <1>10, <1>s, ServeKeeps DEF StrayServed
  <2>3. PageTypeOK'
    BY <1>0, <2>1 DEF PageTypeOK
  <2>4. ASSUME NEW d \in Cards PROVE CardInv(d)'
    BY <2>1 DEF PageInv, CardInv, Running
  <2> QED
    BY <1>k, <2>1, <2>2, <2>3, <2>4
<1>11. ASSUME NEW c \in Cards, Lost(c) PROVE PageInv'
  <2>1. /\ stray' = stray \cup {c} /\ loose' = loose \cup {c}
        /\ JobGoes(c, "answered", FALSE) /\ job[c].state = "sent"
        /\ UNCHANGED <<server, page>>
    BY <1>11 DEF Lost
  <2>2. PageTypeOK'
    BY <1>0, <1>j, <2>1 DEF PageTypeOK, JobGoes
  <2>3. ASSUME NEW d \in Cards PROVE CardInv(d)'
    BY <1>0, <2>1 DEF PageInv, PageTypeOK, JobGoes, CardInv, Running
  <2> QED
    BY <1>k, <1>s, <2>1, <2>2, <2>3
<1>12. ASSUME NEW c \in Cards, Resume(c) PROVE PageInv'
  <2>1. /\ job' = [job EXCEPT ![c] = NoJob] /\ awaited' = awaited \ {c}
        /\ UNCHANGED <<server, view, stray>>
    BY <1>12 DEF Resume
  <2>2. job' \in [Cards -> JobType] /\ awaited' \subseteq Cards /\ stray' \subseteq Cards
    BY <1>0, <1>j, <2>1 DEF PageTypeOK, NoJob
  <2>3. CASE Refresh
    <3>1. /\ fetch' \in FetchType /\ busy' \subseteq awaited' /\ loose' \subseteq Cards
          /\ FetchInv'
          /\ \A d \in Cards : CardInv(d)'
      BY <1>0, <2>2, <2>3, RefreshKeeps
    <3>2. PageTypeOK' /\ ShownIsBacked'
      BY <1>0, <2>1, <2>2, <3>1 DEF PageTypeOK, ShownIsBacked
    <3> QED
      BY <1>p, <1>s, <2>1, <3>1, <3>2 DEF ServerKept
  <2>4. CASE /\ busy' = busy \ {c} /\ loose' = {d \in loose : InAction(d)'}
             /\ UNCHANGED fetch
    <3>1. PageTypeOK'
      BY <1>0, <2>1, <2>2, <2>4 DEF PageTypeOK
    <3>2. ASSUME NEW d \in Cards PROVE CardInv(d)'
      <4>1. d \in loose /\ InAction(d)' => d \in loose'
        BY <2>4
      <4>2. CASE d = c
        <5>1. ~ Running(d)'
          BY <1>0, <2>1, <4>2 DEF PageTypeOK, Running, NoJob
        <5> QED
          BY <2>1, <4>1, <5>1 DEF PageInv, CardInv, InAction
      <4>3. CASE d # c
        <5>1. (Running(d)' <=> Running(d)) /\ (d \in busy' <=> d \in busy)
          BY <1>0, <2>1, <2>4, <4>3 DEF PageTypeOK, Running
        <5> QED
          BY <2>1, <4>1, <5>1 DEF PageInv, CardInv, InAction
      <4> QED
        BY <4>2, <4>3
    <3> QED
      BY <1>k, <1>s, <2>1, <2>4, <3>1, <3>2
  <2> QED
    BY <1>12, <2>3, <2>4 DEF Resume, AfterSuccess, BusyAfter
<1>13. CASE UNCHANGED vars
  <2>1. PageTypeOK'
    BY <1>0, <1>13 DEF vars, PageTypeOK
  <2> QED
    BY <1>c, <1>k, <1>s, <1>13, <2>1 DEF vars
<1> QED
  BY <1>1, <1>2, <1>3, <1>4, <1>6, <1>7, <1>8, <1>9, <1>10, <1>11, <1>12, <1>13
  DEF Next, FetchStep

-----------------------------------------------------------------------------
(* The theorems *)

\* A new proposal, of which the page is fetching the detail.
LEMMA PageInit == Init => PageInv
<1> SUFFICES ASSUME Init PROVE PageInv
  OBVIOUS
<1> USE DEF Init
<1>1. ServerTypeOK
  BY DEF ServerTypeOK, Statuses, SIGNABLE_STATUSES
<1>2. PageTypeOK
  BY DEF PageTypeOK, Begun, FetchType, NoJob, JobType
<1>3. ServerInv
  BY FS_EmptySet DEF ServerInv, BackedBy
<1>4. FetchInv /\ ShownIsBacked
  BY DEF FetchInv, ShownIsBacked, Begun, Blank
<1>5. \A c \in Cards : CardInv(c)
  BY DEF CardInv, Running, NoJob
<1> QED
  BY <1>1, <1>2, <1>3, <1>4, <1>5, TypeParts DEF PageInv

\* PageInv holds in every state, whatever the order in which requests of the
\* page, other members, the ledger and lost answers come.
THEOREM PageInvariance == Spec => []PageInv
BY PageInit, PageStep, PTL DEF Spec

\* What the page claims is backed by the signatures it shows.
THEOREM ShownSafety == Spec => []ShownIsBacked
<1>1. PageInv => ShownIsBacked
  BY DEF PageInv
<1> QED
  BY <1>1, PageInvariance, PTL

\* Two requests of one card are under way only after a refresh or a lost answer.
THEOREM OneRequestSafety == Spec => []OneRequestAtATime
<1>1. PageInv => OneRequestAtATime
  BY DEF PageInv, CardInv, OneRequestAtATime
<1> QED
  BY <1>1, PageInvariance, PTL

\* The ledger takes the subintent up to the second before its deadline, for all
\* deadlines and epochs.
THEOREM WindowSafety == Spec => []WindowOutlasts
<1>1. PageInv => WindowOutlasts
  BY RowOutlasts DEF PageInv, TypeOK, WindowOutlasts
<1> QED
  BY <1>1, PageInvariance, PTL

\* The wallet signs what the server stored, if the server's clock is in UTC or
\* every deadline names its zone.
THEOREM SignedSafety ==
  ASSUME ServerZone = 0 \/ \A r \in Rows : r.maxProposerTimestamp.zone = "Z"
  PROVE  Spec => []SignedIsStored
<1>1. PageInv => SignedIsStored
  BY HeadersAgree DEF PageInv, TypeOK, SignedIsStored
<1> QED
  BY <1>1, PageInvariance, PTL
=============================================================================
