---------------------------- MODULE ProposalPage ----------------------------
(***************************************************************************)
(* The page of one proposal in one member's browser (routes/teams/.../     *)
(* proposals/$proposalId.tsx for vaults and for the team, atom/            *)
(* proposals.ts, atom/teamProposals.ts), while other members work on the   *)
(* same proposal.                                                          *)
(*                                                                         *)
(* The page shows what a fetch has brought and never refetches by itself:  *)
(* only after an action of its own that succeeded, or when asked to.       *)
(* While it refetches, its cards are taken off the screen, and when they   *)
(* are back they have forgotten that they were busy.  The action goes on;  *)
(* pressing its button again drops the answer to the first request, not    *)
(* what the server does about it.                                          *)
(*                                                                         *)
(* The server answers each request in one step, as the glossary says;      *)
(* VaultProposals is about what its overlapping requests do.  getDetail    *)
(* alone is two reads, since it makes up what is shown.                    *)
(***************************************************************************)
EXTENDS Subintents, FiniteSets, Sequences

CONSTANTS
  Members,   \* accounts that may sign
  Me,        \* the one whose browser this is
  Required,  \* the threshold sign finds; submit may find it has drifted
  Rows,      \* columns a proposal may have been created with
  Faults     \* whether requests and answers may be lost

ASSUME PageAssumption ==
  /\ Me \in Members /\ Required \in 1..Cardinality(Members) /\ Faults \in BOOLEAN

\* create stores the columns it computed from the deadline and the latest epoch.
ASSUME RowsAssumption ==
  \A r \in Rows :
    /\ r.createdAt \in Int /\ r.epochMin \in Int /\ r.maxProposerTimestamp.ms \in Int
    /\ r = Columns(r.createdAt, r.maxProposerTimestamp, r.epochMin)

VARIABLES
  row,       \* the columns set by create
  status,    \* the proposal's status in the table
  signed,    \* members whose signature is in the table
  late,      \* whether the deadline has passed
  verdict,   \* the ledger's on the submitted transaction
  fetch,     \* the fetch of the detail
  view,      \* what the last fetch has brought
  busy,      \* cards whose button is disabled while their action runs
  awaited,   \* cards one of whose handlers waits for the outcome
  job,       \* [Cards -> JobType], the runs of the action atoms
  stray,     \* cards with a request the page has given up, still on its way
  loose      \* history: cards remounted, or left without an answer, in mid-action

server == <<row, status, signed, late, verdict>>
page == <<fetch, view, busy, awaited>>
vars == <<server, page, job, stray, loose>>

Cards == {"sign", "submit", "check"}

SIGNABLE_STATUSES == {"created", "signing"}
TERMINAL_STATUSES == {"committed", "failed", "expired", "invalid"}
Statuses == SIGNABLE_STATUSES \cup {"ready", "submitted"} \cup TERMINAL_STATUSES

ViewType == [status : Statuses, signed : SUBSET Members]

\* The page has shown nothing yet, or the fetch has failed.
Blank == [status |-> "none", signed |-> {}]

JobType == [state : {"none", "wallet", "sent", "answered"}, ok : BOOLEAN]

NoJob == [state |-> "none", ok |-> FALSE]

FetchType == [state : {"done", "first", "second", "answered"},
              got : ViewType \cup {Blank}]

Begun == [state |-> "first", got |-> Blank]

TypeOK ==
  /\ row \in Rows
  /\ status \in Statuses /\ signed \subseteq Members /\ late \in BOOLEAN
  /\ verdict \in {"open", "executed", "refused"}
  /\ fetch \in FetchType
  /\ view \in ViewType \cup {Blank}
  /\ busy \subseteq Cards /\ awaited \subseteq Cards
  /\ job \in [Cards -> JobType]
  /\ stray \subseteq Cards /\ loose \subseteq Cards
  /\ busy \subseteq awaited

Init ==
  /\ row \in Rows
  /\ status = "created" /\ signed = {} /\ verdict = "open"
  /\ late = (StoredHeader(row).until <= StoredHeader(row).from)
  /\ fetch = Begun /\ view = Blank
  /\ busy = {} /\ awaited = {}
  /\ job = [c \in Cards |-> NoJob]
  /\ stray = {} /\ loose = {}

-----------------------------------------------------------------------------
(* The server, one request at a time. *)

Refused(ok) == ~ ok /\ UNCHANGED <<status, signed>>

Expires(ok) == ~ ok /\ status' = "expired" /\ UNCHANGED signed

\* sign: the hash must be that of the stored subintent.
ServeSign(m, ok) ==
  \/ /\ \/ status \notin SIGNABLE_STATUSES
        \/ ~ late /\ (m \in signed \/ WalletHeader(row) # StoredHeader(row))
     /\ Refused(ok)
  \/ status \in SIGNABLE_STATUSES /\ late /\ Expires(ok)
  \/ /\ status \in SIGNABLE_STATUSES /\ ~ late /\ m \notin signed
     /\ WalletHeader(row) = StoredHeader(row)
     /\ signed' = signed \cup {m}
     /\ status' = IF Cardinality(signed') >= Required THEN "ready" ELSE "signing"
     /\ ok

\* submit: the Gateway may refuse, the rule may have drifted.
ServeSubmit(ok) ==
  \/ status \in {"submitted", "committed"} /\ ok /\ UNCHANGED <<status, signed>>
  \/ status \notin {"ready", "submitted", "committed"} /\ Refused(ok)
  \/ status = "ready" /\ late /\ Expires(ok)
  \/ /\ status = "ready" /\ ~ late
     /\ \/ status' = "submitted" /\ ok
        \/ status' = "invalid" /\ ~ ok
        \/ status' = "ready" /\ ~ ok
     /\ UNCHANGED signed

Reported(v) == CASE v = "executed" -> "committed" [] v = "refused" -> "failed"
                 [] OTHER -> "submitted"

\* refreshStatus: the Gateway may not know yet, or not answer.
ServeCheck(ok) ==
  \/ status \in {"committed", "failed"} /\ ok /\ UNCHANGED <<status, signed>>
  \/ status \notin {"committed", "failed"} /\ Refused(ok)
  \/ /\ status = "submitted"
     /\ status' \in {"submitted", Reported(verdict)}
     /\ ok
     /\ UNCHANGED signed

Serve(c, m, ok) ==
  /\ CASE c = "sign" -> ServeSign(m, ok)
       [] c = "submit" -> ServeSubmit(ok)
       [] c = "check" -> ServeCheck(ok)
  /\ UNCHANGED <<row, late, verdict>>

\* Another member, in whatever page of theirs; the sweep; time; the ledger.
Others ==
  /\ \/ \E c \in Cards, m \in Members \ {Me}, ok \in BOOLEAN : Serve(c, m, ok)
     \/ /\ late /\ status \in SIGNABLE_STATUSES \cup {"ready"}
        /\ status' = "expired"
        /\ UNCHANGED <<row, signed, late, verdict>>
     \/ ~ late /\ late' = TRUE /\ UNCHANGED <<row, status, signed, verdict>>
     \/ /\ status = "submitted" /\ verdict = "open"
        /\ verdict' \in {"executed", "refused"}
        /\ UNCHANGED <<row, status, signed, late>>
  /\ UNCHANGED <<page, job, stray, loose>>

-----------------------------------------------------------------------------
(* The detail: a fetch under way is dropped when another begins. *)

OnScreen == fetch.state = "done" /\ view # Blank

Running(c) == job[c].state # "none"

\* Some request of the card is under way, or its atom runs.
InAction(c) == Running(c) \/ c \in stray

\* useAtomRefresh(detailAtom); the cards are unmounted until the answer is here.
Refresh ==
  /\ fetch' = Begun
  /\ busy' = {}
  /\ loose' = {c \in loose \cup Cards : InAction(c)'}

\* The button on the page, or Retry after a fetch that failed.
PressRefresh ==
  /\ fetch.state = "done"
  /\ UNCHANGED <<server, view, awaited, job, stray>>
  /\ Refresh

FetchGoes(state, got) ==
  /\ fetch' = [state |-> state, got |-> got]
  /\ UNCHANGED <<server, view, busy, awaited, job, stray, loose>>

\* VARIANT: the signatures are read before the row.
ReadOrderSwapped == <<"signed", "status">>

\* getById, then getSignatures.
ReadOrder == <<"status", "signed">>

Read(column, got) ==
  IF column = "status" THEN [got EXCEPT !.status = status]
                       ELSE [got EXCEPT !.signed = signed]

ReadFirst ==
  /\ fetch.state = "first"
  /\ FetchGoes("second", Read(ReadOrder[1], fetch.got))

ReadSecond ==
  /\ fetch.state = "second"
  /\ FetchGoes("answered", Read(ReadOrder[2], fetch.got))

Show(v) ==
  /\ view' = v
  /\ fetch' = [state |-> "done", got |-> Blank]
  /\ UNCHANGED <<server, busy, awaited, job, stray, loose>>

FetchAnswered == fetch.state = "answered" /\ Show(fetch.got)

FetchFails == Faults /\ fetch.state # "done" /\ Show(Blank)

-----------------------------------------------------------------------------
(* The three cards. *)

\* VARIANT: the button is not disabled while the action runs.
EnabledAlways(c) == OnScreen

Enabled(c) == OnScreen /\ c \notin busy

\* A handler up to the await.  Dispatching interrupts an earlier run of the atom;
\* a request it has sent may still arrive.
Press(c, state) ==
  /\ Enabled(c)
  /\ busy' = busy \cup {c}
  /\ awaited' = awaited \cup {c}
  /\ job' = [job EXCEPT ![c] = [state |-> state, ok |-> FALSE]]
  /\ stray' = IF job[c].state = "sent" THEN stray \cup {c} ELSE stray
  /\ UNCHANGED <<server, fetch, view, loose>>

\* handleSign, handleSubmit, handleCheckStatus: each card offers its button in its
\* own statuses only; signing begins at the wallet.
PressSign == view.status \in SIGNABLE_STATUSES /\ Press("sign", "wallet")

PressSubmit == view.status = "ready" /\ Press("submit", "sent")

PressCheck == view.status = "submitted" /\ Press("check", "sent")

JobGoes(c, state, ok) == job' = [job EXCEPT ![c] = [state |-> state, ok |-> ok]]

\* requestWalletSignature: the member signs, or refuses, or does neither.
WalletAnswers ==
  /\ job["sign"].state = "wallet"
  /\ JobGoes("sign", "sent", FALSE) \/ JobGoes("sign", "answered", FALSE)
  /\ UNCHANGED <<server, page, stray, loose>>

Served(c) ==
  /\ job[c].state = "sent"
  /\ \E ok \in BOOLEAN : Serve(c, Me, ok) /\ JobGoes(c, "answered", ok)
  /\ UNCHANGED <<page, stray, loose>>

StrayServed(c) ==
  /\ c \in stray
  /\ stray' = stray \ {c}
  /\ \/ \E ok \in BOOLEAN : Serve(c, Me, ok)
     \/ UNCHANGED server
  /\ loose' = IF Running(c) THEN loose ELSE loose \ {c}
  /\ UNCHANGED <<page, job>>

\* The request fails in the browser; the server may still come to handle it, or
\* has done so and the answer was lost.
Lost(c) ==
  /\ Faults
  /\ job[c].state = "sent"
  /\ stray' = stray \cup {c}
  /\ JobGoes(c, "answered", FALSE)
  /\ loose' = loose \cup {c}
  /\ UNCHANGED <<server, page>>

\* VARIANT: the button is enabled again only after a success.
StillBusyAfter(c, ok) == IF ok THEN busy \ {c} ELSE busy

\* The finally of a handler.
BusyAfter(c, ok) == busy \ {c}

\* VARIANT: the page is left as it is.
AfterSuccessNothing(c) == busy' = BusyAfter(c, TRUE) /\ UNCHANGED <<fetch, loose>>

\* onSigned, onSubmitted and onStatusRefreshed.
AfterSuccess(c) == Refresh

\* The rest of a handler, also of one whose card is gone: the run it waited
\* for, or the one that took its place, has ended.
Resume(c) ==
  /\ job[c].state = "answered" /\ c \in awaited
  /\ awaited' = awaited \ {c}
  /\ job' = [job EXCEPT ![c] = NoJob]
  /\ UNCHANGED <<server, view, stray>>
  /\ IF job[c].ok
       THEN AfterSuccess(c)
       ELSE /\ busy' = BusyAfter(c, FALSE)
            /\ loose' = {d \in loose : InAction(d)'}
            /\ UNCHANGED fetch

-----------------------------------------------------------------------------

FetchStep == ReadFirst \/ ReadSecond \/ FetchAnswered

Next ==
  \/ Others
  \/ PressRefresh \/ FetchStep \/ FetchFails
  \/ PressSign \/ PressSubmit \/ PressCheck
  \/ WalletAnswers
  \/ \E c \in Cards : Served(c) \/ StrayServed(c) \/ Lost(c) \/ Resume(c)

Spec == Init /\ [][Next]_vars

\* Requests are answered and handlers resumed; members need not do anything.
FairSpec ==
  /\ Spec
  /\ WF_vars(FetchStep)
  /\ \A c \in Cards : WF_vars(Served(c)) /\ WF_vars(Resume(c))

-----------------------------------------------------------------------------
(* Properties. *)

\* The page never claims more than it shows the signatures for, although the
\* row and the signatures are read one after the other while others sign.
ShownIsBacked ==
  view.status \in {"ready", "submitted", "committed", "failed", "invalid"} =>
    Cardinality(view.signed) >= Required

\* What the wallet is asked to sign is what the server has stored, whatever the
\* browser's time zone and whether or not the deadline was written with one.
SignedIsStored == Running("sign") => WalletHeader(row) = StoredHeader(row)

\* Up to the second before its deadline the ledger takes the subintent: its
\* window of epochs does not end before, nor begin later than it was made.
WindowOutlasts ==
  \A s \in Seconds(row.createdAt)..(StoredHeader(row).until - 1) :
    LatestEpoch(row, s) < row.epochMax

\* A page has two requests of one card under way only when it was refreshed, or
\* had lost an answer, in between: pressing a button twice is not enough.
OneRequestAtATime == \A c \in Cards : job[c].state = "sent" /\ c \in stray => c \in loose

\* An action that succeeded comes to be seen on the page, unless the fetch fails
\* or the page was refreshed in mid-action: its button may then be pressed again,
\* and the answer that would have been seen is dropped for that of a refusal.
Reflects(c) ==
  \/ c = "sign" /\ Me \in view.signed
  \/ c = "submit" /\ view.status \in {"submitted", "committed", "failed"}
  \/ c = "check" /\ view.status \in {"submitted", "committed", "failed"}

Succeeded(c) == job[c].state = "answered" /\ job[c].ok

OwnActionIsShown ==
  \A c \in Cards : Succeeded(c)
    ~> (c \in loose \/ (fetch.state = "done" /\ (Reflects(c) \/ view = Blank)))

-----------------------------------------------------------------------------
(* The inductive invariant: what each point of the fetch and of the three  *)
(* cards knows while the server serves everybody else.                     *)

\* The signatures that a status claims are there.
BackedBy(s, signatures) ==
  s \in {"ready", "submitted", "committed", "failed", "invalid"} =>
    Cardinality(signatures) >= Required

ServerInv == IsFiniteSet(signed) /\ BackedBy(status, signed)

\* Between the two reads signatures may be added, but none are taken off.
FetchInv ==
  /\ fetch.state = "second" => fetch.got \in ViewType /\ BackedBy(fetch.got.status, signed)
  /\ fetch.state = "answered" =>
       fetch.got \in ViewType /\ BackedBy(fetch.got.status, fetch.got.signed)

\* A card that is in action and can be pressed was remounted, or left unanswered.
CardInv(c) == c \in stray \/ (Running(c) /\ c \notin busy) => c \in loose

PageInv ==
  /\ TypeOK
  /\ ServerInv
  /\ FetchInv
  /\ ShownIsBacked
  /\ \A c \in Cards : CardInv(c)
=============================================================================
