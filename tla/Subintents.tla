----------------------------- MODULE Subintents -----------------------------
(***************************************************************************)
(* The header of a proposal's subintent.  create computes it on the server *)
(* and stores the subintent's hash and the columns it came from            *)
(* (handlers/proposals.ts, gateway/subintentBuilder.ts); to sign, the      *)
(* client rebuilds it from those columns (atom/walletSignature.ts), and    *)
(* the server takes only a signature over the same hash.                   *)
(*                                                                         *)
(* A hash stands for what is hashed: manifest, network and discriminator,  *)
(* which both sides copy, and the four bounds below, which they compute.   *)
(* A time is a number of milliseconds; Second is how many make a second.   *)
(* A time as text has a value and a zone: "none" if it names no zone.      *)
(***************************************************************************)
EXTENDS Integers

CONSTANTS
  Second,        \* milliseconds in a second
  EpochSeconds,  \* 300, the seconds an epoch is taken to last
  MinEpochs,     \* 100, the shortest window of epochs
  ServerZone,    \* the server's offset from UTC, in milliseconds
  ClientZone     \* the browser's

ASSUME HeaderAssumption ==
  /\ Second \in Nat \ {0} /\ EpochSeconds \in Nat \ {0} /\ MinEpochs \in Nat \ {0}
  /\ ServerZone \in Int /\ ClientZone \in Int

Seconds(ms) == ms \div Second

\* new Date(text) and DateTime.make(text): a text without a zone is local time.
Parse(text, zone) == IF text.zone = "Z" THEN text.ms ELSE text.ms - zone

\* Rounded up as by Math.ceil, also below zero.
CeilDiv(a, b) == - ((- a) \div b)

\* VARIANT: the epochs needed are counted once.
EpochMaxTight(epoch, seconds) ==
  LET needed == CeilDiv(seconds, EpochSeconds) IN
    epoch + (IF needed > MinEpochs THEN needed ELSE MinEpochs)

\* The end of the window of epochs that is to outlast the deadline.
EpochMax(epoch, seconds) ==
  LET needed == 2 * CeilDiv(seconds, EpochSeconds) IN
    epoch + (IF needed > MinEpochs THEN needed ELSE MinEpochs)

\* What create stores: the columns the client is later given, and the header
\* that went into the hash.
Columns(created, text, epoch) ==
  [createdAt |-> created, maxProposerTimestamp |-> text, epochMin |-> epoch,
   epochMax |-> EpochMax(epoch, Seconds(Parse(text, ServerZone)) - Seconds(created))]

StoredHeader(row) ==
  [epochMin |-> row.epochMin, epochMax |-> row.epochMax,
   from |-> Seconds(row.createdAt),
   until |-> Seconds(Parse(row.maxProposerTimestamp, ServerZone))]

\* The client takes a time without Z for one in UTC.
InUTC(text) == [text EXCEPT !.zone = "Z"]

\* VARIANT: the text is parsed as it comes.
WalletHeaderLocal(row) ==
  [epochMin |-> row.epochMin, epochMax |-> row.epochMax,
   from |-> Seconds(row.createdAt),
   until |-> Seconds(Parse(row.maxProposerTimestamp, ClientZone))]

\* What the wallet is asked to sign.
WalletHeader(row) ==
  [epochMin |-> row.epochMin, epochMax |-> row.epochMax,
   from |-> Seconds(row.createdAt),
   until |-> Seconds(Parse(InUTC(row.maxProposerTimestamp), ClientZone))]

\* The ledger's epoch at a later second: it changes at most once in EpochSeconds,
\* the first time at any moment.
LatestEpoch(row, second) ==
  row.epochMin + 1 + ((second - Seconds(row.createdAt)) \div EpochSeconds)
=============================================================================
