---------------------------- MODULE StreamConsumer ----------------------------
(***************************************************************************)
(* JetStreamConsumer (queue/jetstream.py) on a durable consumer of one     *)
(* stream.  The server's side (delivery, redelivery of what was not        *)
(* acknowledged, retention) is modelled from how the class uses it.        *)
(*                                                                         *)
(* The class keeps the last stream sequence in memory, acknowledges each   *)
(* message and only then yields it; a sequence at or below the last one    *)
(* counts as a duplicate and is acknowledged unseen.  fetch collects at    *)
(* most MaxFetch messages of a subscription and returns them together;     *)
(* what was already delivered into the subscription's buffer stays         *)
(* unacknowledged.  An exception ends the subscription and the fetch: what *)
(* was taken for it is not returned, but stays below last_sequence.        *)
(***************************************************************************)
EXTENDS Naturals, FiniteSets, SequencesExt

CONSTANTS
  MaxStream,   \* bound: messages ever stored in the stream
  Retention,   \* StreamConfig.max_msgs: messages the stream keeps
  MaxFetch,    \* max_events of each fetch
  MaxCrashes,  \* bound: crashes of the consumer's process
  MaxErrors,   \* bound: fetches that end in an exception
  MaxLostAcks  \* bound: acknowledgements lost on their way

ASSUME ConsumerAssumption ==
  /\ {MaxStream, MaxCrashes, MaxErrors, MaxLostAcks} \subseteq Nat
  /\ {Retention, MaxFetch} \subseteq Nat \ {0}

VARIABLES
  last,       \* server: sequence of the newest message stored
  next,       \* server: next sequence the durable consumer will be sent
  pending,    \* server: sequences sent and not acknowledged
  buffer,     \* client: messages of the open subscription, in order
  client,     \* client: open?, last_sequence, message not yielded yet, events of fetch
  gaps,       \* sequences that some SequenceGap covers
  handed,     \* sequences the callers were given, in order
  cut,        \* sequences an exception took from a fetch (for the properties)
  crashes, errors, lostAcks

faults == <<cut, crashes, errors>>
vars == <<last, next, pending, buffer, client, gaps, handed, faults, lostAcks>>

Sequences == 1 .. MaxStream

(* 0 in "seen" stands for last_sequence = None, in "inHand" for nothing.   *)
Fresh == [open |-> FALSE, seen |-> 0, inHand |-> 0, events |-> <<>>]

TypeOK ==
  /\ last \in 0 .. MaxStream
  /\ next \in 1 .. MaxStream + 1
  /\ pending \subseteq Sequences
  /\ buffer \in Seq(Sequences)
  /\ client \in [open : BOOLEAN, seen : 0 .. MaxStream,
                 inHand : 0 .. MaxStream, events : Seq(Sequences)]
  /\ gaps \subseteq Sequences
  /\ Len(client.events) <= MaxFetch
  /\ handed \in Seq(Sequences)
  /\ cut \subseteq Sequences
  /\ crashes \in 0 .. MaxCrashes
  /\ errors \in 0 .. MaxErrors
  /\ lostAcks \in 0 .. MaxLostAcks

Init ==
  /\ last = 0
  /\ next = 1
  /\ pending = {}
  /\ buffer = <<>>
  /\ client = Fresh
  /\ gaps = {}
  /\ handed = <<>>
  /\ cut = {}
  /\ crashes = 0
  /\ errors = 0
  /\ lostAcks = 0

(* Older messages are discarded; they are not delivered or redelivered.    *)
Retained == {s \in 1 .. last : s + Retention > last}

-----------------------------------------------------------------------------
(* The server.                                                             *)

Store ==
  /\ last < MaxStream
  /\ last' = last + 1
  /\ UNCHANGED <<next, pending, buffer, client, gaps, handed, faults, lostAcks>>

Send(s) ==
  /\ client.open
  /\ buffer' = Append(buffer, s)
  /\ pending' = pending \union {s}
  /\ UNCHANGED <<last, client, gaps, handed, faults, lostAcks>>

Deliver ==
  \E s \in Retained :
    /\ s >= next
    /\ \A earlier \in Retained : earlier >= next => s <= earlier
    /\ next' = s + 1
    /\ Send(s)

(* The acknowledgement did not arrive in time.                             *)
Redeliver ==
  \E s \in pending \intersect Retained :
    /\ s \notin ToSet(buffer)
    /\ UNCHANGED next
    /\ Send(s)

-----------------------------------------------------------------------------
(* The client.                                                             *)

Subscribe ==
  /\ ~client.open
  /\ client' = [client EXCEPT !.open = TRUE, !.events = <<>>]
  /\ UNCHANGED <<last, next, pending, buffer, gaps, handed, faults, lostAcks>>

(* msg.ack() is not confirmed: it may be lost.                             *)
Acknowledge(s) ==
  \/ /\ pending' = pending \ {s}
     /\ UNCHANGED lostAcks
  \/ /\ lostAcks < MaxLostAcks
     /\ lostAcks' = lostAcks + 1
     /\ UNCHANGED pending

(* Mutant: only a repetition of the very last sequence is a duplicate.     *)
IsDuplicateOfLast(s) == client.seen # 0 /\ s = client.seen

IsDuplicate(s) == client.seen # 0 /\ s <= client.seen

(* Mutant: the gap is counted from the last sequence, None being 0.        *)
MissedFromLast(s) == client.seen .. s - 1

Missed(s) == IF client.seen = 0 THEN {} ELSE client.seen + 1 .. s - 1

ReadyToReceive ==
  client.open /\ client.inHand = 0 /\ Len(client.events) < MaxFetch /\ buffer # <<>>

ReceiveDuplicate ==
  /\ ReadyToReceive
  /\ IsDuplicate(Head(buffer))
  /\ buffer' = Tail(buffer)
  /\ Acknowledge(Head(buffer))
  /\ UNCHANGED <<last, next, client, gaps, handed, faults>>

(* Mutants: a jump is not recorded; a message behind a jump is held back.  *)
ReceiveNewUnrecorded ==
  LET s == Head(buffer) IN
  /\ ReadyToReceive
  /\ ~IsDuplicate(s)
  /\ buffer' = Tail(buffer)
  /\ client' = [client EXCEPT !.seen = s, !.inHand = s]
  /\ Acknowledge(s)
  /\ UNCHANGED <<last, next, gaps, handed, faults>>

ReceiveNewHoldingBack ==
  LET s == Head(buffer) IN
  /\ ReadyToReceive
  /\ ~IsDuplicate(s)
  /\ buffer' = Tail(buffer)
  /\ client' = [client EXCEPT !.seen = s,
                              !.inHand = IF Missed(s) = {} THEN s ELSE 0]
  /\ gaps' = gaps \union Missed(s)
  /\ Acknowledge(s)
  /\ UNCHANGED <<last, next, handed, faults>>

ReceiveNew ==
  LET s == Head(buffer) IN
  /\ ReadyToReceive
  /\ ~IsDuplicate(s)
  /\ buffer' = Tail(buffer)
  /\ gaps' = gaps \union Missed(s)
  /\ client' = [client EXCEPT !.seen = s, !.inHand = s]
  /\ Acknowledge(s)
  /\ UNCHANGED <<last, next, handed, faults>>

(* yield: fetch has the message.                                           *)
Yield ==
  /\ client.inHand # 0
  /\ client' = [client EXCEPT !.inHand = 0, !.events = Append(@, client.inHand)]
  /\ UNCHANGED <<last, next, pending, buffer, gaps, handed, faults, lostAcks>>

(* fetch broke out of its loop, or next_msg timed out: it returns.         *)
Return ==
  /\ client.open /\ client.inHand = 0
  /\ Len(client.events) = MaxFetch \/ buffer = <<>>
  /\ handed' = handed \o client.events
  /\ client' = [client EXCEPT !.open = FALSE, !.events = <<>>]
  /\ buffer' = <<>>
  /\ UNCHANGED <<last, next, pending, gaps, faults, lostAcks>>

Taken ==
  IF client.inHand = 0 THEN client.events ELSE Append(client.events, client.inHand)

(* next_msg, ack or _decode_event raised.  Where ack did, it is not known  *)
(* whether the server has it: ReceiveNew and ReceiveDuplicate leave both.  *)
Raise ==
  /\ client.open
  /\ errors < MaxErrors
  /\ errors' = errors + 1
  /\ cut' = cut \union ToSet(Taken)
  /\ client' = [client EXCEPT !.open = FALSE, !.inHand = 0, !.events = <<>>]
  /\ buffer' = <<>>
  /\ UNCHANGED <<last, next, pending, gaps, handed, crashes, lostAcks>>

(* The process dies and a new one starts: stats begin afresh.              *)
Crash ==
  /\ crashes < MaxCrashes
  /\ crashes' = crashes + 1
  /\ client' = Fresh
  /\ buffer' = <<>>
  /\ UNCHANGED <<last, next, pending, gaps, handed, cut, errors, lostAcks>>

-----------------------------------------------------------------------------
Next ==
  \/ Store \/ Deliver \/ Redeliver
  \/ Subscribe \/ ReceiveDuplicate \/ ReceiveNew \/ Yield \/ Return
  \/ Raise \/ Crash

(* The server sends what it can to an open subscription, the callers fetch *)
(* again and again, and a subscription is read until it ends.  A timeout   *)
(* may cut in before the next delivery, but not every time.                *)
Fairness ==
  /\ SF_vars(Deliver)
  /\ SF_vars(Redeliver)
  /\ WF_vars(Subscribe)
  /\ WF_vars(ReceiveDuplicate \/ ReceiveNew)
  /\ WF_vars(Yield)
  /\ WF_vars(Return)

Spec == Init /\ [][Next]_vars /\ Fairness

-----------------------------------------------------------------------------
(* Properties.                                                             *)

(* A consumer that does not restart hands every message over at most once  *)
(* and in stream order, however the server resends.                        *)
HandedOnceInOrder ==
  crashes = 0 =>
    \A i, j \in DOMAIN handed : i < j => handed[i] < handed[j]

(* Nothing between the first message handed over and last_sequence is      *)
(* passed over in silence: it was handed over or a SequenceGap covers it,  *)
(* or an exception took it, and none takes more than one fetch.            *)
LossesAreErrors ==
  /\ Cardinality(cut) <= MaxFetch * errors
  /\ (crashes = 0 /\ handed # <<>>) =>
       \A s \in handed[1] .. client.seen :
         s \in ToSet(handed) \union ToSet(Taken) \union gaps \union cut

(* Every stored message is handed over or reported in the end, unless the  *)
(* stream's retention discards it first, an exception takes it, one ends   *)
(* the fetch it was sent to before anything was received, or the consumer  *)
(* restarts.                                                               *)
OlderThanAll(s) ==
  /\ errors > 0 /\ s <= client.seen
  /\ \A t \in ToSet(handed) \union ToSet(Taken) \union cut : s < t

EventuallyHandedOrReported ==
  \A s \in Sequences :
    s <= last ~> \/ s \in ToSet(handed) \union gaps \union cut
                 \/ OlderThanAll(s)
                 \/ s \notin Retained
                 \/ crashes > 0

(* Documented, not kept: a restarted worker resumes exactly where it was   *)
(* (jetstream.py:3), so what the server will not send again was handed     *)
(* over or reported.                                                       *)
AcknowledgedWasHanded ==
  \A s \in Retained :
    s < next /\ s \notin pending => s \in ToSet(handed) \union ToSet(Taken) \union gaps
=============================================================================
