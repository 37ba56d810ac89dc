------------------------- MODULE StreamConsumerProofs -------------------------
(***************************************************************************)
(* Theorems about StreamConsumer for every stream length, retention, fetch *)
(* size and number of crashes, exceptions and lost acknowledgements.  All  *)
(* are safety properties, so the fairness of Spec plays no part in them.   *)
(***************************************************************************)
EXTENDS StreamConsumer, FiniteSetTheorems, TLAPS

-----------------------------------------------------------------------------
LEMMA ConstantsTyped ==
  /\ MaxStream \in Nat /\ MaxCrashes \in Nat /\ MaxErrors \in Nat /\ MaxLostAcks \in Nat
  /\ Retention \in Nat \ {0} /\ MaxFetch \in Nat \ {0}
BY ConsumerAssumption

(* TypeOK alone is not inductive: a message may join those of the fetch    *)
(* when it is yielded, because the limit was checked when it was received. *)
TypeInv ==
  /\ TypeOK
  /\ client.inHand # 0 => Len(client.events) < MaxFetch /\ client.inHand = client.seen

LEMMA RetainedTyped ==
  ASSUME TypeOK
  PROVE  Retained \subseteq Sequences /\ \A s \in Sequences : s \in Nat /\ s # 0
BY ConstantsTyped DEF Retained, Sequences, TypeOK

Clients == [open : BOOLEAN, seen : 0 .. MaxStream,
            inHand : 0 .. MaxStream, events : Seq(Sequences)]

(* The fields of the client's state.                                       *)
LEMMA FieldsTyped ==
  ASSUME TypeInv
  PROVE  /\ client \in Clients
         /\ client.open \in BOOLEAN /\ client.seen \in Nat /\ client.inHand \in Nat
         /\ client.seen <= MaxStream /\ client.inHand <= MaxStream
         /\ client.inHand # 0 => client.inHand \in Sequences
         /\ client.events \in Seq(Sequences) /\ Len(client.events) <= MaxFetch
         /\ Len(client.events) \in Nat
<1>1. client \in Clients /\ Len(client.events) <= MaxFetch
  BY DEF TypeInv, TypeOK, Clients
<1>2. /\ client.open \in BOOLEAN /\ client.seen \in 0 .. MaxStream
      /\ client.inHand \in 0 .. MaxStream /\ client.events \in Seq(Sequences)
  BY <1>1 DEF Clients
<1> QED
  BY <1>1, <1>2, ConstantsTyped DEF Sequences

LEMMA FreshTyped ==
  Fresh \in Clients /\ Len(Fresh.events) = 0 /\ Fresh.inHand = 0
<1>1. <<>> \in Seq(Sequences) /\ Len(<<>>) = 0 /\ 0 \in 0 .. MaxStream
  BY ConstantsTyped
<1> QED
  BY <1>1 DEF Fresh, Clients

(* A state of the client, given by what an action makes of it.             *)
LEMMA ClientTyped ==
  ASSUME client' \in Clients, Len(client'.events) <= MaxFetch,
         client'.inHand # 0 =>
           Len(client'.events) < MaxFetch /\ client'.inHand = client'.seen,
         last' \in 0 .. MaxStream, next' \in 1 .. MaxStream + 1,
         pending' \subseteq Sequences, buffer' \in Seq(Sequences),
         gaps' \subseteq Sequences, handed' \in Seq(Sequences),
         cut' \subseteq Sequences, crashes' \in 0 .. MaxCrashes,
         errors' \in 0 .. MaxErrors, lostAcks' \in 0 .. MaxLostAcks
  PROVE  TypeInv'
BY DEF Clients, TypeInv, TypeOK

(* What the state is made of, without the client.                          *)
LEMMA RestTyped ==
  ASSUME TypeInv
  PROVE  /\ last \in 0 .. MaxStream /\ next \in 1 .. MaxStream + 1
         /\ pending \subseteq Sequences /\ buffer \in Seq(Sequences)
         /\ gaps \subseteq Sequences /\ handed \in Seq(Sequences)
         /\ cut \subseteq Sequences /\ crashes \in 0 .. MaxCrashes
         /\ errors \in 0 .. MaxErrors /\ lostAcks \in 0 .. MaxLostAcks
BY DEF TypeInv, TypeOK

LEMMA InitTyped == Init => TypeInv
<1> SUFFICES ASSUME Init PROVE TypeInv
  OBVIOUS
<1>1. /\ last \in 0 .. MaxStream /\ next \in 1 .. MaxStream + 1
      /\ crashes \in 0 .. MaxCrashes /\ errors \in 0 .. MaxErrors
      /\ lostAcks \in 0 .. MaxLostAcks
  BY ConstantsTyped DEF Init
<1>2. buffer \in Seq(Sequences) /\ handed \in Seq(Sequences)
  BY DEF Init
<1>3. client \in Clients /\ Len(client.events) <= MaxFetch /\ client.inHand = 0
  BY FreshTyped, ConstantsTyped DEF Init
<1> QED
  BY <1>1, <1>2, <1>3 DEF Init, TypeInv, TypeOK, Clients

(* What the client takes from its buffer is a stored sequence.             *)
LEMMA HeadTyped ==
  ASSUME TypeInv, buffer # <<>>
  PROVE  Head(buffer) \in Sequences /\ Tail(buffer) \in Seq(Sequences)
BY RestTyped

(* What a fetch has taken: stored sequences, at most MaxFetch of them.     *)
LEMMA TakenTyped ==
  ASSUME TypeInv
  PROVE  /\ Taken \in Seq(Sequences) /\ Len(Taken) <= MaxFetch
         /\ Len(Taken) \in Nat /\ DOMAIN Taken = 1 .. Len(Taken)
         /\ ToSet(Taken) \subseteq Sequences
<1>1. CASE client.inHand = 0
  <2>1. Taken = client.events
    BY <1>1 DEF Taken
  <2> QED
    BY <2>1, FieldsTyped DEF ToSet
<1>2. CASE client.inHand # 0
  <2>1. Taken = Append(client.events, client.inHand)
    BY <1>2 DEF Taken
  <2>2. Len(client.events) < MaxFetch /\ client.inHand \in Sequences
    BY <1>2, FieldsTyped DEF TypeInv
  <2>3. Taken \in Seq(Sequences) /\ Len(Taken) = Len(client.events) + 1
    BY <2>1, <2>2, FieldsTyped
  <2>4. Len(Taken) <= MaxFetch /\ Len(Taken) \in Nat
    BY <2>2, <2>3, FieldsTyped, ConstantsTyped
  <2> QED
    BY <2>3, <2>4 DEF ToSet
<1> QED
  BY <1>1, <1>2

LEMMA NextTyped == TypeInv /\ [Next]_vars => TypeInv'
<1> SUFFICES ASSUME TypeInv, [Next]_vars PROVE TypeInv'
  OBVIOUS
<1> USE ConstantsTyped
<1>1. CASE Store
  <2>1. last' \in 0 .. MaxStream
    BY <1>1, RestTyped DEF Store
  <2> QED
    BY <1>1, <2>1, RestTyped DEF Store, faults, TypeInv, TypeOK
<1>2. ASSUME NEW s \in Retained, Send(s), next' \in 1 .. MaxStream + 1
      PROVE  TypeInv'
  <2>1. s \in Sequences
    BY RetainedTyped DEF TypeInv
  <2>2. buffer' \in Seq(Sequences)
    BY <1>2, <2>1, RestTyped DEF Send
  <2> QED
    BY <1>2, <2>1, <2>2 DEF Send, faults, TypeInv, TypeOK
<1>3. CASE Deliver
  <2>1. PICK s \in Retained : next' = s + 1 /\ Send(s)
    BY <1>3 DEF Deliver
  <2>2. s + 1 \in 1 .. MaxStream + 1
    BY <2>1, RetainedTyped DEF TypeInv, Sequences
  <2> QED
    BY <1>2, <2>1, <2>2
<1>4. CASE Redeliver
  BY <1>2, <1>4 DEF Redeliver, TypeInv, TypeOK
<1>5. CASE Subscribe
  <2>1. client' \in Clients /\ client'.events = <<>>
        /\ client'.inHand = client.inHand /\ client'.seen = client.seen
    <3>1. <<>> \in Seq(Sequences)
      OBVIOUS
    <3> QED
      BY <1>5, <3>1, FieldsTyped DEF Subscribe, Clients
  <2>2. Len(client'.events) = 0
    BY <2>1
  <2>3. UNCHANGED <<last, next, pending, buffer, gaps, handed, cut, crashes, errors, lostAcks>>
    BY <1>5 DEF Subscribe, faults
  <2>4. client'.inHand # 0 => client'.inHand = client'.seen
    BY <2>1 DEF TypeInv
  <2>5. Len(client'.events) <= MaxFetch /\ Len(client'.events) < MaxFetch
    BY <2>2
  <2> QED
    BY <2>1, <2>3, <2>4, <2>5, RestTyped, ClientTyped
<1>6. ASSUME NEW s \in Sequences, Acknowledge(s)
      PROVE  pending' \subseteq Sequences /\ lostAcks' \in 0 .. MaxLostAcks
  BY <1>6 DEF Acknowledge, TypeInv, TypeOK
<1>7. CASE ReceiveDuplicate
  <2>1. buffer # <<>>
    BY <1>7 DEF ReceiveDuplicate, ReadyToReceive
  <2> QED
    BY <1>6, <1>7, <2>1, HeadTyped DEF ReceiveDuplicate, faults, TypeInv, TypeOK
<1>8. CASE ReceiveNew
  <2> DEFINE s == Head(buffer)
  <2>1. buffer # <<>> /\ Len(client.events) < MaxFetch
    BY <1>8 DEF ReceiveNew, ReadyToReceive
  <2>2. s \in Sequences /\ Tail(buffer) \in Seq(Sequences)
    BY <2>1, HeadTyped
  <2>3. /\ buffer' = Tail(buffer) /\ gaps' = gaps \union Missed(s)
        /\ client' = [client EXCEPT !.seen = s, !.inHand = s]
        /\ Acknowledge(s)
        /\ UNCHANGED <<last, next, handed, cut, crashes, errors>>
    BY <1>8 DEF ReceiveNew, faults
  <2> HIDE DEF s
  <2>4. s \in Nat /\ s <= MaxStream /\ s \in 0 .. MaxStream
    BY <2>2 DEF Sequences
  <2>5. Missed(s) \subseteq Sequences
    BY <2>4, FieldsTyped DEF Missed, Sequences
  <2>6. /\ client' \in Clients /\ client'.events = client.events
        /\ client'.inHand = client'.seen
    BY <2>3, <2>4, FieldsTyped DEF Clients
  <2>7. gaps' \subseteq Sequences
    BY <2>3, <2>5, RestTyped
  <2>8. pending' \subseteq Sequences /\ lostAcks' \in 0 .. MaxLostAcks
    BY <1>6, <2>2, <2>3
  <2> QED
    BY <2>1, <2>2, <2>3, <2>6, <2>7, <2>8, RestTyped, FieldsTyped, ClientTyped
<1>9. CASE Yield
  <2>1. /\ client.inHand # 0 /\ Len(client.events) < MaxFetch
        /\ client' = [client EXCEPT !.inHand = 0,
                        !.events = Append(client.events, client.inHand)]
        /\ UNCHANGED <<last, next, pending, buffer, gaps, handed,
                       cut, crashes, errors, lostAcks>>
    BY <1>9 DEF Yield, faults, TypeInv
  <2>2. /\ Append(client.events, client.inHand) \in Seq(Sequences)
        /\ Len(Append(client.events, client.inHand)) = Len(client.events) + 1
    BY <2>1, FieldsTyped
  <2>3. /\ client' \in Clients /\ client'.inHand = 0
        /\ client'.events = Append(client.events, client.inHand)
    <3> DEFINE events == Append(client.events, client.inHand)
    <3>1. /\ client' = [client EXCEPT !.inHand = 0, !.events = events]
          /\ events \in Seq(Sequences) /\ 0 \in 0 .. MaxStream
      BY <2>1, <2>2
    <3> HIDE DEF events
    <3>2. client' \in Clients /\ client'.inHand = 0 /\ client'.events = events
      BY <3>1, FieldsTyped DEF Clients
    <3> QED
      BY <3>2 DEF events
  <2>4. Len(client'.events) <= MaxFetch
    BY <2>1, <2>2, <2>3, FieldsTyped
  <2> QED
    BY <2>1, <2>3, <2>4, RestTyped, ClientTyped
<1>10. ASSUME client' = [client EXCEPT !.open = FALSE, !.events = <<>>]
              \/ client' = [client EXCEPT !.open = FALSE, !.inHand = 0, !.events = <<>>],
              client.inHand = 0 \/ client'.inHand = 0
       PROVE  client' \in Clients /\ client'.inHand = 0 /\ Len(client'.events) <= MaxFetch
  <2>1. <<>> \in Seq(Sequences) /\ Len(<<>>) = 0 /\ 0 \in 0 .. MaxStream
    OBVIOUS
  <2>2. client' \in Clients /\ client'.inHand = 0 /\ client'.events = <<>>
    BY <1>10, <2>1, FieldsTyped DEF Clients
  <2> QED
    BY <2>1, <2>2
<1>11. CASE Return
  <2>1. client' \in Clients /\ client'.inHand = 0 /\ Len(client'.events) <= MaxFetch
    BY <1>10, <1>11 DEF Return
  <2>2. handed' \in Seq(Sequences) /\ buffer' \in Seq(Sequences)
    BY <1>11, RestTyped, FieldsTyped DEF Return
  <2>3. UNCHANGED <<last, next, pending, gaps, cut, crashes, errors, lostAcks>>
    BY <1>11 DEF Return, faults
  <2> QED
    BY <2>1, <2>2, <2>3, RestTyped, ClientTyped
<1>12. CASE Raise
  <2>1. client' = [client EXCEPT !.open = FALSE, !.inHand = 0, !.events = <<>>]
    BY <1>12 DEF Raise
  <2>2. client'.inHand = 0
    BY <2>1, FieldsTyped DEF Clients
  <2>3. client' \in Clients /\ client'.inHand = 0 /\ Len(client'.events) <= MaxFetch
    BY <1>10, <2>1, <2>2
  <2>4. errors' \in 0 .. MaxErrors /\ cut' \subseteq Sequences /\ buffer' \in Seq(Sequences)
    BY <1>12, RestTyped, TakenTyped DEF Raise
  <2>5. UNCHANGED <<last, next, pending, gaps, handed, crashes, lostAcks>>
    BY <1>12 DEF Raise
  <2> QED
    BY <2>3, <2>4, <2>5, RestTyped, ClientTyped
<1>13. CASE Crash
  <2>1. client' \in Clients /\ client'.inHand = 0 /\ Len(client'.events) <= MaxFetch
    BY <1>13, FreshTyped DEF Crash
  <2>2. crashes' \in 0 .. MaxCrashes /\ buffer' \in Seq(Sequences)
    BY <1>13, RestTyped DEF Crash
  <2>3. UNCHANGED <<last, next, pending, gaps, handed, cut, errors, lostAcks>>
    BY <1>13 DEF Crash
  <2> QED
    BY <2>1, <2>2, <2>3, RestTyped, ClientTyped
<1>14. CASE UNCHANGED vars
  BY <1>14 DEF vars, faults, TypeInv, TypeOK
<1> QED
  BY <1>1, <1>3, <1>4, <1>5, <1>7, <1>8, <1>9, <1>11, <1>12, <1>13, <1>14 DEF Next

(* The consumer's counters and sequences keep their bounds: a fetch takes  *)
(* no more than MaxFetch messages and the class knows only stored ones.    *)
THEOREM ConsumerTypeCorrect == Spec => []TypeOK
<1>1. TypeInv => TypeOK
  BY DEF TypeInv
<1> QED
  BY InitTyped, NextTyped, <1>1, PTL DEF Spec

-----------------------------------------------------------------------------
(* An exception takes at most what one fetch may hold.                     *)

CutBounded == IsFiniteSet(cut) /\ Cardinality(cut) <= MaxFetch * errors

LEMMA RaiseBounded ==
  ASSUME TypeInv, CutBounded, Raise
  PROVE  CutBounded'
<1> DEFINE set == ToSet(Taken)
           n == Len(Taken)
           nth == [i \in 1 .. n |-> Taken[i]]
<1>1. n \in Nat /\ n <= MaxFetch /\ DOMAIN Taken = 1 .. n
  BY TakenTyped
<1>2. nth \in [1 .. n -> set] /\ \A t \in set : \E i \in 1 .. n : nth[i] = t
  BY <1>1 DEF ToSet
<1>3. nth \in Surjection(1 .. n, set)
  BY <1>2 DEF Surjection
<1>4. IsFiniteSet(1 .. n) /\ Cardinality(1 .. n) = n
  <2>1. IsFiniteSet(1 .. n) /\ Cardinality(1 .. n) = IF 1 > n THEN 0 ELSE n - 1 + 1
    BY <1>1, FS_Interval
  <2> QED
    BY <1>1, <2>1
<1> HIDE DEF set, nth, n
<1>5. IsFiniteSet(set) /\ Cardinality(set) <= n
  <2>1. IsFiniteSet(set)
    BY <1>3, <1>4, FS_Surjection
  <2>2. Cardinality(set) <= Cardinality(1 .. n)
    BY <1>3, <1>4, FS_Surjection
  <2> QED
    BY <1>4, <2>1, <2>2
<1>6. cut' = cut \union set /\ errors' = errors + 1
  BY DEF Raise, set
<1>7. /\ IsFiniteSet(cut \union set)
      /\ Cardinality(cut \union set)
           = Cardinality(cut) + Cardinality(set) - Cardinality(cut \intersect set)
  BY <1>5, FS_Union DEF CutBounded
<1>8. /\ Cardinality(cut) \in Nat /\ Cardinality(set) \in Nat
      /\ Cardinality(cut \intersect set) \in Nat
  <2>1. IsFiniteSet(cut \intersect set)
    BY <1>5, FS_Intersection DEF CutBounded
  <2> QED
    BY <1>5, <2>1, FS_CardinalityType DEF CutBounded
<1>9. MaxFetch \in Nat /\ errors \in Nat /\ MaxFetch * errors \in Nat
      /\ MaxFetch * (errors + 1) = MaxFetch * errors + MaxFetch
  BY ConstantsTyped DEF TypeInv, TypeOK
<1>10. Cardinality(cut \union set) <= MaxFetch * (errors + 1)
  BY <1>1, <1>5, <1>7, <1>8, <1>9 DEF CutBounded
<1> QED
  BY <1>6, <1>7, <1>10 DEF CutBounded

LEMMA CutKept ==
  ASSUME CutBounded, UNCHANGED <<cut, errors>>
  PROVE  CutBounded'
BY DEF CutBounded

LEMMA NextBounded == TypeInv /\ CutBounded /\ [Next]_vars => CutBounded'
<1> SUFFICES ASSUME TypeInv, CutBounded, [Next]_vars PROVE CutBounded'
  OBVIOUS
<1>1. CASE Raise
  BY <1>1, RaiseBounded
<1>2. CASE UNCHANGED <<cut, errors>>
  BY <1>2, CutKept
<1>3. Raise \/ UNCHANGED <<cut, errors>>
  BY DEF Next, vars, faults, Store, Deliver, Redeliver, Send, Subscribe, ReceiveDuplicate,
         ReceiveNew, Yield, Return, Crash
<1> QED
  BY <1>1, <1>2, <1>3

-----------------------------------------------------------------------------
(* Until the first restart, last_sequence is a watermark: what was handed  *)
(* over or is collected for it is ascending and at or below it, and what   *)
(* is in hand is the watermark itself.                                     *)

Out == handed \o client.events

Ascending ==
  /\ \A i, j \in DOMAIN Out : i < j => Out[i] < Out[j]
  /\ \A i \in DOMAIN Out : Out[i] <= client.seen
  /\ \A i \in DOMAIN Out : client.inHand # 0 => Out[i] < client.inHand

Accounted ==
  Out # <<>> =>
    \A s \in Out[1] .. client.seen :
      s \in ToSet(Out) \union gaps \union cut \union {client.inHand}

Watermark == crashes = 0 => Ascending /\ Accounted

(* Between subscriptions nothing is collected.                             *)
Idle == ~client.open => client.events = <<>> /\ client.inHand = 0

IInv == TypeInv /\ CutBounded /\ Idle /\ Watermark

(* Out as one sequence of stored sequences.                                *)
LEMMA OutTyped ==
  ASSUME TypeInv
  PROVE  /\ Out \in Seq(Sequences) /\ Len(Out) \in Nat /\ DOMAIN Out = 1 .. Len(Out)
         /\ \A i \in DOMAIN Out : Out[i] \in Sequences /\ Out[i] \in Nat \ {0}
         /\ Len(Out) = Len(handed) + Len(client.events)
<1>1. handed \in Seq(Sequences) /\ client.events \in Seq(Sequences)
  BY FieldsTyped, RestTyped
<1>2. Out \in Seq(Sequences) /\ Len(Out) = Len(handed) + Len(client.events)
  BY <1>1 DEF Out
<1>3. \A i \in DOMAIN Out : Out[i] \in Sequences
  BY <1>2
<1> QED
  BY <1>2, <1>3, RetainedTyped DEF TypeInv

(* What was handed over is a prefix of Out, and the rest of it is what the *)
(* fetch has collected.                                                    *)
LEMMA HandedInOut ==
  ASSUME TypeInv
  PROVE  /\ Len(handed) \in Nat /\ DOMAIN handed = 1 .. Len(handed)
         /\ DOMAIN handed \subseteq DOMAIN Out
         /\ \A i \in 1 .. Len(handed) : Out[i] = handed[i]
<1> DEFINE n == Len(handed)
<1>0. handed \in Seq(Sequences) /\ client.events \in Seq(Sequences)
  BY FieldsTyped, RestTyped
<1>1. n \in Nat /\ DOMAIN handed = 1 .. n
  BY <1>0
<1>2. DOMAIN Out = 1 .. n + Len(client.events) /\ Len(client.events) \in Nat
  BY OutTyped, FieldsTyped
<1>3. \A i \in 1 .. n : Out[i] = handed[i]
  BY <1>0, <1>1 DEF Out
<1>4. 1 .. n \subseteq 1 .. n + Len(client.events)
  BY ONLY <1>1, <1>2
<1> QED
  BY <1>1, <1>2, <1>3, <1>4

LEMMA OutInParts ==
  ASSUME TypeInv
  PROVE  ToSet(Out) \subseteq ToSet(handed) \union ToSet(client.events)
<1> DEFINE n == Len(handed)
<1>0. handed \in Seq(Sequences) /\ client.events \in Seq(Sequences)
  BY FieldsTyped, RestTyped
<1>1. n \in Nat /\ DOMAIN handed = 1 .. n /\ \A i \in 1 .. n : Out[i] = handed[i]
  BY HandedInOut
<1>2. Len(client.events) \in Nat /\ DOMAIN client.events = 1 .. Len(client.events)
  BY <1>0
<1>3. ASSUME NEW i \in DOMAIN Out
      PROVE  Out[i] \in ToSet(handed) \union ToSet(client.events)
  <2>1. i \in 1 .. n + Len(client.events)
    BY <1>3, OutTyped
  <2>2. CASE i <= n
    BY <1>1, <2>1, <2>2 DEF ToSet
  <2>3. CASE i > n
    <3>1. Out[i] = client.events[i - n] /\ i - n \in 1 .. Len(client.events)
      BY <1>0, <1>1, <1>2, <2>1, <2>3 DEF Out
    <3> QED
      BY <1>2, <3>1 DEF ToSet
  <2> QED
    BY <1>1, <2>1, <2>2, <2>3
<1> QED
  BY <1>3 DEF ToSet

LEMMA TakenInParts ==
  ASSUME TypeInv
  PROVE  /\ ToSet(client.events) \subseteq ToSet(Taken)
         /\ client.inHand # 0 => client.inHand \in ToSet(Taken)
<1>0. client.events \in Seq(Sequences)
  BY FieldsTyped
<1>1. CASE client.inHand = 0
  BY <1>1 DEF Taken
<1>2. CASE client.inHand # 0
  <2> DEFINE k == Len(client.events)
  <2>1. Taken = Append(client.events, client.inHand)
    BY <1>2 DEF Taken
  <2>2. k \in Nat /\ DOMAIN client.events = 1 .. k /\ DOMAIN Taken = 1 .. k + 1
    BY <1>0, <2>1
  <2>3. Taken[k + 1] = client.inHand /\ \A i \in 1 .. k : Taken[i] = client.events[i]
    BY <1>0, <2>1
  <2> HIDE DEF k
  <2>4. k + 1 \in DOMAIN Taken /\ 1 .. k \subseteq DOMAIN Taken
    BY <2>2
  <2> QED
    BY <2>2, <2>3, <2>4 DEF ToSet
<1> QED
  BY <1>1, <1>2

LEMMA FirstOfSeq ==
  ASSUME NEW S, NEW q \in Seq(S)
  PROVE  q # <<>> <=> 1 \in DOMAIN q
OBVIOUS

LEMMA OutNotEmpty ==
  ASSUME TypeInv
  PROVE  Out # <<>> <=> 1 \in DOMAIN Out
BY OutTyped, FirstOfSeq

LEMMA InitIInv == Init => IInv
<1> SUFFICES ASSUME Init PROVE IInv
  OBVIOUS
<1>1. Out = <<>>
  BY DEF Init, Fresh, Out
<1>2. Watermark
  BY <1>1 DEF Watermark, Ascending, Accounted
<1>3. CutBounded
  BY FS_EmptySet, ConstantsTyped DEF Init, CutBounded
<1> QED
  BY InitTyped, <1>2, <1>3 DEF IInv, Idle, Init, Fresh

(* A step of the server leaves the watermark alone, and so does one that   *)
(* only moves messages from the fetch to its caller.                       *)
LEMMA WatermarkKept ==
  ASSUME Watermark, Out' = Out, UNCHANGED <<gaps, cut, crashes>>,
         client'.seen = client.seen, client'.inHand = client.inHand
  PROVE  Watermark'
<1> SUFFICES ASSUME crashes' = 0 PROVE Ascending' /\ Accounted'
  BY DEF Watermark
<1>1. Ascending /\ Accounted
  BY DEF Watermark
<1>2. Ascending'
  BY <1>1 DEF Ascending
<1>3. Accounted'
  BY <1>1 DEF Accounted
<1> QED
  BY <1>2, <1>3

LEMMA ReceiveNewWatermark ==
  ASSUME IInv, ReceiveNew
  PROVE  Watermark'
<1> SUFFICES ASSUME crashes' = 0 PROVE Ascending' /\ Accounted'
  BY DEF Watermark
<1> DEFINE s == Head(buffer)
<1>1. /\ buffer # <<>> /\ client.inHand = 0 /\ ~IsDuplicate(s)
      /\ gaps' = gaps \union Missed(s)
      /\ client' = [client EXCEPT !.seen = s, !.inHand = s]
      /\ handed' = handed /\ crashes = 0 /\ cut' = cut
  BY DEF ReceiveNew, ReadyToReceive, faults
<1>2. s \in Sequences
  BY <1>1, HeadTyped DEF IInv
<1> HIDE DEF s
<1>3. /\ client'.seen = s /\ client'.inHand = s /\ client.seen \in Nat
      /\ client'.events = client.events
      /\ s \in Nat \ {0}
  BY <1>1, <1>2, FieldsTyped, RetainedTyped DEF IInv, TypeInv, Clients
<1>4. Out' = Out
  BY <1>1, <1>3 DEF Out
<1>5. \A i \in DOMAIN Out : Out[i] \in Nat \ {0}
  BY OutTyped DEF IInv
<1>6. Ascending /\ Accounted
  BY <1>1 DEF IInv, Watermark
<1>7. \A i \in DOMAIN Out : Out[i] <= client.seen /\ Out[i] < s
  BY <1>1, <1>3, <1>5, <1>6 DEF Ascending, IsDuplicate
<1>8. Ascending'
  <2>1. \A i \in DOMAIN Out : Out[i] <= s /\ Out[i] < s
    BY <1>3, <1>5, <1>7
  <2> QED
    BY <1>3, <1>4, <1>6, <2>1 DEF Ascending
<1>9. ASSUME Out # <<>>, NEW q \in Out[1] .. s
      PROVE  q \in ToSet(Out) \union gaps' \union cut \union {s}
  <2>1. 1 \in DOMAIN Out
    BY <1>9, OutNotEmpty DEF IInv
  <2>2. Out[1] \in Nat \ {0} /\ Out[1] <= client.seen /\ q \in Nat
    BY <1>5, <1>7, <1>9, <2>1
  <2>3. CASE q <= client.seen
    <3>1. q \in Out[1] .. client.seen /\ q # 0
      BY <1>3, <1>9, <2>2, <2>3
    <3>2. q \in ToSet(Out) \union gaps \union cut \union {client.inHand}
      BY <1>6, <1>9, <3>1 DEF Accounted
    <3> QED
      BY <1>1, <3>1, <3>2
  <2>4. CASE client.seen < q /\ q < s
    <3>1. q \in Missed(s)
      BY <1>3, <2>2, <2>4 DEF Missed
    <3> QED
      BY <1>1, <3>1
  <2>5. q <= client.seen \/ (client.seen < q /\ q < s) \/ q = s
    BY <1>3, <1>9, <2>2
  <2> QED
    BY <2>3, <2>4, <2>5
<1>10. Accounted'
  BY <1>1, <1>3, <1>4, <1>9 DEF Accounted
<1> QED
  BY <1>8, <1>10

LEMMA YieldWatermark ==
  ASSUME IInv, Yield
  PROVE  Watermark'
<1> SUFFICES ASSUME crashes' = 0 PROVE Ascending' /\ Accounted'
  BY DEF Watermark
<1> DEFINE m == client.inHand
           n == Len(Out)
<1>1. /\ m # 0 /\ handed' = handed /\ gaps' = gaps /\ cut' = cut /\ crashes = 0
      /\ client'.seen = client.seen /\ client'.inHand = 0
      /\ client'.events = Append(client.events, m)
  BY FieldsTyped DEF Yield, faults, IInv, Clients
<1>2. m \in Sequences /\ m = client.seen /\ client.seen \in Nat
  BY <1>1, FieldsTyped DEF IInv, TypeInv
<1>3. handed \in Seq(Sequences) /\ client.events \in Seq(Sequences)
  BY FieldsTyped, RestTyped DEF IInv
<1>4. Out' = Append(Out, m) /\ Out \in Seq(Sequences)
  BY <1>1, <1>2, <1>3 DEF Out
<1>5. /\ n \in Nat /\ DOMAIN Out = 1 .. n /\ DOMAIN Out' = 1 .. n + 1
      /\ \A i \in 1 .. n : Out'[i] = Out[i] /\ Out[i] \in Nat
      /\ Out'[n + 1] = m
  <2> HIDE DEF m
  <2>1. n \in Nat /\ DOMAIN Out = 1 .. n /\ \A i \in 1 .. n : Out[i] \in Nat
    BY OutTyped DEF IInv
  <2> QED
    BY <1>2, <1>4, <2>1
<1>6. Ascending /\ Accounted
  BY <1>1 DEF IInv, Watermark
<1>7. \A i \in 1 .. n : Out[i] < m /\ Out[i] <= client.seen
  BY <1>1, <1>5, <1>6 DEF Ascending
<1>8. \A i, j \in 1 .. n : i < j => Out[i] < Out[j]
  BY <1>5, <1>6 DEF Ascending
<1> HIDE DEF m, n
<1>9. Ascending'
  <2>1. ASSUME NEW i \in 1 .. n + 1, NEW j \in 1 .. n + 1, i < j
        PROVE  Out'[i] < Out'[j]
    <3>1. i \in 1 .. n /\ (j \in 1 .. n \/ j = n + 1)
      BY <1>5, <2>1
    <3> QED
      BY <1>5, <1>7, <1>8, <2>1, <3>1
  <2>2. ASSUME NEW i \in 1 .. n + 1
        PROVE  Out'[i] <= client'.seen
    <3>1. i \in 1 .. n \/ i = n + 1
      BY <1>5
    <3> QED
      BY <1>1, <1>2, <1>5, <1>7, <3>1
  <2> QED
    BY <1>1, <1>5, <2>1, <2>2 DEF Ascending
<1>10. ASSUME NEW q \in Out'[1] .. client'.seen
      PROVE  q \in ToSet(Out') \union gaps' \union cut' \union {client'.inHand}
  <2>1. m \in ToSet(Out') /\ ToSet(Out) \subseteq ToSet(Out')
    <3>1. n + 1 \in DOMAIN Out' /\ DOMAIN Out \subseteq DOMAIN Out'
      BY <1>5
    <3> QED
      BY <1>5, <3>1 DEF ToSet
  <2>2. CASE n = 0
    <3>1. Out'[1] = m /\ client'.seen = m /\ m \in Nat
      BY <1>1, <1>2, <1>5, <2>2
    <3>2. q = m
      BY <1>10, <3>1
    <3> QED
      BY <2>1, <3>2
  <2>3. CASE n # 0
    <3>1. Out # <<>> /\ 1 \in 1 .. n
      BY <1>5, <2>3 DEF n
    <3>2. q \in Out[1] .. client.seen
      BY <1>1, <1>5, <1>10, <3>1
    <3>3. q \in ToSet(Out) \union gaps \union cut \union {m}
      BY <1>6, <3>1, <3>2 DEF Accounted, m
    <3> QED
      BY <1>1, <2>1, <3>3
  <2> QED
    BY <2>2, <2>3
<1>11. Accounted'
  BY <1>10 DEF Accounted
<1> QED
  BY <1>9, <1>11

(* What an exception takes from a fetch is cut; what was handed over       *)
(* before stays a prefix of Out.                                           *)
LEMMA RaiseWatermark ==
  ASSUME IInv, Raise
  PROVE  Watermark'
<1> SUFFICES ASSUME crashes' = 0 PROVE Ascending' /\ Accounted'
  BY DEF Watermark
<1> DEFINE n == Len(handed)
<1>1. /\ handed' = handed /\ gaps' = gaps /\ cut' = cut \union ToSet(Taken)
      /\ crashes = 0 /\ client'.seen = client.seen /\ client'.inHand = 0
      /\ client'.events = <<>>
  BY FieldsTyped DEF Raise, IInv, Clients
<1>2. handed \in Seq(Sequences) /\ client.events \in Seq(Sequences)
  BY FieldsTyped, RestTyped DEF IInv
<1>3. Out' = handed
  BY <1>1, <1>2 DEF Out
<1>4. /\ n \in Nat /\ DOMAIN handed = 1 .. n /\ DOMAIN handed \subseteq DOMAIN Out
      /\ \A i \in 1 .. n : Out[i] = handed[i]
  BY HandedInOut DEF IInv
<1>5. Ascending /\ Accounted
  BY <1>1 DEF IInv, Watermark
<1>6. Ascending'
  BY <1>1, <1>3, <1>4, <1>5 DEF Ascending
<1>7. ToSet(Out) \subseteq ToSet(handed) \union ToSet(client.events)
  BY OutInParts DEF IInv
<1>8. /\ ToSet(client.events) \subseteq ToSet(Taken)
      /\ client.inHand # 0 => client.inHand \in ToSet(Taken)
  BY TakenInParts DEF IInv
<1>9. Accounted'
  <2> SUFFICES ASSUME handed # <<>>, NEW q \in handed[1] .. client.seen
               PROVE  q \in ToSet(handed) \union gaps \union cut'
    BY <1>1, <1>3 DEF Accounted
  <2>1. 1 \in 1 .. n
    BY <1>2
  <2>2. Out # <<>> /\ Out[1] = handed[1]
    <3>1. 1 \in DOMAIN Out
      BY <1>4, <2>1
    <3>2. Out[1] = handed[1]
      BY <1>4, <2>1
    <3> QED
      BY <3>1, <3>2, OutNotEmpty DEF IInv
  <2>3. q \in ToSet(Out) \union gaps \union cut \union {client.inHand}
    BY <1>5, <2>2 DEF Accounted
  <2>4. q # 0
    <3>1. handed[1] \in Nat \ {0} /\ client.seen \in Nat
      BY <1>4, <2>1, OutTyped, FieldsTyped DEF IInv
    <3> QED
      BY ONLY <3>1
  <2> QED
    BY <1>1, <1>7, <1>8, <2>3, <2>4
<1> QED
  BY <1>6, <1>9

LEMMA NextWatermark ==
  IInv /\ [Next]_vars => Watermark'
<1> SUFFICES ASSUME IInv, [Next]_vars PROVE Watermark'
  OBVIOUS
<1>0. Watermark /\ client \in Clients
  BY FieldsTyped DEF IInv
<1>1. ASSUME UNCHANGED <<client, handed, gaps, cut, crashes>>
      PROVE  Watermark'
  <2>1. Out' = Out /\ client'.seen = client.seen /\ client'.inHand = client.inHand
    BY <1>1 DEF Out
  <2> QED
    BY <1>0, <1>1, <2>1, WatermarkKept
<1>2. CASE Store \/ Deliver \/ Redeliver \/ ReceiveDuplicate \/ UNCHANGED vars
  BY <1>1, <1>2 DEF Store, Deliver, Redeliver, Send, ReceiveDuplicate, vars, faults
<1>3. CASE Subscribe
  <2>1. /\ client'.events = client.events /\ UNCHANGED <<handed, gaps, cut, crashes>>
        /\ client'.seen = client.seen /\ client'.inHand = client.inHand
    BY <1>0, <1>3 DEF Subscribe, IInv, Idle, faults, Clients
  <2>2. Out' = Out
    BY <2>1 DEF Out
  <2> QED
    BY <1>0, <2>1, <2>2, WatermarkKept
<1>4. CASE ReceiveNew
  BY <1>4, ReceiveNewWatermark
<1>5. CASE Yield
  BY <1>5, YieldWatermark
<1>6. CASE Return
  <2>1. /\ client'.events = <<>> /\ handed' = handed \o client.events
        /\ UNCHANGED <<gaps, cut, crashes>>
        /\ client'.seen = client.seen /\ client'.inHand = client.inHand
    BY <1>0, <1>6 DEF Return, faults, Clients
  <2>2. handed \in Seq(Sequences) /\ client.events \in Seq(Sequences)
    BY FieldsTyped, RestTyped DEF IInv
  <2>3. handed \o client.events \in Seq(Sequences)
    BY <2>2
  <2>4. Out' = Out
    BY <2>1, <2>3 DEF Out
  <2> QED
    BY <1>0, <2>1, <2>4, WatermarkKept
<1>7. CASE Raise
  BY <1>7, RaiseWatermark
(* A restart forgets the watermark; the properties promise nothing then.   *)
<1>8. CASE Crash
  BY <1>8 DEF Crash, Watermark, IInv, TypeInv, TypeOK
<1> QED
  BY <1>2, <1>3, <1>4, <1>5, <1>6, <1>7, <1>8 DEF Next

LEMMA NextIdle == TypeInv /\ Idle /\ [Next]_vars => Idle'
<1> SUFFICES ASSUME TypeInv, Idle, [Next]_vars PROVE Idle'
  OBVIOUS
<1>0. client \in Clients
  BY FieldsTyped
<1>1. CASE UNCHANGED client
  BY <1>1 DEF Idle
<1>2. CASE Subscribe \/ Return \/ Raise
  BY <1>0, <1>2 DEF Subscribe, Return, Raise, Idle, Clients
<1>3. CASE ReceiveNew
  BY <1>0, <1>3 DEF ReceiveNew, ReadyToReceive, Idle, Clients
<1>4. CASE Yield
  BY <1>0, <1>4 DEF Yield, Idle, Clients
<1>5. CASE Crash
  BY <1>5 DEF Crash, Fresh, Idle
<1> QED
  BY <1>1, <1>2, <1>3, <1>4, <1>5
     DEF Next, vars, Store, Deliver, Redeliver, Send, ReceiveDuplicate

LEMMA SpecIInv == Spec => []IInv
<1>1. IInv /\ [Next]_vars => IInv'
  BY NextTyped, NextBounded, NextIdle, NextWatermark DEF IInv
<1> QED
  BY InitIInv, <1>1, PTL DEF Spec

(* What Out holds beyond handed is what the fetch has taken.               *)
LEMMA OutIsTaken ==
  ASSUME IInv
  PROVE  /\ ToSet(Out) \subseteq ToSet(handed) \union ToSet(Taken)
         /\ client.inHand # 0 => client.inHand \in ToSet(Taken)
BY OutInParts, TakenInParts DEF IInv

(* A first message handed over is the first of Out.                        *)
LEMMA FirstOfOut ==
  ASSUME IInv, handed # <<>>
  PROVE  Out # <<>> /\ Out[1] = handed[1] /\ handed[1] # 0
<1>1. 1 \in 1 .. Len(handed)
  BY RestTyped DEF IInv
<1>2. 1 \in DOMAIN Out /\ Out[1] = handed[1]
  BY <1>1, HandedInOut DEF IInv
<1>3. Out # <<>> /\ Out[1] # 0
  BY <1>2, OutNotEmpty, OutTyped DEF IInv
<1> QED
  BY <1>2, <1>3

(* However the server resends, whatever acknowledgements are lost and      *)
(* whichever fetches an exception ends, a consumer that has not restarted  *)
(* hands each message over at most once and in stream order: the sequence  *)
(* check of fetch drops the rest.                                          *)
THEOREM HandedInOrder == Spec => []HandedOnceInOrder
<1>1. ASSUME IInv PROVE HandedOnceInOrder
  <2>1. /\ DOMAIN handed \subseteq DOMAIN Out
        /\ \A i \in DOMAIN handed : Out[i] = handed[i]
    BY <1>1, HandedInOut DEF IInv
  <2> QED
    BY <1>1, <2>1 DEF IInv, Watermark, Ascending, HandedOnceInOrder
<1> QED
  BY SpecIInv, <1>1, PTL

(* Whatever the stream's retention discards or a delivery skips between    *)
(* two messages handed over is covered by a SequenceGap; what an exception *)
(* in a living consumer takes is not, and is at most one fetch for each.   *)
THEOREM NothingSkippedInSilence == Spec => []LossesAreErrors
<1>1. ASSUME IInv PROVE LossesAreErrors
  <2> SUFFICES ASSUME crashes = 0, handed # <<>>, NEW s \in handed[1] .. client.seen
               PROVE  s \in ToSet(handed) \union ToSet(Taken) \union gaps \union cut
    BY <1>1 DEF LossesAreErrors, IInv, CutBounded
  <2>1. Out # <<>> /\ Out[1] = handed[1] /\ handed[1] # 0
    BY <1>1, FirstOfOut
  <2>2. s \in ToSet(Out) \union gaps \union cut \union {client.inHand}
    BY <1>1, <2>1 DEF IInv, Watermark, Accounted
  <2>3. s # 0
    <3>1. handed[1] \in Nat \ {0} /\ client.seen \in Nat
      <4>1. 1 \in DOMAIN Out
        BY <1>1, <2>1, OutNotEmpty DEF IInv
      <4> QED
        BY <1>1, <2>1, <4>1, OutTyped, FieldsTyped DEF IInv
    <3> QED
      BY ONLY <3>1
  <2> QED
    BY <1>1, <2>2, <2>3, OutIsTaken
<1> QED
  BY SpecIInv, <1>1, PTL
=============================================================================
