-------------------------- MODULE LtSessionProofs --------------------------
(***************************************************************************)
(* Theorems about LtSession.tla, for every device, any number of requests  *)
(* it ignores, of things it does on its own accord and of changes of mind  *)
(* of the application: a session is a behaviour of the client, the time    *)
(* signal comes along with the value signal, and in a calm session the two *)
(* ends agree.                                                             *)
(***************************************************************************)
EXTENDS LtSession, WsStreamingProofs

-----------------------------------------------------------------------------
(* Queues of messages.                                                     *)

\* Some message of q is one of M.
Has(q, M) == \E i \in DOMAIN q : q[i] \in M

\* No message of B comes behind one of A.
NoneAfter(q, A, B) == \A i, j \in DOMAIN q : i < j /\ q[i] \in A => q[j] \notin B

\* In front of every message of B there is one of A.
Precedes(q, A, B) ==
  \A j \in DOMAIN q : q[j] \in B => \E i \in DOMAIN q : i < j /\ q[i] \in A

\* A queue and what is sent behind it.
LEMMA HasConcat ==
  ASSUME NEW S, NEW q \in Seq(S), NEW r \in Seq(S), NEW M
  PROVE  Has(q \o r, M) <=> Has(q, M) \/ Has(r, M)
<1>1. ASSUME NEW i \in DOMAIN r
      PROVE  i + Len(q) \in DOMAIN (q \o r) /\ (q \o r)[i + Len(q)] = r[i]
  BY <1>1
<1>2. ASSUME NEW i \in DOMAIN (q \o r), ~(i \in DOMAIN q)
      PROVE  i - Len(q) \in DOMAIN r /\ (q \o r)[i] = r[i - Len(q)]
  BY <1>2
<1>3. \A i \in DOMAIN q : i \in DOMAIN (q \o r) /\ (q \o r)[i] = q[i]
  OBVIOUS
<1> QED BY <1>1, <1>2, <1>3 DEF Has

\* The first message is read, the others remain.
LEMMA HasTail ==
  ASSUME NEW S, NEW q \in Seq(S), q # <<>>, NEW M
  PROVE  Has(q, M) <=> Head(q) \in M \/ Has(Tail(q), M)
<1>1. Tail(q) \in Seq(S) /\ Len(Tail(q)) = Len(q) - 1 /\ Len(q) \in Nat \ {0}
  OBVIOUS
<1>2. \A i \in DOMAIN Tail(q) : i + 1 \in DOMAIN q /\ Tail(q)[i] = q[i + 1]
  BY <1>1
<1>3. 1 \in DOMAIN q /\ q[1] = Head(q)
  BY <1>1
<1>4. ASSUME NEW i \in DOMAIN q, i # 1
      PROVE  i - 1 \in DOMAIN Tail(q) /\ Tail(q)[i - 1] = q[i]
  <2>1. i \in 2 .. Len(q) /\ (i - 1) + 1 = i
    BY <1>1, <1>4
  <2>2. i - 1 \in DOMAIN Tail(q)
    BY <1>1, <2>1
  <2> QED BY <1>2, <2>1, <2>2
<1> QED BY <1>2, <1>3, <1>4 DEF Has

\* Queues of one message and of two.
LEMMA HasFew ==
  ASSUME NEW M, NEW a, NEW b
  PROVE  /\ ~Has(<<>>, M)
         /\ Has(<<a>>, M) <=> a \in M
         /\ Has(<<a, b>>, M) <=> a \in M \/ b \in M
BY DEF Has

\* Has is monotone.
LEMMA HasMore ==
  ASSUME NEW q, NEW M, NEW L \in SUBSET M, ~Has(q, M)
  PROVE  ~Has(q, L)
BY DEF Has

\* What is behind the first message.
LEMMA NoneAfterTail ==
  ASSUME NEW S, NEW q \in Seq(S), q # <<>>, NEW A, NEW B, NoneAfter(q, A, B)
  PROVE  NoneAfter(Tail(q), A, B) /\ (Head(q) \in A => ~Has(Tail(q), B))
<1>1. Len(Tail(q)) = Len(q) - 1 /\ Len(q) \in Nat \ {0}
  OBVIOUS
<1>2. \A i \in DOMAIN Tail(q) : i + 1 \in DOMAIN q /\ Tail(q)[i] = q[i + 1]
  BY <1>1
<1>3. 1 \in DOMAIN q /\ q[1] = Head(q)
  BY <1>1
<1>4. NoneAfter(Tail(q), A, B)
  <2> SUFFICES ASSUME NEW i \in DOMAIN Tail(q), NEW j \in DOMAIN Tail(q), i < j, Tail(q)[i] \in A
               PROVE  Tail(q)[j] \notin B
    BY DEF NoneAfter
  <2>1. i + 1 < j + 1
    BY <1>1
  <2> QED BY <1>2, <2>1 DEF NoneAfter
<1>5. ASSUME Head(q) \in A, NEW j \in DOMAIN Tail(q)
      PROVE  Tail(q)[j] \notin B
  <2>1. 1 < j + 1
    BY <1>1, <1>5
  <2> QED BY <1>2, <1>3, <1>5, <2>1 DEF NoneAfter
<1> QED BY <1>4, <1>5 DEF Has

LEMMA NoneAfterConcat ==
  ASSUME NEW S, NEW q \in Seq(S), NEW r \in Seq(S), NEW A, NEW B,
         NoneAfter(q, A, B), NoneAfter(r, A, B), Has(q, A) => ~Has(r, B)
  PROVE  NoneAfter(q \o r, A, B)
<1> SUFFICES ASSUME NEW i \in DOMAIN (q \o r), NEW j \in DOMAIN (q \o r), i < j,
                    (q \o r)[i] \in A
             PROVE  (q \o r)[j] \notin B
  BY DEF NoneAfter
<1>1. Len(q) \in Nat /\ i \in Nat /\ j \in Nat
  OBVIOUS
<1>2. \A k \in DOMAIN (q \o r) :
        \/ k \in DOMAIN q /\ (q \o r)[k] = q[k]
        \/ ~(k \in DOMAIN q) /\ k - Len(q) \in DOMAIN r /\ (q \o r)[k] = r[k - Len(q)]
  OBVIOUS
<1>3. CASE j \in DOMAIN q
  <2>1. i \in DOMAIN q
    BY <1>1, <1>3
  <2> QED BY <1>2, <1>3, <2>1 DEF NoneAfter
<1>4. CASE ~(j \in DOMAIN q) /\ i \in DOMAIN q
  BY <1>2, <1>4 DEF Has
<1>5. CASE ~(j \in DOMAIN q) /\ ~(i \in DOMAIN q)
  <2>1. i - Len(q) < j - Len(q)
    BY <1>1
  <2> QED BY <1>2, <1>5, <2>1 DEF NoneAfter
<1> QED BY <1>3, <1>4, <1>5

\* The first message has nothing in front of it.
LEMMA PrecedesTail ==
  ASSUME NEW S, NEW q \in Seq(S), q # <<>>, NEW A, NEW B, Precedes(q, A, B)
  PROVE  Head(q) \notin B /\ (Head(q) \notin A => Precedes(Tail(q), A, B))
<1>1. Len(Tail(q)) = Len(q) - 1 /\ Len(q) \in Nat \ {0}
  OBVIOUS
<1>2. \A i \in DOMAIN Tail(q) : i \in Nat /\ i + 1 \in DOMAIN q /\ Tail(q)[i] = q[i + 1]
  BY <1>1
<1>3. 1 \in DOMAIN q /\ q[1] = Head(q) /\ \A i \in DOMAIN q : i \in Nat /\ ~(i < 1)
  BY <1>1
<1>4. Head(q) \notin B
  BY <1>3 DEF Precedes
<1>5. ASSUME Head(q) \notin A, NEW j \in DOMAIN Tail(q), Tail(q)[j] \in B
      PROVE  \E i \in DOMAIN Tail(q) : i < j /\ Tail(q)[i] \in A
  <2>1. PICK k \in DOMAIN q : k < j + 1 /\ q[k] \in A
    BY <1>2, <1>5 DEF Precedes
  <2>2. k # 1 /\ k \in Nat /\ k >= 1
    BY <1>3, <1>5, <2>1
  <2>3. k - 1 \in DOMAIN Tail(q) /\ k - 1 < j /\ (k - 1) + 1 = k
    BY <1>1, <1>2, <2>1, <2>2
  <2> QED BY <1>2, <2>1, <2>3
<1> QED BY <1>4, <1>5 DEF Precedes

LEMMA PrecedesConcat ==
  ASSUME NEW S, NEW q \in Seq(S), NEW r \in Seq(S), NEW A, NEW B,
         Precedes(q, A, B), Precedes(r, A, B) \/ Has(q, A)
  PROVE  Precedes(q \o r, A, B)
<1> SUFFICES ASSUME NEW j \in DOMAIN (q \o r), (q \o r)[j] \in B
             PROVE  \E i \in DOMAIN (q \o r) : i < j /\ (q \o r)[i] \in A
  BY DEF Precedes
<1>1. /\ Len(q) \in Nat /\ j \in Nat
      /\ \A k \in DOMAIN q : k \in Nat /\ k <= Len(q) /\ k \in DOMAIN (q \o r) /\ (q \o r)[k] = q[k]
      /\ \A k \in DOMAIN r : /\ k \in Nat /\ k + Len(q) \in DOMAIN (q \o r)
                             /\ (q \o r)[k + Len(q)] = r[k]
  OBVIOUS
<1>2. \/ j \in DOMAIN q
      \/ j > Len(q) /\ j - Len(q) \in DOMAIN r /\ (q \o r)[j] = r[j - Len(q)]
  OBVIOUS
<1>3. CASE j \in DOMAIN q
  BY <1>1, <1>3 DEF Precedes
<1>4. CASE /\ j > Len(q) /\ j - Len(q) \in DOMAIN r /\ (q \o r)[j] = r[j - Len(q)]
           /\ Has(q, A)
  <2>1. PICK k \in DOMAIN q : q[k] \in A
    BY <1>4 DEF Has
  <2>2. k < j
    BY <1>1, <1>4
  <2> QED BY <1>1, <2>1, <2>2
<1>5. CASE /\ j > Len(q) /\ j - Len(q) \in DOMAIN r /\ (q \o r)[j] = r[j - Len(q)]
           /\ Precedes(r, A, B)
  <2>1. PICK k \in DOMAIN r : k < j - Len(q) /\ r[k] \in A
    BY <1>5 DEF Precedes
  <2>2. k + Len(q) < j
    BY <1>1, <2>1
  <2> QED BY <1>1, <2>1, <2>2
<1> QED BY <1>2, <1>3, <1>4, <1>5

\* Nothing has to be preceded by anything in a queue without it.
LEMMA NothingToPrecede ==
  ASSUME NEW q, NEW A, NEW B, ~Has(q, B)
  PROVE  Precedes(q, A, B) /\ NoneAfter(q, A, B)
BY DEF Precedes, NoneAfter, Has

-----------------------------------------------------------------------------
(* The invariants.                                                         *)

Begin == Msg("subscribe", Value)
End == Msg("unsubscribe", Value)
TimeBegins == Msg("subscribe", Time)
TimeOffered == Msg("available", Time)
Offered == Msg("available", Value)
TimeData == Msg("signal", Time)
ValueData == Msg("signal", Value)

Messages == {Begin, End, TimeBegins, TimeOffered, Offered, TimeData, ValueData}

\* Requests are about the value signal only; what the device sends.
SessionTypes ==
  /\ options \in Sessions
  /\ received \in Nat /\ impulses \in Nat
  /\ serving \in BOOLEAN /\ postponed \in BOOLEAN /\ late \in BOOLEAN
  /\ hidden \in {"Unknown", "Empty", "Received"}
  /\ toDevice \in Seq({Begin, End})
  /\ toClient \in Seq(Messages)

\* The client never does anything about the time signal but describe it.
TimeUntouched ==
  /\ phase = "Running"
  /\ fetch[Time] = "None" /\ wire[Time] = 0 /\ domain[Time] = NoDomain
  /\ wanted \subseteq {Value}
  /\ \A i \in DOMAIN requests : requests[i].signal = Value

\* The device has answered a subscription.
Answered == received > options.drops

\* The metadata of the time signal is there or waits for an entry.
TimeRemembered == Time \in described \/ (Time \notin known /\ hidden = "Received")

\* The messages that announce the time signal.
TimeInv ==
  /\ serving => Answered
  /\ Value \in described => domain[Value] = Time /\ Time \in known /\ Answered
  /\ Has(toClient, {ValueData}) => Answered
  /\ Time \in known \/ hidden # "Unknown" \/ Precedes(toClient, {TimeBegins}, {ValueData})
  /\ Answered => Time \in known \/ Has(toClient, {ValueData})
  /\ Answered /\ ~options.withholds => late \/ TimeRemembered \/ Has(toClient, {TimeData})
  /\ \/ Time \in described
     \/ /\ TimeRemembered \/ Precedes(toClient, {TimeData}, {TimeOffered})
        /\ Time \in known \/ Precedes(toClient, {ValueData}, {TimeOffered})

\* A subscription, or the end of one, has been sent and not been confirmed.
Starting == Has(toClient, {Begin}) \/ Has(toDevice, {Begin})
Ending == Has(toClient, {End}) \/ Has(toDevice, {End})

Wants == <<[kind |-> "Subscribe", signal |-> Value]>>
GivesUp == <<[kind |-> "Unsubscribe", signal |-> Value]>>

\* What is in flight in a calm session.
CalmQueues ==
  /\ toDevice \in {<<>>, <<Begin>>, <<End>>, <<End, Begin>>}
  /\ Has(toClient, {Begin, TimeData, ValueData}) \/ late => toDevice = <<>>
  /\ Has(toDevice, {End}) => ~Has(toClient, {End})
  /\ NoneAfter(toClient, {Begin, TimeData, ValueData}, {Begin, End})
  /\ NoneAfter(toClient, {End}, {End})
  /\ Value \notin known =>
       toClient = <<Offered>> /\ toDevice = <<>> /\ ~late /\ wire[Value] = 0 /\ share[Value] = 0
  /\ Value \in known => ~Has(toClient, {Offered})

\* What each end takes the subscription to be.
CalmEnds ==
  /\ share[Value] \in {0, 1} /\ wire[Value] \in {0, 1}
  /\ share[Value] = 1 => Value \in published
  /\ Starting => wire[Value] = 1
  /\ Ending /\ ~Starting => wire[Value] = 0
  /\ toDevice = <<>> /\ Answered => (serving <=> wire[Value] = 1)
  /\ Value \notin published => ~(Starting /\ Ending)
  /\ Value \in published /\ Starting => share[Value] = 1
  /\ Value \in published /\ ~Starting /\ ~Ending =>
       (Value \in subscribed <=> share[Value] = 1)
  /\ fetch[Value] = "Held" => ~Starting /\ ~Ending

\* What the application has asked for.
CalmRequests ==
  /\ requests \in {<<>>, Wants, GivesUp}
  /\ requests = <<>> => (Value \in wanted <=> share[Value] = 1)
  /\ requests = Wants =>
       /\ Value \in wanted /\ share[Value] = 0 /\ Value \in published \ subscribed
       /\ ~Starting
  /\ requests = GivesUp =>
       Value \notin wanted /\ share[Value] = 1 /\ Value \in subscribed /\ ~Starting /\ ~Ending
  /\ requests # <<>> => ~late /\ ~Has(toClient, {TimeData, ValueData})

CalmInv == Calm => CalmQueues /\ CalmEnds /\ CalmRequests

LinkInv == options.timely /\ Value \in published /\ ~options.withholds => parent[Value] = Time

\* A device that sends good metadata and withdraws nothing leaves a published
\* signal its descriptor.
DescribedInv == published \subseteq described

\* What holds of the client whatever the device does.
ClientInv == TypeInv /\ LinksInv /\ WireInv /\ SweepArmedWhilePending

SessionInv ==
  /\ ClientInv /\ SessionTypes /\ TimeUntouched /\ DescribedInv /\ TimeInv
  /\ CalmInv /\ LinkInv

-----------------------------------------------------------------------------
(* Signals and messages.                                                   *)

LEMMA SessionSignals ==
  /\ Signal = {Time, Value} /\ Time # Value /\ Time \notin NoSignal /\ Value \notin NoSignal
  /\ NoDomain \notin Signal /\ NoDomain # GonePublished
  /\ AppSignals = {Value} /\ BadMetadata = FALSE
  /\ \A s, d \in Signal : <<s, d>> \in References <=> s = Value /\ d = Time
<1>1. Signal = {Time, Value} /\ Time # Value
  BY SessionAssumption DEF Signal, Time, Value
<1>2. \A x \in Signal : x \notin NoSignal
  BY DomainAssumption
<1>3. NoDomain \in NoSignal /\ NoDomain # GonePublished
  BY DomainAssumption DEF NoSignal
<1>4. AppSignals = {Value} /\ BadMetadata = FALSE /\ References = {<<Value, Time>>}
  BY SessionAssumption, DeviceAssumption
<1> QED BY <1>1, <1>2, <1>3, <1>4

LEMMA SessionOptions ==
  ASSUME options \in Sessions
  PROVE  /\ options.drops \in Nat /\ options.impulses \in Nat
         /\ options.timeFirst \in BOOLEAN /\ options.withholds \in BOOLEAN
         /\ options.outOfOrder \in BOOLEAN /\ options.timely \in BOOLEAN
         /\ options.patient \in BOOLEAN
BY SessionAssumption

LEMMA MessagesDiffer ==
  /\ Begin \notin {End, TimeBegins, TimeOffered, Offered, TimeData, ValueData}
  /\ End \notin {Begin, TimeBegins, TimeOffered, Offered, TimeData, ValueData}
  /\ TimeBegins \notin {Begin, End, TimeOffered, Offered, TimeData, ValueData}
  /\ TimeOffered \notin {Begin, End, TimeBegins, Offered, TimeData, ValueData}
  /\ Offered \notin {Begin, End, TimeBegins, TimeOffered, TimeData, ValueData}
  /\ TimeData \notin {Begin, End, TimeBegins, TimeOffered, Offered, ValueData}
  /\ ValueData \notin {Begin, End, TimeBegins, TimeOffered, Offered, TimeData}
BY SessionSignals DEF Begin, End, TimeBegins, TimeOffered, Offered, TimeData, ValueData, Msg

\* sendValueSignalFamily() confirms two subscriptions, then sends metadata: that
\* of the value signal and, unless it withholds or delays it, of the time signal.
LEMMA FamilyForm ==
  ASSUME options \in Sessions, NEW delayed \in BOOLEAN
  PROVE  \E r \in Seq({TimeData, ValueData}) :
           /\ Family(delayed) = <<Begin, TimeBegins>> \o r
           /\ Has(r, {ValueData})
           /\ options.withholds \/ delayed \/ Has(r, {TimeData})
<1> DEFINE S == {TimeData, ValueData}
           v == <<ValueData>>
           t == TimeMetadata
           later == IF delayed THEN <<>> ELSE TimeMetadata
<1>1. v \in Seq(S) /\ <<TimeData>> \in Seq(S) /\ <<>> \in Seq(S)
  OBVIOUS
<1>2. Has(v, {ValueData}) /\ Has(<<TimeData>>, {TimeData})
  BY HasFew
<1>3. t \in Seq(S) /\ (options.withholds \/ Has(t, {TimeData}))
  BY <1>1, <1>2 DEF TimeMetadata, TimeData
<1>4. later \in Seq(S) /\ (options.withholds \/ delayed \/ Has(later, {TimeData}))
  BY <1>1, <1>3
<1>5. Family(delayed) = <<Begin, TimeBegins>> \o IF options.timeFirst THEN t \o v ELSE v \o later
  BY DEF Family, Begin, TimeBegins, ValueData
<1> HIDE DEF S, v, t, later
<1>6. t \o v \in Seq(S) /\ v \o later \in Seq(S)
  BY <1>1, <1>3, <1>4
<1>7. /\ Has(t \o v, {ValueData}) /\ Has(v \o later, {ValueData})
      /\ options.withholds \/ delayed \/ (Has(t \o v, {TimeData}) /\ Has(v \o later, {TimeData}))
  BY <1>1, <1>2, <1>3, <1>4, HasConcat
<1> QED BY <1>5, <1>6, <1>7 DEF S

\* What is in it, and in which order.
LEMMA FamilyOrder ==
  ASSUME options \in Sessions, NEW delayed \in BOOLEAN
  PROVE  LET f == Family(delayed)
         IN  /\ f \in Seq(Messages)
             /\ Has(f, {Begin}) /\ Has(f, {ValueData}) /\ ~Has(f, {End, Offered, TimeOffered})
             /\ options.withholds \/ delayed \/ Has(f, {TimeData})
             /\ Precedes(f, {TimeBegins}, {ValueData})
             /\ NoneAfter(f, {Begin, TimeData, ValueData}, {Begin, End})
<1> DEFINE q == <<Begin, TimeBegins>>
<1>1. PICK r \in Seq({TimeData, ValueData}) :
        /\ Family(delayed) = q \o r
        /\ Has(r, {ValueData})
        /\ options.withholds \/ delayed \/ Has(r, {TimeData})
  BY FamilyForm
<1>2. q \in Seq(Messages) /\ r \in Seq(Messages)
  <2>1. {TimeData, ValueData} \subseteq Messages /\ Begin \in Messages /\ TimeBegins \in Messages
    BY DEF Messages
  <2>2. \A x \in DOMAIN r : r[x] \in Messages
    BY <2>1
  <2> QED BY <2>1, <2>2
<1>3. ~Has(r, {Begin, End, Offered, TimeOffered})
  BY MessagesDiffer DEF Has
<1>4. ~Has(r, {End, Offered, TimeOffered}) /\ ~Has(r, {Begin, End})
  BY <1>3 DEF Has
<1>5. /\ Has(q, {Begin}) /\ Has(q, {TimeBegins}) /\ ~Has(q, {ValueData})
      /\ ~Has(q, {End, Offered, TimeOffered})
  BY HasFew, MessagesDiffer
<1>6. Precedes(q, {TimeBegins}, {ValueData}) /\ NoneAfter(r, {Begin, TimeData, ValueData}, {Begin, End})
  BY <1>4, <1>5, NothingToPrecede
<1>7. NoneAfter(q, {Begin, TimeData, ValueData}, {Begin, End})
  BY MessagesDiffer DEF NoneAfter
<1>8. q \o r \in Seq(Messages)
  BY <1>2
<1>9. /\ Has(q \o r, {Begin}) /\ Has(q \o r, {ValueData}) /\ ~Has(q \o r, {End, Offered, TimeOffered})
      /\ options.withholds \/ delayed \/ Has(q \o r, {TimeData})
  BY <1>1, <1>2, <1>4, <1>5, HasConcat
<1>10. Precedes(q \o r, {TimeBegins}, {ValueData})
  BY <1>2, <1>5, <1>6, PrecedesConcat
<1>11. NoneAfter(q \o r, {Begin, TimeData, ValueData}, {Begin, End})
  BY <1>2, <1>4, <1>6, <1>7, NoneAfterConcat
<1> HIDE DEF q
<1> QED BY <1>1, <1>8, <1>9, <1>10, <1>11

-----------------------------------------------------------------------------
(* The client of a session.                                                *)

LEMMA ClientInvInit == Init => ClientInv
<1> SUFFICES ASSUME Init PROVE ClientInv
  OBVIOUS
<1>1. TypeInv /\ LinksInv
  BY TypeInvInit, LinksInit
<1>2. WireInv /\ SweepArmedWhilePending
  BY DEF Init, WireInv, SweepArmedWhilePending, AnyPending
<1> QED BY <1>1, <1>2 DEF ClientInv

LEMMA ClientInvNext == ClientInv /\ [Next]_vars => ClientInv'
BY TypeInvNext, LinksStep, WireStep, TimerStep DEF ClientInv

\* The next message is read.
Reads(m) ==
  /\ toClient # <<>> /\ Head(toClient) = m
  /\ toClient' = Tail(toClient)
  /\ SendRequests
  /\ UNCHANGED <<deviceVars, switches>>

\* Each message is one of seven, and calls its handler.
LEMMA ReceiveForm ==
  ASSUME SessionTypes, Receive
  PROVE  \/ Reads(Offered) /\ hidden' = hidden /\ (AvailableKnown(Value) \/ AvailableFetch(Value))
         \/ Reads(TimeOffered) /\ hidden' = hidden /\ (AvailableKnown(Time) \/ AvailableFetch(Time))
         \/ Reads(Begin) /\ hidden' = hidden /\ RemoteSubscribed(Value)
         \/ Reads(TimeBegins) /\ hidden' = hidden /\ RemoteSubscribed(Time)
         \/ Reads(End) /\ hidden' = hidden /\ RemoteUnsubscribed(Value)
         \/ Reads(ValueData) /\ hidden' = hidden /\ ValueMetadata
         \/ Reads(TimeData) /\ hidden' = hidden /\ Metadata(Time, NoDomain)
         \/ Reads(TimeData) /\ Time \notin known /\ hidden' = "Received" /\ UNCHANGED vars
         \/ /\ Reads(TimeBegins) /\ Time \notin known /\ UNCHANGED vars
            /\ hidden' = IF hidden = "Unknown" THEN "Empty" ELSE hidden
<1> DEFINE m == Head(toClient)
<1>1. toClient # <<>> /\ m \in Messages
  BY DEF Receive, SessionTypes
<1>2. Reads(m) /\ (OnlyRemembered(m) \/ Handled(m))
  BY DEF Receive, Reads
<1>3. Time # Value
  BY SessionSignals
<1> HIDE DEF m
<1>4. CASE OnlyRemembered(m)
  <2>1. m \in {TimeBegins, TimeData}
    BY <1>1, <1>3, <1>4
       DEF OnlyRemembered, Messages, Begin, End, TimeBegins, TimeOffered, Offered, TimeData, ValueData, Msg
  <2> QED BY <1>2, <1>4, <2>1 DEF OnlyRemembered, TimeBegins, TimeData, Msg
<1>5. CASE Handled(m)
  BY <1>1, <1>2, <1>3, <1>5
     DEF Handled, Messages, Begin, End, TimeBegins, TimeOffered, Offered, TimeData, ValueData, Msg
<1> QED BY <1>2, <1>4, <1>5

\* The metadata of the value signal comes in one of three situations.
LEMMA ValueMetadataForm ==
  ASSUME ValueMetadata, Time \in known \/ hidden \in {"Empty", "Received"}
  PROVE  \/ Time \in known /\ Metadata(Value, Time)
         \/ Time \notin known /\ hidden = "Empty" /\ MetadataFindsHidden(Value, Time)
         \/ /\ Time \notin known /\ hidden = "Received"
            /\ MetadataFindsDescribed(Value, Time, NoDomain)
BY DEF ValueMetadata

\* Every step of a session is one of the client, or none.
LEMMA SessionStep ==
  ASSUME SessionTypes, [SessionNext]_sessionVars
  PROVE  [Next]_vars
<1>1. Value \in Signal /\ Time \in Signal
  BY SessionSignals
<1>2. CASE Receive
  <2>1. CASE ValueMetadata
    BY <1>1, <2>1 DEF ValueMetadata, Next, RemoteEvent
  <2>2. CASE UNCHANGED vars
    BY <2>2
  <2>3. CASE \E t \in Signal : \/ AvailableKnown(t) \/ AvailableFetch(t) \/ RemoteSubscribed(t)
                              \/ RemoteUnsubscribed(t) \/ Metadata(t, NoDomain)
    BY <2>3 DEF Next, RemoteEvent
  <2> QED BY <1>1, <1>2, <2>1, <2>2, <2>3, ReceiveForm
<1>3. CASE DeviceServes \/ DeviceSendsTime \/ DeviceActs \/ Rest \/ UNCHANGED sessionVars
  BY <1>3 DEF DeviceServes, DeviceSendsTime, DeviceActs, Rest, sessionVars
<1>4. CASE ClientTimer \/ ClientServes \/ ApplicationAsks
  BY <1>4 DEF ClientTimer, ClientServes, ApplicationAsks, Next
<1> QED BY <1>2, <1>3, <1>4 DEF SessionNext

-----------------------------------------------------------------------------
(* What the handlers do to the value signal.                               *)

\* A metadata handler publishes `new`.
MetadataPublishes(new) ==
  /\ new \subseteq described' \ published /\ published' = published \cup new
  /\ \A t \in Signal : fetch'[t] = IF t \in new THEN FetchOncePublished(fetch[t]) ELSE fetch[t]
  /\ \A t \in Signal : parent'[t] = IF t \in new THEN domain'[t] ELSE parent[t]
  /\ UNCHANGED <<subscribed, appVars, wireVars>>

LEMMA MetadataView ==
  ASSUME ClientInv, NEW s \in Signal, NEW b \in Signal, NEW d \in Signal \cup {NoDomain},
         Metadata(s, d) \/ MetadataFindsHidden(s, b) \/ MetadataFindsDescribed(s, b, d)
  PROVE  \E new : MetadataPublishes(new)
<1>1. TypeInv /\ LinksInv
  BY DEF ClientInv
<1>2. PICK desc, dom, first : MetadataOf(s, desc, dom, first)
  BY <1>1, MetadataForm
<1> DEFINE new == NewWith(s, desc, dom, first)
<1>3. /\ new \subseteq desc /\ new \cap published = {}
      /\ described' = desc /\ published' = published \cup new
      /\ parent' = [t \in Signal |-> IF t \in new THEN ParentOf(dom[t], published \cup new)
                                                  ELSE parent[t]]
      /\ fetch' = [t \in Signal |-> IF t \in new THEN FetchOncePublished(fetch[t]) ELSE fetch[t]]
      /\ UNCHANGED <<subscribed, appVars, wireVars>>
  BY <1>1, <1>2, MetadataEffects
<1>4. \A t \in new : parent'[t] = domain'[t]
  BY <1>1, <1>2, MetadataLinks
<1> HIDE DEF new
<1>5. MetadataPublishes(new)
  BY <1>3, <1>4 DEF MetadataPublishes
<1> QED BY <1>5

\* The metadata of the value signal: it names the time signal, which gets an
\* entry and, if its metadata is remembered, a descriptor.
LEMMA ValueMetadataView ==
  ASSUME ClientInv, TimeUntouched, ValueMetadata, Time \in known \/ hidden \in {"Empty", "Received"}
  PROVE  /\ Value \in known /\ known' = known \cup {Time}
         /\ described' = described \cup {Value} \cup (IF TimeRemembered THEN {Time} ELSE {})
         /\ domain'[Value] = Time /\ domain'[Time] = NoDomain
         /\ \E new : MetadataPublishes(new)
<1>1. /\ described \subseteq known /\ Time \in Signal /\ Value \in Signal /\ Time # Value
      /\ NoDomain \in Signal \cup {NoDomain}
      /\ domain[Time] = NoDomain /\ domain \in [Signal -> Signal \cup NoSignal]
  BY SessionSignals DEF ClientInv, TypeInv, TypeOK, TimeUntouched
<1>2. CASE Time \in known /\ Metadata(Value, Time)
  <2>1. /\ Value \in known /\ known' = known /\ described' = described \cup {Value}
        /\ domain' = [domain EXCEPT ![Value] = Time]
    BY <1>2 DEF Metadata, Described
  <2>2. \E new : MetadataPublishes(new)
    BY <1>1, <1>2, MetadataView
  <2> QED BY <1>1, <1>2, <2>1, <2>2 DEF TimeRemembered
<1>3. CASE Time \notin known /\ hidden = "Empty" /\ MetadataFindsHidden(Value, Time)
  <2>1. /\ Value \in known /\ known' = known \cup {Time} /\ described' = described \cup {Value}
        /\ domain' = [domain EXCEPT ![Value] = Time]
    BY <1>3 DEF MetadataFindsHidden, Described
  <2>2. \E new : MetadataPublishes(new)
    BY <1>1, <1>3, MetadataView
  <2> QED BY <1>1, <1>3, <2>1, <2>2 DEF TimeRemembered
<1>4. CASE /\ Time \notin known /\ hidden = "Received"
           /\ MetadataFindsDescribed(Value, Time, NoDomain)
  <2>1. /\ Value \in known /\ known' = known \cup {Time} /\ described' = described \cup {Value, Time}
        /\ domain' = [domain EXCEPT ![Value] = Time, ![Time] = NoDomain]
    BY <1>4 DEF MetadataFindsDescribed, Described
  <2>2. \E new : MetadataPublishes(new)
    BY <1>1, <1>4, MetadataView
  <2> QED BY <1>1, <1>4, <2>1, <2>2 DEF TimeRemembered
<1> QED BY <1>2, <1>3, <1>4, ValueMetadataForm

\* The metadata of the time signal.
LEMMA TimeMetadataView ==
  ASSUME ClientInv, TimeUntouched, Metadata(Time, NoDomain)
  PROVE  /\ Time \in known /\ known' = known /\ described' = described \cup {Time}
         /\ domain'[Value] = domain[Value] /\ domain'[Time] = NoDomain
         /\ \E new : MetadataPublishes(new)
<1>1. /\ Time \in Signal /\ Value \in Signal /\ Time # Value /\ NoDomain \in Signal \cup {NoDomain}
      /\ domain \in [Signal -> Signal \cup NoSignal]
  BY SessionSignals DEF ClientInv, TypeInv, TypeOK
<1>2. /\ Time \in known /\ known' = known /\ described' = described \cup {Time}
      /\ domain' = [domain EXCEPT ![Time] = NoDomain]
  BY DEF Metadata, Described
<1>3. \E new : MetadataPublishes(new)
  BY <1>1, MetadataView
<1> QED BY <1>1, <1>2, <1>3

\* The sweep: it publishes `new`, and gives back the subscription of a signal
\* that is silent or held.
SweepTakes(s) ==
  \/ /\ s \notin described \cup published /\ fetch[s] = "Fetching"
     /\ fetch'[s] \in {"AwaitingRetry", "None"}
  \/ s \in published /\ fetch[s] = "Held" /\ fetch'[s] = "None"

LEMMA SweepView ==
  ASSUME ClientInv, InitialFetchSweep
  PROVE  \E new : /\ new \subseteq described \ published /\ published' = published \cup new
                  /\ \A s \in Signal :
                       \/ s \in new /\ fetch'[s] = FetchOncePublished(fetch[s]) /\ wire'[s] = wire[s]
                       \/ s \notin new /\ SweepTakes(s) /\ wire'[s] = wire[s] - 1
                       \/ s \notin new /\ fetch'[s] = fetch[s] /\ wire'[s] = wire[s]
                  /\ \A s \in Signal \ new : parent'[s] = parent[s]
                  /\ UNCHANGED <<known, described, domain, subscribed, appVars, share>>
<1> DEFINE expired == {t \in Deferred : WaitEnds(sweeps[t])}
           new == Reached(expired, domain, Deferred)
           Later(s) == \E x \in expired : x < s /\ s \in Reached({x}, domain, Deferred)
           roots == {x \in expired : ~Later(x)}
           released == {t \in published : fetch[t] = "Held" /\ WaitEnds(sweeps[t])}
           silent == {t \in known : /\ t \notin published /\ t \notin described
                                    /\ fetch[t] = "Fetching"}
           retried == {t \in silent : MayRetry(attempts[t])}
<1>1. new \cap published = {} /\ new \subseteq described /\ expired \subseteq new
  <2>1. TypeOK /\ Deferred \in SUBSET Signal
    BY DEF ClientInv, TypeInv, TypeOK, Deferred
  <2> QED BY <2>1, SweepPublishes, ReachedContains
<1>2. /\ fetch' = [t \in Signal |->
           CASE t \in new -> FetchOncePublished(fetch[t])
             [] t \in retried -> "AwaitingRetry"
             [] t \in (silent \ retried) \cup released -> "None"
             [] OTHER -> fetch[t]]
      /\ wire' = [t \in Signal |->
           IF t \in silent \cup released THEN wire[t] - 1 ELSE wire[t]]
      /\ parent' = [t \in Signal |->
           CASE t \in roots -> ParentOf(domain[t], published)
             [] t \in new \ roots -> domain[t]
             [] OTHER -> parent[t]]
      /\ published' = published \cup new
      /\ UNCHANGED <<known, described, domain, subscribed, appVars, share>>
  BY DEF InitialFetchSweep
<1> HIDE DEF new
<1>3. roots \subseteq new
  BY <1>1
<1> HIDE DEF roots
<1>4. ASSUME NEW s \in Signal
      PROVE  \/ s \in new /\ fetch'[s] = FetchOncePublished(fetch[s]) /\ wire'[s] = wire[s]
             \/ s \notin new /\ SweepTakes(s) /\ wire'[s] = wire[s] - 1
             \/ s \notin new /\ fetch'[s] = fetch[s] /\ wire'[s] = wire[s]
  <2>1. CASE s \in new
    <3>1. s \notin silent \cup released
      BY <1>1, <2>1
    <3> QED BY <1>2, <2>1, <3>1
  <2>2. CASE s \notin new /\ s \in silent
    <3>1. s \notin released
      BY <2>2
    <3>2. fetch'[s] \in {"AwaitingRetry", "None"}
      BY <1>2, <2>2
    <3> QED BY <1>2, <2>2, <3>1, <3>2 DEF SweepTakes
  <2>3. CASE s \notin new /\ s \in released
    BY <1>2, <2>3 DEF SweepTakes
  <2>4. CASE s \notin new \cup silent \cup released
    BY <1>2, <2>4
  <2> QED BY <2>1, <2>2, <2>3, <2>4
<1>5. \A s \in Signal \ new : parent'[s] = parent[s]
  BY <1>2, <1>3
<1> QED BY <1>1, <1>2, <1>4, <1>5

\* A retry.
LEMMA ResubscribeView ==
  ASSUME ClientInv, InitialFetchResubscribe
  PROVE  /\ \A s \in Signal :
              \/ s \in known /\ RetryDue(s) /\ fetch'[s] = "Fetching" /\ wire'[s] = wire[s] + 1
              \/ fetch'[s] = fetch[s] /\ wire'[s] = wire[s]
         /\ UNCHANGED <<known, described, domain, published, parent, subscribed, appVars, share>>
BY DEF InitialFetchResubscribe

-----------------------------------------------------------------------------
(* The time signal is never subscribed.                                    *)

\* A message that is read was behind no other.
LEMMA TimeOfferedLate ==
  ASSUME SessionTypes, TimeInv, Reads(TimeOffered)
  PROVE  Time \in described
<1>1. toClient \in Seq(Messages) /\ toClient # <<>> /\ Head(toClient) \in {TimeOffered}
  BY DEF SessionTypes, Reads
<1>2. ~Precedes(toClient, {TimeData}, {TimeOffered}) /\ ~Precedes(toClient, {ValueData}, {TimeOffered})
  BY <1>1, PrecedesTail
<1> QED BY <1>2 DEF TimeInv, TimeRemembered

LEMMA TimeUntouchedStep ==
  ASSUME SessionInv, [SessionNext]_sessionVars
  PROVE  TimeUntouched'
<1>1. /\ Time \in Signal /\ Value \in Signal /\ Time # Value /\ AppSignals = {Value}
      /\ Signal = {Time, Value}
  BY SessionSignals
<1>2. /\ ClientInv /\ SessionTypes /\ TimeUntouched /\ TimeInv
      /\ fetch \in [Signal -> FetchState] /\ wire \in [Signal -> Int] /\ requests \in Seq(Request)
  BY DEF SessionInv, ClientInv, TypeInv, TypeOK
<1> USE DEF TimeUntouched
<1>3. ASSUME UNCHANGED vars
      PROVE  TimeUntouched'
  BY <1>2, <1>3 DEF vars, entryVars, appVars, wireVars
<1>4. ASSUME Receive
      PROVE  TimeUntouched'
  <2>1. CASE AvailableFetch(Value) \/ AvailableKnown(Value) \/ AvailableKnown(Time)
    BY <1>1, <1>2, <2>1 DEF AvailableFetch, AvailableKnown, entryVars, appVars, wireVars
  <2>2. CASE Reads(TimeOffered) /\ AvailableFetch(Time)
    BY <1>2, <2>2, TimeOfferedLate DEF AvailableFetch, NeedsFetch
  <2>3. CASE RemoteSubscribed(Value) \/ RemoteSubscribed(Time) \/ RemoteUnsubscribed(Value)
    BY <1>1, <1>2, <2>3 DEF RemoteSubscribed, RemoteUnsubscribed, EndsHold, appVars, wireVars
  <2>4. ASSUME domain'[Time] = NoDomain, NEW new, MetadataPublishes(new)
        PROVE  TimeUntouched'
    BY <1>1, <1>2, <2>4 DEF MetadataPublishes, FetchOncePublished, appVars, wireVars
  <2>5. CASE Reads(ValueData) /\ ValueMetadata
    <3>1. Head(toClient) \in {ValueData} /\ toClient \in Seq(Messages) /\ toClient # <<>>
      BY <1>2, <2>5 DEF Reads, SessionTypes
    <3>2. ~Precedes(toClient, {TimeBegins}, {ValueData})
      BY <3>1, PrecedesTail
    <3>3. Time \in known \/ hidden \in {"Empty", "Received"}
      BY <1>2, <3>2 DEF TimeInv, SessionTypes
    <3> QED BY <1>2, <2>4, <2>5, <3>3, ValueMetadataView
  <2>6. CASE Metadata(Time, NoDomain)
    BY <1>2, <2>4, <2>6, TimeMetadataView
  <2>7. CASE UNCHANGED vars
    BY <1>3, <2>7
  <2> QED BY <1>2, <1>4, <2>1, <2>2, <2>3, <2>5, <2>6, <2>7, ReceiveForm
<1>5. CASE DeviceServes \/ DeviceSendsTime \/ DeviceActs \/ Rest \/ UNCHANGED sessionVars
  BY <1>3, <1>5 DEF DeviceServes, DeviceSendsTime, DeviceActs, Rest, sessionVars
<1>6. CASE ClientTimer
  <2>1. CASE InitialFetchSweep
    <3>1. UNCHANGED <<domain, appVars>>
      BY <1>2, <2>1, SweepView
    <3>2. fetch'[Time] = "None" /\ wire'[Time] = 0
      BY <1>1, <1>2, <2>1, SweepView DEF SweepTakes, FetchOncePublished
    <3> QED BY <1>2, <3>1, <3>2 DEF appVars
  <2>2. CASE InitialFetchResubscribe
    BY <1>1, <1>2, <2>2, ResubscribeView DEF RetryDue, appVars
  <2> QED BY <1>6, <2>1, <2>2 DEF ClientTimer, TimerEvent
<1>7. CASE ClientServes
  <2>1. PICK t \in Signal : \/ SubscribeRefused(t) \/ SubscribeTakesOver(t) \/ SubscribeSent(t)
                            \/ UnsubscribeServed(t)
    BY <1>7 DEF ClientServes, ServeRequest
  <2>2. \E kind : Serving(kind, t)
    BY <2>1 DEF SubscribeRefused, SubscribeTakesOver, SubscribeSent, UnsubscribeServed
  <2>3. /\ requests # <<>> /\ Head(requests).signal = t /\ requests' = Tail(requests)
        /\ UNCHANGED <<domain, wanted, phase>>
    BY <2>2 DEF Serving
  <2>4. t = Value
    BY <1>2, <2>3
  <2>5. \A i \in DOMAIN requests' : requests'[i].signal = Value
    <3>1. \A i \in DOMAIN Tail(requests) : i + 1 \in DOMAIN requests /\ Tail(requests)[i] = requests[i + 1]
      BY <1>2, <2>3
    <3> QED BY <1>2, <2>3, <3>1
  <2>6. fetch'[Time] = fetch[Time] /\ wire'[Time] = wire[Time]
    BY <1>1, <1>2, <2>1, <2>4
       DEF SubscribeRefused, SubscribeTakesOver, SubscribeSent, UnsubscribeServed, wireVars
  <2> QED BY <1>2, <2>3, <2>5, <2>6
<1>8. CASE ApplicationAsks
  <2>1. PICK t \in Signal : AskSubscribe(t) \/ AskUnsubscribe(t)
    BY <1>8 DEF ApplicationAsks, Application
  <2>2. t = Value
    BY <1>1, <1>2, <2>1 DEF AskSubscribe, AskUnsubscribe
  <2>3. PICK kind : requests' = Append(requests, [kind |-> kind, signal |-> t])
    BY <2>1 DEF AskSubscribe, AskUnsubscribe
  <2>4. \A i \in DOMAIN requests' : requests'[i].signal = Value
    BY <1>2, <2>2, <2>3
  <2> QED BY <1>2, <2>1, <2>2, <2>4 DEF AskSubscribe, AskUnsubscribe, entryVars, wireVars
<1> QED BY <1>4, <1>5, <1>6, <1>7, <1>8 DEF SessionNext

\* So only the value signal is ever asked of the device.
LEMMA RequestsForValue ==
  ASSUME ClientInv, SessionTypes, TimeUntouched, TimeUntouched', SendRequests
  PROVE  /\ toDevice' = toDevice \o RequestsFor(Value)
         /\ RequestsFor(Value) = CASE wire[Value] <= 0 /\ wire'[Value] > 0 -> <<Begin>>
                                   [] wire[Value] > 0 /\ wire'[Value] <= 0 -> <<End>>
                                   [] OTHER -> <<>>
<1>1. RequestsFor(Time) = <<>>
  BY DEF RequestsFor, TimeUntouched
<1>2. toDevice \o <<>> = toDevice
  BY DEF SessionTypes
<1> QED BY <1>1, <1>2 DEF SendRequests, RequestsFor, Begin, End

LEMMA SessionTypesStep ==
  ASSUME SessionInv, [SessionNext]_sessionVars, TimeUntouched'
  PROVE  SessionTypes'
<1>1. ClientInv /\ SessionTypes /\ TimeUntouched
  BY DEF SessionInv
<1>2. RequestsFor(Value) \in {<<>>, <<Begin>>, <<End>>}
  BY DEF RequestsFor, Begin, End
<1> USE DEF SessionTypes
<1>3. ASSUME SendRequests PROVE toDevice' \in Seq({Begin, End})
  <2>1. RequestsFor(Value) \in Seq({Begin, End})
    <3>1. <<>> \in Seq({Begin, End}) /\ <<Begin>> \in Seq({Begin, End}) /\ <<End>> \in Seq({Begin, End})
      OBVIOUS
    <3> QED BY <1>2, <3>1
  <2> HIDE DEF SessionTypes
  <2>2. toDevice' = toDevice \o RequestsFor(Value)
    BY <1>1, <1>3, RequestsForValue
  <2> QED BY <1>1, <2>1, <2>2 DEF SessionTypes
<1>4. Begin \in Messages /\ End \in Messages /\ TimeData \in Messages /\ TimeOffered \in Messages
  BY DEF Messages
<1>5. CASE Receive
  <2>1. toClient' \in Seq(Messages) /\ UNCHANGED <<deviceVars, switches>>
    BY <1>1, <1>5 DEF Receive
  <2>2. hidden' \in {"Unknown", "Empty", "Received"}
    <3> HIDE DEF SessionTypes
    <3> QED BY <1>1, <1>5, ReceiveForm DEF SessionTypes
  <2>3. toDevice' \in Seq({Begin, End})
    BY <1>3, <1>5 DEF Receive
  <2> QED BY <1>1, <2>1, <2>2, <2>3 DEF deviceVars
<1>6. CASE DeviceServes
  <2> DEFINE m == Head(toDevice)
  <2>1. toDevice' \in Seq({Begin, End}) /\ UNCHANGED <<hidden, options, impulses>> /\ received' \in Nat
    BY <1>1, <1>6, SessionOptions DEF DeviceServes
  <2>2. <<End>> \in Seq(Messages) /\ <<>> \in Seq(Messages)
    BY <1>4
  <2>3. \/ DropsSubscribe(m) \/ RejectsSubscribe(m) \/ AnswersSubscribe(m)
        \/ PostponesUnsubscribe(m) \/ AnswersUnsubscribe(m) \/ IgnoresTime(m)
    BY <1>6 DEF DeviceServes
  <2> HIDE DEF m
  <2>4. CASE DropsSubscribe(m) \/ PostponesUnsubscribe(m) \/ IgnoresTime(m)
    BY <1>1, <2>1, <2>4 DEF DropsSubscribe, PostponesUnsubscribe, IgnoresTime
  <2>5. CASE RejectsSubscribe(m)
    <3>1. toClient' \in Seq(Messages)
      BY <1>1, <2>2, <2>5 DEF RejectsSubscribe, Sends, Unsubscribed, End
    <3> QED BY <1>1, <2>1, <2>5, <3>1 DEF RejectsSubscribe
  <2>6. CASE AnswersSubscribe(m)
    <3>1. PICK delayed \in BOOLEAN : toClient' = toClient \o Family(delayed) /\ late' = (late \/ delayed)
      BY <2>6 DEF AnswersSubscribe, Sends
    <3>2. Family(delayed) \in Seq(Messages)
      BY <1>1, FamilyOrder
    <3>3. toClient' \in Seq(Messages)
      BY <1>1, <3>1, <3>2
    <3> QED BY <1>1, <2>1, <2>6, <3>1, <3>3 DEF AnswersSubscribe
  <2>7. CASE AnswersUnsubscribe(m)
    <3>1. toClient' \in Seq(Messages)
      BY <1>1, <2>2, <2>7 DEF AnswersUnsubscribe, Sends, Unsubscribed, End
    <3> QED BY <1>1, <2>1, <2>7, <3>1 DEF AnswersUnsubscribe
  <2> QED BY <2>3, <2>4, <2>5, <2>6, <2>7
<1>7. CASE DeviceSendsTime
  <2>1. toClient' = toClient \o <<TimeData>> /\ <<TimeData>> \in Seq(Messages)
    BY <1>4, <1>7 DEF DeviceSendsTime, Sends, TimeData
  <2>2. toClient' \in Seq(Messages)
    BY <1>1, <2>1
  <2> QED BY <1>1, <1>7, <2>2 DEF DeviceSendsTime
<1>8. CASE DeviceActs
  <2>1. PICK m \in {End, TimeOffered} : toClient' = toClient \o <<m>>
    BY <1>8 DEF DeviceActs, DeviceUnsubscribes, DeviceAdvertisesTime, Sends, Unsubscribed, End, TimeOffered
  <2>2. toClient' \in Seq(Messages)
    BY <1>1, <1>4, <2>1
  <2>3. serving' \in BOOLEAN /\ UNCHANGED <<postponed, late>>
    BY <1>1, <1>8 DEF DeviceActs, DeviceUnsubscribes, DeviceAdvertisesTime
  <2>4. impulses' = impulses + 1 /\ UNCHANGED <<toDevice, options, received, hidden>>
    BY <1>8 DEF DeviceActs
  <2> QED BY <1>1, <2>2, <2>3, <2>4
<1>9. CASE ClientTimer \/ ClientServes
  <2>1. toDevice' \in Seq({Begin, End}) /\ UNCHANGED <<toClient, deviceVars, hidden, switches>>
    BY <1>3, <1>9 DEF ClientTimer, ClientServes
  <2> QED BY <1>1, <2>1 DEF deviceVars
<1>10. CASE ApplicationAsks \/ Rest \/ UNCHANGED sessionVars
  BY <1>1, <1>10 DEF ApplicationAsks, Rest, sessionVars, deviceVars
<1> QED BY <1>5, <1>6, <1>7, <1>8, <1>9, <1>10 DEF SessionNext

-----------------------------------------------------------------------------
(* The messages that announce the time signal.                             *)

LEMMA ReadFacts ==
  ASSUME SessionTypes, NEW m, Reads(m)
  PROVE  /\ \A M : Has(toClient, M) <=> m \in M \/ Has(toClient', M)
         /\ \A A, B : Precedes(toClient, A, B) =>
              m \notin B /\ (m \notin A => Precedes(toClient', A, B))
         /\ \A A, B : NoneAfter(toClient, A, B) =>
              NoneAfter(toClient', A, B) /\ (m \in A => ~Has(toClient', B))
<1>1. /\ toClient \in Seq(Messages) /\ toClient # <<>> /\ Head(toClient) = m
      /\ toClient' = Tail(toClient)
  BY DEF SessionTypes, Reads
<1> QED BY <1>1, HasTail, PrecedesTail, NoneAfterTail

LEMMA SendFacts ==
  ASSUME SessionTypes, NEW r \in Seq(Messages), toClient' = toClient \o r
  PROVE  /\ \A M : Has(toClient', M) <=> Has(toClient, M) \/ Has(r, M)
         /\ \A A, B : Precedes(toClient, A, B) /\ (Precedes(r, A, B) \/ Has(toClient, A)) =>
              Precedes(toClient', A, B)
         /\ \A A, B : /\ NoneAfter(toClient, A, B) /\ NoneAfter(r, A, B)
                      /\ Has(toClient, A) => ~Has(r, B)
                      => NoneAfter(toClient', A, B)
<1>1. toClient \in Seq(Messages)
  BY DEF SessionTypes
<1> QED BY <1>1, HasConcat, PrecedesConcat, NoneAfterConcat

LEMMA OneMessage ==
  /\ <<>> \in Seq(Messages) /\ \A M : ~Has(<<>>, M)
  /\ \A m \in Messages : <<m>> \in Seq(Messages) /\ \A M : Has(<<m>>, M) <=> m \in M
<1>1. ASSUME NEW m \in Messages, NEW M
      PROVE  <<m>> \in Seq(Messages) /\ (Has(<<m>>, M) <=> m \in M)
  <2>1. <<m>> \in Seq(Messages)
    OBVIOUS
  <2> QED BY <2>1, HasFew
<1>2. ASSUME NEW M PROVE ~Has(<<>>, M)
  BY HasFew
<1> QED BY <1>1, <1>2

LEMMA MessagesAre ==
  /\ Begin \in Messages /\ End \in Messages /\ TimeBegins \in Messages /\ TimeOffered \in Messages
  /\ Offered \in Messages /\ TimeData \in Messages /\ ValueData \in Messages
BY DEF Messages

\* The value signal is described with the time signal as its domain: its
\* metadata comes behind a message that makes the time signal known.
LEMMA TimeKnownInTime ==
  ASSUME SessionTypes, TimeInv, Reads(ValueData)
  PROVE  Time \in known \/ hidden \in {"Empty", "Received"}
<1>1. ~Precedes(toClient, {TimeBegins}, {ValueData})
  BY ReadFacts
<1> QED BY <1>1 DEF TimeInv, SessionTypes

LEMMA TimeInvReceives ==
  ASSUME SessionInv, Receive
  PROVE  TimeInv'
<1>1. ClientInv /\ SessionTypes /\ TimeUntouched /\ TimeInv /\ Time # Value
      /\ described \subseteq known
  BY SessionSignals DEF SessionInv, ClientInv, TypeInv, TypeOK
<1>2. UNCHANGED <<options, received, serving, late>>
  BY DEF Receive, deviceVars
<1>3. ASSUME NEW m, Reads(m)
      PROVE  /\ Has(toClient, {ValueData}) <=> m = ValueData \/ Has(toClient', {ValueData})
             /\ Has(toClient, {TimeData}) <=> m = TimeData \/ Has(toClient', {TimeData})
             /\ Precedes(toClient, {TimeBegins}, {ValueData}) =>
                  m # ValueData /\ (m # TimeBegins => Precedes(toClient', {TimeBegins}, {ValueData}))
             /\ Precedes(toClient, {TimeData}, {TimeOffered}) =>
                  m # TimeOffered /\ (m # TimeData => Precedes(toClient', {TimeData}, {TimeOffered}))
             /\ Precedes(toClient, {ValueData}, {TimeOffered}) =>
                  m # TimeOffered /\ (m # ValueData => Precedes(toClient', {ValueData}, {TimeOffered}))
  BY <1>1, <1>3, ReadFacts
<1> USE DEF TimeInv, TimeRemembered, Answered
<1>4. CASE Reads(Offered) /\ hidden' = hidden /\ (AvailableKnown(Value) \/ AvailableFetch(Value))
  <2>1. UNCHANGED <<described, domain>> /\ known' \in {known, known \cup {Value}}
    BY <1>4 DEF AvailableKnown, AvailableFetch, entryVars
  <2> QED BY <1>1, <1>2, <1>3, <1>4, <2>1, MessagesDiffer
<1>5. CASE Reads(TimeOffered) /\ hidden' = hidden /\ (AvailableKnown(Time) \/ AvailableFetch(Time))
  <2>1. Time \in described
    BY <1>1, <1>5, TimeOfferedLate
  <2>2. UNCHANGED <<described, domain, known>>
    BY <1>5, <2>1 DEF AvailableKnown, AvailableFetch, NeedsFetch, entryVars
  <2> QED BY <1>1, <1>2, <1>3, <1>5, <2>1, <2>2, MessagesDiffer
<1>6. CASE /\ hidden' = hidden
           /\ \/ Reads(Begin) /\ RemoteSubscribed(Value)
              \/ Reads(End) /\ RemoteUnsubscribed(Value)
  <2>1. UNCHANGED <<described, domain, known>>
    BY <1>6 DEF RemoteSubscribed, RemoteUnsubscribed
  <2> QED BY <1>1, <1>2, <1>3, <1>6, <2>1, MessagesDiffer
<1>7. CASE Reads(TimeBegins) /\ hidden' = hidden /\ RemoteSubscribed(Time)
  <2>1. UNCHANGED <<described, domain, known>> /\ Time \in known
    BY <1>7 DEF RemoteSubscribed
  <2> QED BY <1>1, <1>2, <1>3, <1>7, <2>1, MessagesDiffer
<1>8. CASE Reads(ValueData) /\ hidden' = hidden /\ ValueMetadata
  <2>1. /\ known' = known \cup {Time} /\ domain'[Value] = Time
        /\ described' = described \cup {Value} \cup (IF TimeRemembered THEN {Time} ELSE {})
    BY <1>1, <1>8, TimeKnownInTime, ValueMetadataView
  <2> QED BY <1>1, <1>2, <1>3, <1>8, <2>1, MessagesDiffer
<1>9. CASE Reads(TimeData) /\ hidden' = hidden /\ Metadata(Time, NoDomain)
  <2>1. /\ known' = known /\ described' = described \cup {Time} /\ domain'[Value] = domain[Value]
        /\ Time \in known
    BY <1>1, <1>9, TimeMetadataView
  <2> QED BY <1>1, <1>2, <1>3, <1>9, <2>1, MessagesDiffer
<1>10. CASE Reads(TimeData) /\ Time \notin known /\ hidden' = "Received" /\ UNCHANGED vars
  BY <1>1, <1>2, <1>3, <1>10, MessagesDiffer DEF vars, entryVars
<1>11. CASE /\ Reads(TimeBegins) /\ Time \notin known /\ UNCHANGED vars
            /\ hidden' = IF hidden = "Unknown" THEN "Empty" ELSE hidden
  BY <1>1, <1>2, <1>3, <1>11, MessagesDiffer DEF vars, entryVars
<1> QED BY <1>1, <1>4, <1>5, <1>6, <1>7, <1>8, <1>9, <1>10, <1>11, ReceiveForm

LEMMA TimeInvStep ==
  ASSUME SessionInv, [SessionNext]_sessionVars
  PROVE  TimeInv'
<1>1. /\ ClientInv /\ SessionTypes /\ TimeUntouched /\ TimeInv
      /\ options \in Sessions /\ received \in Nat /\ options.drops \in Nat
  BY SessionOptions DEF SessionInv, SessionTypes
<1>2. CASE Receive
  BY <1>2, TimeInvReceives
<1> USE DEF TimeInv, TimeRemembered, Answered
<1>3. CASE DeviceServes
  <2> DEFINE m == Head(toDevice)
  <2>1. /\ UNCHANGED <<vars, hidden, options>>
        /\ received' = IF m = Begin /\ received <= options.drops THEN received + 1 ELSE received
        /\ \/ DropsSubscribe(m) \/ RejectsSubscribe(m) \/ AnswersSubscribe(m)
           \/ PostponesUnsubscribe(m) \/ AnswersUnsubscribe(m) \/ IgnoresTime(m)
    BY <1>3 DEF DeviceServes, Begin
  <2>2. received' \in Nat /\ UNCHANGED <<known, described, domain>>
    BY <1>1, <2>1 DEF vars, entryVars
  <2> HIDE DEF m
  <2>3. CASE DropsSubscribe(m)
    <3>1. received < options.drops /\ UNCHANGED <<toClient, serving, late>>
      BY <2>3 DEF DropsSubscribe
    <3>2. ~Answered /\ ~Answered'
      BY <1>1, <2>1, <3>1
    <3> QED BY <1>1, <2>1, <2>2, <3>1, <3>2
  <2>4. CASE PostponesUnsubscribe(m) \/ IgnoresTime(m)
    <3>1. m # Begin /\ UNCHANGED <<toClient, serving, late>>
      BY <2>4, SessionSignals DEF PostponesUnsubscribe, IgnoresTime, Msg, Begin
    <3> QED BY <1>1, <2>1, <2>2, <3>1
  <2>5. CASE RejectsSubscribe(m) \/ AnswersUnsubscribe(m)
    <3>1. PICK r \in {<<>>, <<End>>} : toClient' = toClient \o r
      BY <2>5 DEF RejectsSubscribe, AnswersUnsubscribe, Sends, Unsubscribed, End
    <3>2. /\ serving' => serving
          /\ late' = late
      BY <2>5 DEF RejectsSubscribe, AnswersUnsubscribe
    <3>3. Answered' <=> Answered
      <4>1. CASE RejectsSubscribe(m)
        BY <1>1, <2>1, <4>1 DEF RejectsSubscribe
      <4>2. CASE AnswersUnsubscribe(m)
        BY <2>1, <4>2, SessionSignals DEF AnswersUnsubscribe, Msg, Begin
      <4> QED BY <2>5, <4>1, <4>2
    <3>4. r \in Seq(Messages) /\ ~Has(r, {ValueData}) /\ ~Has(r, {TimeData}) /\ ~Has(r, {TimeOffered})
      <4>1. CASE r = <<>>
        BY <4>1, OneMessage
      <4>2. CASE r = <<End>>
        BY <4>2, OneMessage, MessagesAre, MessagesDiffer
      <4> QED BY <3>1, <4>1, <4>2
    <3>5. /\ Precedes(r, {TimeBegins}, {ValueData}) /\ Precedes(r, {TimeData}, {TimeOffered})
          /\ Precedes(r, {ValueData}, {TimeOffered})
      BY <3>4, NothingToPrecede
    <3>6. /\ \A M : Has(toClient', M) <=> Has(toClient, M) \/ Has(r, M)
          /\ Precedes(toClient, {TimeBegins}, {ValueData}) => Precedes(toClient', {TimeBegins}, {ValueData})
          /\ Precedes(toClient, {TimeData}, {TimeOffered}) => Precedes(toClient', {TimeData}, {TimeOffered})
          /\ Precedes(toClient, {ValueData}, {TimeOffered}) => Precedes(toClient', {ValueData}, {TimeOffered})
      BY <1>1, <3>1, <3>4, <3>5, SendFacts
    <3> QED BY <1>1, <2>1, <2>2, <3>2, <3>3, <3>4, <3>6
  <2>6. CASE AnswersSubscribe(m)
    <3>1. PICK delayed \in BOOLEAN : toClient' = toClient \o Family(delayed) /\ late' = (late \/ delayed)
      BY <2>6 DEF AnswersSubscribe, Sends
    <3> DEFINE r == Family(delayed)
    <3>2. Answered'
      BY <1>1, <2>1, <2>6 DEF AnswersSubscribe, Begin
    <3>3. /\ r \in Seq(Messages) /\ Has(r, {ValueData}) /\ ~Has(r, {End, Offered, TimeOffered})
          /\ options.withholds \/ delayed \/ Has(r, {TimeData})
          /\ Precedes(r, {TimeBegins}, {ValueData})
      BY <1>1, FamilyOrder
    <3> HIDE DEF r
    <3>4. ~Has(r, {TimeOffered})
      BY <3>3 DEF Has
    <3>5. Precedes(r, {TimeData}, {TimeOffered}) /\ Precedes(r, {ValueData}, {TimeOffered})
      BY <3>4, NothingToPrecede
    <3>6. toClient' = toClient \o r
      BY <3>1 DEF r
    <3>7. /\ \A M : Has(toClient', M) <=> Has(toClient, M) \/ Has(r, M)
          /\ Precedes(toClient, {TimeBegins}, {ValueData}) => Precedes(toClient', {TimeBegins}, {ValueData})
          /\ Precedes(toClient, {TimeData}, {TimeOffered}) => Precedes(toClient', {TimeData}, {TimeOffered})
          /\ Precedes(toClient, {ValueData}, {TimeOffered}) => Precedes(toClient', {ValueData}, {TimeOffered})
      BY <1>1, <3>3, <3>5, <3>6, SendFacts
    <3> QED BY <1>1, <2>1, <2>2, <3>1, <3>2, <3>3, <3>7
  <2> QED BY <2>1, <2>3, <2>4, <2>5, <2>6
<1>4. CASE DeviceSendsTime
  <2>1. /\ toClient' = toClient \o <<TimeData>>
        /\ UNCHANGED <<known, described, domain, hidden, options, received, serving>>
    BY <1>4 DEF DeviceSendsTime, Sends, TimeData, vars, entryVars
  <2>2. /\ <<TimeData>> \in Seq(Messages) /\ Has(<<TimeData>>, {TimeData})
        /\ ~Has(<<TimeData>>, {ValueData}) /\ ~Has(<<TimeData>>, {TimeOffered})
    BY OneMessage, MessagesAre, MessagesDiffer
  <2>3. /\ Precedes(<<TimeData>>, {TimeBegins}, {ValueData}) /\ Precedes(<<TimeData>>, {TimeData}, {TimeOffered})
        /\ Precedes(<<TimeData>>, {ValueData}, {TimeOffered})
    BY <2>2, NothingToPrecede
  <2>4. /\ \A M : Has(toClient', M) <=> Has(toClient, M) \/ Has(<<TimeData>>, M)
        /\ Precedes(toClient, {TimeBegins}, {ValueData}) => Precedes(toClient', {TimeBegins}, {ValueData})
        /\ Precedes(toClient, {TimeData}, {TimeOffered}) => Precedes(toClient', {TimeData}, {TimeOffered})
        /\ Precedes(toClient, {ValueData}, {TimeOffered}) => Precedes(toClient', {ValueData}, {TimeOffered})
    BY <1>1, <2>1, <2>2, <2>3, SendFacts
  <2> QED BY <1>1, <2>1, <2>2, <2>4
<1>5. CASE DeviceActs
  <2>1. UNCHANGED <<known, described, domain, hidden, options, received>>
    BY <1>5 DEF DeviceActs, vars, entryVars
  <2>2. CASE DeviceUnsubscribes
    <3>1. toClient' = toClient \o <<End>> /\ ~serving' /\ late' = late
      BY <2>2 DEF DeviceUnsubscribes, Sends, Unsubscribed, End
    <3>2. /\ <<End>> \in Seq(Messages) /\ ~Has(<<End>>, {TimeData})
          /\ ~Has(<<End>>, {ValueData}) /\ ~Has(<<End>>, {TimeOffered})
      BY OneMessage, MessagesAre, MessagesDiffer
    <3>3. /\ Precedes(<<End>>, {TimeBegins}, {ValueData}) /\ Precedes(<<End>>, {TimeData}, {TimeOffered})
          /\ Precedes(<<End>>, {ValueData}, {TimeOffered})
      BY <3>2, NothingToPrecede
    <3>4. /\ \A M : Has(toClient', M) <=> Has(toClient, M) \/ Has(<<End>>, M)
          /\ Precedes(toClient, {TimeBegins}, {ValueData}) => Precedes(toClient', {TimeBegins}, {ValueData})
          /\ Precedes(toClient, {TimeData}, {TimeOffered}) => Precedes(toClient', {TimeData}, {TimeOffered})
          /\ Precedes(toClient, {ValueData}, {TimeOffered}) => Precedes(toClient', {ValueData}, {TimeOffered})
      BY <1>1, <3>1, <3>2, <3>3, SendFacts
    <3> QED BY <1>1, <2>1, <3>1, <3>2, <3>4
  <2>3. CASE DeviceAdvertisesTime
    <3>1. /\ toClient' = toClient \o <<TimeOffered>> /\ UNCHANGED <<serving, late>>
          /\ Answered /\ ~late /\ ~options.withholds
      BY <2>3 DEF DeviceAdvertisesTime, Sends, TimeOffered
    <3>2. /\ <<TimeOffered>> \in Seq(Messages) /\ ~Has(<<TimeOffered>>, {TimeData})
          /\ ~Has(<<TimeOffered>>, {ValueData})
      BY OneMessage, MessagesAre, MessagesDiffer
    <3>3. Precedes(<<TimeOffered>>, {TimeBegins}, {ValueData})
      BY <3>2, NothingToPrecede
    <3>4. /\ \A M : Has(toClient', M) <=> Has(toClient, M) \/ Has(<<TimeOffered>>, M)
          /\ Precedes(toClient, {TimeBegins}, {ValueData}) => Precedes(toClient', {TimeBegins}, {ValueData})
          /\ Precedes(toClient, {TimeData}, {TimeOffered}) /\ Has(toClient, {TimeData}) =>
               Precedes(toClient', {TimeData}, {TimeOffered})
          /\ Precedes(toClient, {ValueData}, {TimeOffered}) /\ Has(toClient, {ValueData}) =>
               Precedes(toClient', {ValueData}, {TimeOffered})
      BY <1>1, <3>1, <3>2, <3>3, SendFacts
    <3> QED BY <1>1, <2>1, <3>1, <3>2, <3>4
  <2> QED BY <1>5, <2>2, <2>3 DEF DeviceActs
<1>6. CASE ClientTimer \/ ClientServes \/ ApplicationAsks
  <2>1. UNCHANGED <<toClient, deviceVars, hidden>>
    BY <1>6 DEF ClientTimer, ClientServes, ApplicationAsks
  <2>2. UNCHANGED <<known, described, domain>>
    BY <1>6
       DEF ClientTimer, ClientServes, ApplicationAsks, TimerEvent, ServeRequest, Application,
           InitialFetchSweep, InitialFetchResubscribe, SubscribeRefused, SubscribeTakesOver,
           SubscribeSent, UnsubscribeServed, Serving, AskSubscribe, AskUnsubscribe, entryVars
  <2> QED BY <1>1, <2>1, <2>2 DEF deviceVars
<1>7. CASE Rest \/ UNCHANGED sessionVars
  BY <1>1, <1>7 DEF Rest, sessionVars, deviceVars, vars, entryVars
<1> QED BY <1>2, <1>3, <1>4, <1>5, <1>6, <1>7 DEF SessionNext

-----------------------------------------------------------------------------
(* Published signals are described.                                        *)

LEMMA DescribedStep ==
  ASSUME SessionInv, [SessionNext]_sessionVars
  PROVE  DescribedInv'
<1>1. /\ ClientInv /\ SessionTypes /\ TimeUntouched /\ TimeInv /\ DescribedInv
  BY DEF SessionInv
<1>2. ASSUME UNCHANGED <<published, described>>
      PROVE  DescribedInv'
  BY <1>1, <1>2 DEF DescribedInv
<1>3. ASSUME described \subseteq described', NEW new, MetadataPublishes(new)
      PROVE  DescribedInv'
  BY <1>1, <1>3 DEF DescribedInv, MetadataPublishes
<1>4. CASE Receive
  <2>1. CASE Reads(ValueData) /\ ValueMetadata
    BY <1>1, <1>3, <2>1, TimeKnownInTime, ValueMetadataView
  <2>2. CASE Metadata(Time, NoDomain)
    BY <1>1, <1>3, <2>2, TimeMetadataView
  <2>3. CASE \E t \in Signal : \/ AvailableKnown(t) \/ AvailableFetch(t)
                              \/ RemoteSubscribed(t) \/ RemoteUnsubscribed(t)
    BY <1>2, <2>3 DEF AvailableKnown, AvailableFetch, RemoteSubscribed, RemoteUnsubscribed, entryVars
  <2>4. CASE UNCHANGED vars
    BY <1>2, <2>4 DEF vars, entryVars
  <2> QED BY <1>1, <1>4, <2>1, <2>2, <2>3, <2>4, ReceiveForm, SessionSignals
<1>5. CASE ClientTimer
  <2>1. CASE InitialFetchResubscribe
    BY <1>2, <2>1 DEF InitialFetchResubscribe
  <2>2. CASE InitialFetchSweep
    <3>1. /\ described' = described
          /\ \E new : new \subseteq described \ published /\ published' = published \cup new
      BY <1>1, <2>2, SweepView
    <3> QED BY <1>1, <3>1 DEF DescribedInv
  <2> QED BY <1>5, <2>1, <2>2 DEF ClientTimer, TimerEvent
<1>6. CASE \/ DeviceServes \/ DeviceSendsTime \/ DeviceActs \/ ClientServes \/ ApplicationAsks
           \/ Rest \/ UNCHANGED sessionVars
  <2>1. UNCHANGED <<published, described>>
    BY <1>6
       DEF DeviceServes, DeviceSendsTime, DeviceActs, ClientServes, ApplicationAsks, Rest, sessionVars,
           ServeRequest, Application, SubscribeRefused, SubscribeTakesOver, SubscribeSent,
           UnsubscribeServed, Serving, AskSubscribe, AskUnsubscribe, vars, entryVars
  <2> QED BY <1>2, <2>1
<1> QED BY <1>4, <1>5, <1>6 DEF SessionNext

-----------------------------------------------------------------------------
(* Publication with the time signal.                                       *)

\* In a session in which the device answers before the timer expires, the sweep
\* finds no value signal that waits for metadata on its way.
LEMMA LinkStep ==
  ASSUME SessionInv, [SessionNext]_sessionVars, TimeInv'
  PROVE  LinkInv'
<1>1. /\ ClientInv /\ SessionTypes /\ TimeUntouched /\ TimeInv /\ LinkInv
      /\ Time \in Signal /\ Value \in Signal
  BY SessionSignals DEF SessionInv
<1>2. options' = options
  BY DEF SessionNext, Receive, DeviceServes, DeviceSendsTime, DeviceActs, ClientTimer, ClientServes,
         ApplicationAsks, Rest, sessionVars, deviceVars
<1>3. ASSUME UNCHANGED <<published, parent>>
      PROVE  LinkInv'
  BY <1>1, <1>2, <1>3 DEF LinkInv
<1>4. ASSUME NEW new, MetadataPublishes(new)
      PROVE  LinkInv'
  BY <1>1, <1>2, <1>4 DEF LinkInv, TimeInv, MetadataPublishes
<1>5. CASE Receive
  <2>1. CASE Reads(ValueData) /\ ValueMetadata
    BY <1>1, <1>4, <2>1, TimeKnownInTime, ValueMetadataView
  <2>2. CASE Metadata(Time, NoDomain)
    BY <1>1, <1>4, <2>2, TimeMetadataView
  <2>3. CASE \E t \in Signal : \/ AvailableKnown(t) \/ AvailableFetch(t)
                              \/ RemoteSubscribed(t) \/ RemoteUnsubscribed(t)
    BY <1>3, <2>3 DEF AvailableKnown, AvailableFetch, RemoteSubscribed, RemoteUnsubscribed, entryVars
  <2>4. CASE UNCHANGED vars
    BY <1>3, <2>4 DEF vars, entryVars
  <2> QED BY <1>1, <1>5, <2>1, <2>2, <2>3, <2>4, ReceiveForm
<1>6. CASE ClientTimer
  <2>1. CASE InitialFetchResubscribe
    BY <1>3, <2>1 DEF InitialFetchResubscribe
  <2>2. CASE InitialFetchSweep
    <3>1. PICK new : /\ new \subseteq described \ published /\ published' = published \cup new
                     /\ \A s \in Signal \ new : parent'[s] = parent[s]
      BY <1>1, <2>2, SweepView
    <3>2. ASSUME options.timely, ~options.withholds, Value \in described \ published
          PROVE  FALSE
      <4>1. toClient = <<>> /\ ~late
        BY <1>6, <3>2 DEF ClientTimer, InFlight
      <4>2. ~Has(toClient, {TimeData})
        BY <4>1, OneMessage
      <4>3. Time \in described /\ domain[Value] = Time
        BY <1>1, <3>2, <4>1, <4>2 DEF TimeInv, TimeRemembered
      <4>4. MustDefer(Time, published) /\ (Time \notin published => MustDefer(NoDomain, published))
        BY <1>1, <3>2, <4>3
           DEF ClientInv, LinksInv, DeferredOnlyOnUnpublished, Deferred, TimeUntouched
      <4> QED BY <4>4 DEF MustDefer, DomainPublished
    <3> QED BY <1>1, <1>2, <3>1, <3>2 DEF LinkInv
  <2> QED BY <1>6, <2>1, <2>2 DEF ClientTimer, TimerEvent
<1>7. CASE \/ DeviceServes \/ DeviceSendsTime \/ DeviceActs \/ ClientServes \/ ApplicationAsks
           \/ Rest \/ UNCHANGED sessionVars
  <2>1. UNCHANGED <<published, parent>>
    BY <1>7
       DEF DeviceServes, DeviceSendsTime, DeviceActs, ClientServes, ApplicationAsks, Rest, sessionVars,
           ServeRequest, Application, SubscribeRefused, SubscribeTakesOver, SubscribeSent,
           UnsubscribeServed, Serving, AskSubscribe, AskUnsubscribe, vars, entryVars
  <2> QED BY <1>3, <2>1
<1> QED BY <1>5, <1>6, <1>7 DEF SessionNext

-----------------------------------------------------------------------------
(* Calm sessions: messages that are read.                                  *)

CalmAll == CalmQueues /\ CalmEnds /\ CalmRequests

\* The queues of requests a calm session has.
LEMMA DeviceQueues ==
  /\ \A M : /\ ~Has(<<>>, M) /\ (Has(<<Begin>>, M) <=> Begin \in M) /\ (Has(<<End>>, M) <=> End \in M)
           /\ Has(<<End, Begin>>, M) <=> End \in M \/ Begin \in M
  /\ Head(<<Begin>>) = Begin /\ Head(<<End>>) = End /\ Head(<<End, Begin>>) = End
  /\ Tail(<<Begin>>) = <<>> /\ Tail(<<End>>) = <<>> /\ Tail(<<End, Begin>>) = <<Begin>>
  /\ <<>> \o <<Begin>> = <<Begin>> /\ <<>> \o <<End>> = <<End>> /\ <<End>> \o <<Begin>> = <<End, Begin>>
  /\ <<Begin>> # <<>> /\ <<End>> # <<>> /\ <<End, Begin>> # <<>>
<1>1. ASSUME NEW M
      PROVE  /\ ~Has(<<>>, M) /\ (Has(<<Begin>>, M) <=> Begin \in M) /\ (Has(<<End>>, M) <=> End \in M)
             /\ Has(<<End, Begin>>, M) <=> End \in M \/ Begin \in M
  BY HasFew
<1>2. /\ Head(<<Begin>>) = Begin /\ Head(<<End>>) = End /\ Head(<<End, Begin>>) = End
      /\ <<Begin>> # <<>> /\ <<End>> # <<>> /\ <<End, Begin>> # <<>>
  OBVIOUS
<1>3. Tail(<<Begin>>) = <<>> /\ Tail(<<End>>) = <<>>
  OBVIOUS
<1>4. Tail(<<End, Begin>>) = <<Begin>>
  OBVIOUS
<1>5. <<>> \o <<Begin>> = <<Begin>> /\ <<>> \o <<End>> = <<End>>
  OBVIOUS
<1>6. <<End>> \o <<Begin>> = <<End, Begin>>
  <2> DEFINE q == <<End>> \o <<Begin>>
  <2>1. q \in Seq({End, Begin}) /\ Len(q) = 2 /\ q[1] = End /\ q[2] = Begin
    OBVIOUS
  <2> HIDE DEF q
  <2>2. q = <<q[1], q[2]>>
    BY <2>1
  <2> QED BY <2>1, <2>2 DEF q
<1> QED BY <1>1, <1>2, <1>3, <1>4, <1>5, <1>6

\* What a handler leaves alone that is not about the value signal.
ValueKept ==
  /\ Value \in known' <=> Value \in known
  /\ Value \in published' <=> Value \in published
  /\ Value \in subscribed' <=> Value \in subscribed
  /\ fetch'[Value] = fetch[Value] /\ wire'[Value] = wire[Value] /\ share'[Value] = share[Value]
  /\ UNCHANGED <<wanted, requests>>

\* What the subscription count says of the two that share it.
LEMMA CountsOfValue ==
  ASSUME ClientInv, TimeUntouched
  PROVE  /\ wire[Value] \in Int /\ share[Value] \in Int
         /\ wire[Value] = share[Value] + (IF fetch[Value] \in {"Fetching", "Held"} THEN 1 ELSE 0)
         /\ fetch[Value] \in FetchState
         /\ fetch[Value] = "Held" => Value \in published
         /\ fetch[Value] \in {"Fetching", "AwaitingRetry"} => Value \in known \ published
         /\ Value \in subscribed => Value \in published
         /\ Value \in published \/ Value \in described => Value \in known
BY SessionSignals DEF ClientInv, WireInv, TypeInv, TypeOK, FetchMatchesPublication

LEMMA NothingSent ==
  ASSUME ClientInv, SessionTypes, TimeUntouched, TimeUntouched', SendRequests, wire'[Value] = wire[Value]
  PROVE  toDevice' = toDevice
<1>1. toDevice' = toDevice \o RequestsFor(Value) /\ RequestsFor(Value) = <<>>
  BY RequestsForValue, CountsOfValue
<1> QED BY <1>1 DEF SessionTypes

\* What remains of the messages when m has been read.
LEMMA CalmTail ==
  ASSUME SessionTypes, CalmQueues, NEW m \in Messages, Reads(m)
  PROVE  /\ \A n \in Messages : Has(toClient, {n}) <=> m = n \/ Has(toClient', {n})
         /\ Has(toClient', {TimeData, ValueData}) => Has(toClient, {TimeData, ValueData})
         /\ Has(toClient', {Begin, TimeData, ValueData}) => toDevice = <<>>
         /\ m \in {Begin, TimeData, ValueData} =>
              toDevice = <<>> /\ ~Has(toClient', {Begin}) /\ ~Has(toClient', {End})
         /\ m = End => ~Has(toClient', {End}) /\ ~Has(toDevice, {End})
         /\ NoneAfter(toClient', {Begin, TimeData, ValueData}, {Begin, End})
         /\ NoneAfter(toClient', {End}, {End})
         /\ toClient = <<Offered>> <=> m = Offered
         /\ m # Offered => Value \in known
<1>1. \A M : Has(toClient, M) <=> m \in M \/ Has(toClient', M)
  BY ReadFacts
<1>2. /\ NoneAfter(toClient, {Begin, TimeData, ValueData}, {Begin, End}) /\ NoneAfter(toClient, {End}, {End})
      /\ Has(toClient, {Begin, TimeData, ValueData}) \/ late => toDevice = <<>>
      /\ Has(toDevice, {End}) => ~Has(toClient, {End})
      /\ Value \notin known => toClient = <<Offered>>
      /\ Value \in known => ~Has(toClient, {Offered})
  BY DEF CalmQueues
<1>3. /\ NoneAfter(toClient', {Begin, TimeData, ValueData}, {Begin, End}) /\ NoneAfter(toClient', {End}, {End})
      /\ m \in {Begin, TimeData, ValueData} => ~Has(toClient', {Begin, End})
      /\ m \in {End} => ~Has(toClient', {End})
  BY <1>2, ReadFacts
<1>4. ~Has(toClient', {Begin, End}) => ~Has(toClient', {Begin}) /\ ~Has(toClient', {End})
  BY DEF Has
<1>5. Head(toClient) = m /\ toClient # <<>> /\ Head(<<Offered>>) = Offered
  BY DEF Reads
<1>6. m = Offered => Value \notin known /\ toClient = <<Offered>>
  BY <1>1, <1>2
<1> QED BY <1>1, <1>2, <1>3, <1>4, <1>5, <1>6

\* A message that is not about the subscription of the value signal.
LEMMA CalmReadsOther ==
  ASSUME ClientInv, SessionTypes, TimeUntouched, TimeUntouched', CalmAll,
         NEW m \in Messages \ {Begin, End, Offered}, Reads(m), ValueKept
  PROVE  CalmAll'
<1>1. toDevice' = toDevice /\ UNCHANGED <<options, received, serving, late>>
  BY NothingSent DEF Reads, ValueKept, deviceVars
<1>2. /\ Has(toClient', {Begin}) <=> Has(toClient, {Begin})
      /\ Has(toClient', {End}) <=> Has(toClient, {End})
      /\ ~Has(toClient', {Offered}) /\ Value \in known
      /\ Has(toClient', {TimeData, ValueData}) => Has(toClient, {TimeData, ValueData})
      /\ Has(toClient', {Begin, TimeData, ValueData}) => toDevice = <<>>
      /\ NoneAfter(toClient', {Begin, TimeData, ValueData}, {Begin, End})
      /\ NoneAfter(toClient', {End}, {End})
  BY CalmTail, MessagesAre DEF CalmAll, CalmQueues
<1>3. Starting' = Starting /\ Ending' = Ending
  BY <1>1, <1>2 DEF Starting, Ending
<1>4. CalmQueues'
  BY <1>1, <1>2 DEF CalmAll, CalmQueues, ValueKept
<1>5. CalmEnds'
  BY <1>1, <1>3 DEF CalmAll, CalmEnds, ValueKept, Answered
<1>6. CalmRequests'
  BY <1>1, <1>2, <1>3 DEF CalmAll, CalmRequests, ValueKept
<1> QED BY <1>4, <1>5, <1>6 DEF CalmAll

\* Metadata that publishes the value signal: nothing is in flight about its
\* subscription, which the client now holds.
LEMMA CalmReadsMetadata ==
  ASSUME ClientInv, SessionTypes, TimeUntouched, TimeUntouched', CalmAll,
         NEW m \in {TimeData, ValueData}, Reads(m),
         Value \in known, Value \in known', NEW new, MetadataPublishes(new)
  PROVE  CalmAll'
<1>1. m \in Messages \ {Begin, End, Offered} /\ Value \in Signal
  BY MessagesAre, MessagesDiffer, SessionSignals
<1>2. UNCHANGED <<wire, share, wanted, requests, subscribed>> /\ published' = published \cup new
  BY DEF MetadataPublishes, appVars, wireVars
<1>3. CASE Value \notin new
  <2>1. fetch'[Value] = fetch[Value]
    BY <1>1, <1>3 DEF MetadataPublishes
  <2>2. ValueKept
    BY <1>2, <1>3, <2>1 DEF ValueKept
  <2> QED BY <1>1, <2>2, CalmReadsOther
<1>4. CASE Value \in new
  <2>1. /\ Value \notin published /\ Value \in published'
        /\ fetch'[Value] \in {"Held", "None"}
    BY <1>1, <1>2, <1>4 DEF MetadataPublishes, FetchOncePublished
  <2>2. toDevice' = toDevice /\ UNCHANGED <<options, received, serving, late>>
    BY <1>2, NothingSent DEF Reads, deviceVars
  <2>3. /\ toDevice = <<>> /\ ~Has(toClient', {Begin}) /\ ~Has(toClient', {End})
        /\ ~Has(toClient', {Offered})
        /\ NoneAfter(toClient', {Begin, TimeData, ValueData}, {Begin, End})
        /\ NoneAfter(toClient', {End}, {End})
        /\ Has(toClient, {TimeData, ValueData})
    <3>1. \/ Has(toClient, {TimeData})
          \/ Has(toClient, {ValueData})
      BY <1>1, CalmTail DEF CalmAll
    <3>2. Has(toClient, {TimeData, ValueData})
      BY <3>1 DEF Has
    <3> QED BY <1>1, <3>2, CalmTail, MessagesAre DEF CalmAll, CalmQueues
  <2>4. ~Starting' /\ ~Ending'
    BY <2>2, <2>3, DeviceQueues DEF Starting, Ending
  <2>5. share[Value] = 0 /\ Value \notin subscribed
    BY <2>1, CountsOfValue DEF CalmAll, CalmEnds
  <2>6. requests = <<>>
    BY <2>3 DEF CalmAll, CalmRequests
  <2>7. CalmQueues'
    BY <1>1, <2>2, <2>3, DeviceQueues DEF CalmQueues
  <2>8. CalmEnds'
    BY <1>2, <2>1, <2>2, <2>3, <2>4, <2>5 DEF CalmAll, CalmEnds, Answered
  <2>9. CalmRequests'
    BY <1>2, <2>5, <2>6 DEF CalmAll, CalmRequests, Wants, GivesUp
  <2> QED BY <2>7, <2>8, <2>9 DEF CalmAll
<1> QED BY <1>3, <1>4

\* The device confirms the subscription.
LEMMA CalmReadsBegin ==
  ASSUME ClientInv, SessionTypes, TimeUntouched, TimeUntouched', CalmAll,
         Reads(Begin), RemoteSubscribed(Value)
  PROVE  CalmAll'
<1>1. Begin \in Messages /\ Begin # Offered
  BY MessagesAre, MessagesDiffer
<1>2. /\ UNCHANGED <<known, published, fetch, wanted, requests, wire, share>>
      /\ subscribed' = IF Value \in published THEN subscribed \cup {Value} ELSE subscribed
  BY DEF RemoteSubscribed, appVars, wireVars
<1>3. toDevice' = toDevice /\ UNCHANGED <<options, received, serving, late>>
  BY <1>2, NothingSent DEF Reads, deviceVars
<1>4. /\ toDevice = <<>> /\ Has(toClient, {Begin}) /\ ~Has(toClient', {Begin}) /\ ~Has(toClient', {End})
      /\ ~Has(toClient', {Offered}) /\ Value \in known
      /\ Has(toClient', {TimeData, ValueData}) => Has(toClient, {TimeData, ValueData})
      /\ NoneAfter(toClient', {Begin, TimeData, ValueData}, {Begin, End})
      /\ NoneAfter(toClient', {End}, {End})
  BY <1>1, CalmTail, MessagesAre DEF CalmAll, CalmQueues
<1>5. Starting /\ ~Starting' /\ ~Ending'
  BY <1>3, <1>4, DeviceQueues DEF Starting, Ending
<1>6. CalmQueues'
  BY <1>2, <1>3, <1>4, DeviceQueues DEF CalmQueues
<1>7. CalmEnds'
  BY <1>2, <1>3, <1>4, <1>5, CountsOfValue DEF CalmAll, CalmEnds, Answered
<1>8. CalmRequests'
  <2>1. requests = <<>>
    BY <1>5 DEF CalmAll, CalmRequests
  <2> QED BY <1>2, <2>1 DEF CalmAll, CalmRequests, Wants, GivesUp
<1> QED BY <1>6, <1>7, <1>8 DEF CalmAll

\* The device confirms the end of the subscription.
LEMMA CalmReadsEnd ==
  ASSUME ClientInv, SessionTypes, TimeUntouched, TimeUntouched', CalmAll,
         Reads(End), RemoteUnsubscribed(Value)
  PROVE  CalmAll'
<1>1. End \in Messages /\ End # Offered /\ End # Begin
  BY MessagesAre, MessagesDiffer
<1>2. /\ Has(toClient, {End}) /\ ~Has(toClient', {End}) /\ ~Has(toDevice, {End})
      /\ Has(toClient', {Begin}) <=> Has(toClient, {Begin})
      /\ ~Has(toClient', {Offered}) /\ Value \in known
      /\ Has(toClient', {TimeData, ValueData}) => Has(toClient, {TimeData, ValueData})
      /\ Has(toClient', {Begin, TimeData, ValueData}) => toDevice = <<>>
      /\ NoneAfter(toClient', {Begin, TimeData, ValueData}, {Begin, End})
      /\ NoneAfter(toClient', {End}, {End})
  BY <1>1, CalmTail, MessagesAre DEF CalmAll, CalmQueues
<1>3. Ending /\ fetch[Value] # "Held"
  BY <1>2 DEF Ending, CalmAll, CalmEnds
<1>4. /\ UNCHANGED <<known, published, fetch, wanted, requests, wire, share>>
      /\ subscribed' = subscribed \ {Value}
  BY <1>3 DEF RemoteUnsubscribed, EndsHold, SubscribedWithout, appVars
<1>5. toDevice' = toDevice /\ UNCHANGED <<options, received, serving, late>>
  BY <1>4, NothingSent DEF Reads, deviceVars
<1>6. Starting' = Starting /\ ~Ending'
  BY <1>2, <1>5 DEF Starting, Ending
<1>7. ~Starting => share[Value] = 0
  BY <1>3, CountsOfValue DEF CalmAll, CalmEnds
<1>8. CalmQueues'
  BY <1>2, <1>4, <1>5 DEF CalmAll, CalmQueues
<1>9. CalmEnds'
  BY <1>3, <1>4, <1>5, <1>6, <1>7 DEF CalmAll, CalmEnds, Answered
<1>10. CalmRequests'
  BY <1>2, <1>3, <1>4, <1>5, <1>6 DEF CalmAll, CalmRequests
<1> QED BY <1>8, <1>9, <1>10 DEF CalmAll

\* The value signal is advertised, once: the client fetches its metadata.
LEMMA CalmReadsOffered ==
  ASSUME ClientInv, SessionTypes, TimeUntouched, TimeUntouched', CalmAll,
         Reads(Offered), AvailableKnown(Value) \/ AvailableFetch(Value)
  PROVE  CalmAll'
<1>1. /\ toClient = <<Offered>> /\ Value \notin known /\ toDevice = <<>> /\ ~late
      /\ wire[Value] = 0 /\ share[Value] = 0
  <2>1. toClient = <<Offered>>
    BY MessagesAre, CalmTail DEF CalmAll
  <2>2. Has(toClient, {Offered})
    BY <2>1, HasFew
  <2> QED BY <2>1, <2>2 DEF CalmAll, CalmQueues
<1>2. /\ AvailableFetch(Value) /\ Value \notin published /\ requests = <<>> /\ Value \in Signal
      /\ wire \in [Signal -> Int] /\ fetch \in [Signal -> FetchState]
  BY <1>1, CountsOfValue, SessionSignals
     DEF AvailableKnown, CalmAll, CalmRequests, ClientInv, TypeInv, TypeOK
<1>3. /\ known' = known \cup {Value} /\ wire'[Value] = 1 /\ fetch'[Value] = "Fetching"
      /\ UNCHANGED <<published, subscribed, wanted, requests, share>>
  BY <1>1, <1>2 DEF AvailableFetch, appVars
<1>4. /\ toClient' = <<>> /\ toDevice' = <<Begin>>
      /\ UNCHANGED <<options, received, serving, late>>
  <2>1. toDevice' = <<>> \o <<Begin>>
    BY <1>1, <1>3, RequestsForValue DEF Reads
  <2>2. toClient' = <<>>
    BY <1>1 DEF Reads
  <2> QED BY <2>1, <2>2, DeviceQueues DEF Reads, deviceVars
<1>5. Starting' /\ ~Ending'
  BY <1>4, DeviceQueues, MessagesDiffer DEF Starting, Ending
<1>6. CalmQueues'
  <2>1. \A A, B : NoneAfter(<<>>, A, B)
    BY DEF NoneAfter
  <2>2. toDevice' # <<>> /\ ~Has(toDevice', {End}) /\ ~late' /\ Value \in known'
    BY <1>1, <1>3, <1>4, DeviceQueues, MessagesDiffer
  <2>3. ASSUME NEW M PROVE ~Has(toClient', M)
    <3>1. toClient' = <<>>
      BY <1>4
    <3> QED BY <3>1, HasFew
  <2> QED BY <1>4, <2>1, <2>2, <2>3 DEF CalmQueues
<1>7. CalmEnds'
  BY <1>1, <1>2, <1>3, <1>4, <1>5, DeviceQueues DEF CalmAll, CalmEnds
<1>8. CalmRequests'
  BY <1>2, <1>3 DEF CalmAll, CalmRequests, Wants, GivesUp
<1> QED BY <1>6, <1>7, <1>8 DEF CalmAll

LEMMA CalmReceives ==
  ASSUME SessionInv, CalmAll, Receive, TimeUntouched'
  PROVE  CalmAll'
<1>1. ClientInv /\ SessionTypes /\ TimeUntouched /\ TimeInv /\ Time # Value
  BY SessionSignals DEF SessionInv
<1>2. /\ TimeOffered \in Messages \ {Begin, End, Offered} /\ TimeBegins \in Messages \ {Begin, End, Offered}
      /\ TimeData \in Messages \ {Begin, End, Offered}
  BY MessagesAre, MessagesDiffer
<1>3. CASE Reads(TimeOffered) /\ (AvailableKnown(Time) \/ AvailableFetch(Time))
  <2>1. Time \in described
    BY <1>1, <1>3, TimeOfferedLate
  <2>2. ValueKept
    BY <1>3, <2>1 DEF AvailableKnown, AvailableFetch, NeedsFetch, ValueKept, entryVars, appVars, wireVars
  <2> QED BY <1>1, <1>2, <1>3, <2>2, CalmReadsOther
<1>4. CASE Reads(TimeBegins) /\ RemoteSubscribed(Time)
  <2>1. ValueKept
    BY <1>1, <1>4 DEF RemoteSubscribed, ValueKept, appVars, wireVars
  <2> QED BY <1>1, <1>2, <1>4, <2>1, CalmReadsOther
<1>5. CASE (Reads(TimeData) \/ Reads(TimeBegins)) /\ UNCHANGED vars
  <2>1. ValueKept
    BY <1>5 DEF vars, entryVars, appVars, wireVars, ValueKept
  <2> QED BY <1>1, <1>2, <1>5, <2>1, CalmReadsOther
<1>6. CASE Reads(ValueData) /\ ValueMetadata
  <2>1. Value \in known /\ Value \in known' /\ \E new : MetadataPublishes(new)
    BY <1>1, <1>6, TimeKnownInTime, ValueMetadataView
  <2> QED BY <1>1, <1>6, <2>1, CalmReadsMetadata
<1>7. CASE Reads(TimeData) /\ Metadata(Time, NoDomain)
  <2>1. known' = known /\ \E new : MetadataPublishes(new)
    BY <1>1, <1>7, TimeMetadataView
  <2>2. Value \in known
    BY <1>1, <1>2, <1>7, CalmTail DEF CalmAll
  <2> QED BY <1>1, <1>7, <2>1, <2>2, CalmReadsMetadata
<1>8. CASE Reads(Begin) /\ RemoteSubscribed(Value)
  BY <1>1, <1>8, CalmReadsBegin
<1>9. CASE Reads(End) /\ RemoteUnsubscribed(Value)
  BY <1>1, <1>9, CalmReadsEnd
<1>10. CASE Reads(Offered) /\ (AvailableKnown(Value) \/ AvailableFetch(Value))
  BY <1>1, <1>10, CalmReadsOffered
<1> QED BY <1>1, <1>3, <1>4, <1>5, <1>6, <1>7, <1>8, <1>9, <1>10, ReceiveForm

-----------------------------------------------------------------------------
(* Calm sessions: what the device does.                                    *)

\* A device of a calm session answers in order.
CalmDevice == options \in Sessions /\ ~options.outOfOrder /\ options.impulses = 0

LEMMA CalmServes ==
  ASSUME SessionInv, CalmAll, CalmDevice, DeviceServes
  PROVE  CalmAll'
<1> DEFINE m == Head(toDevice)
<1>1. /\ ClientInv /\ SessionTypes /\ TimeUntouched /\ TimeInv
      /\ received \in Nat /\ options.drops \in Nat
      /\ toDevice \in {<<>>, <<Begin>>, <<End>>, <<End, Begin>>}
      /\ NoneAfter(toClient, {Begin, TimeData, ValueData}, {Begin, End}) /\ NoneAfter(toClient, {End}, {End})
  BY SessionOptions DEF SessionInv, SessionTypes, CalmAll, CalmQueues
<1>2. /\ toDevice # <<>> /\ toDevice' = Tail(toDevice)
      /\ received' = IF m = Begin /\ received <= options.drops THEN received + 1 ELSE received
      /\ \/ DropsSubscribe(m) \/ RejectsSubscribe(m) \/ AnswersSubscribe(m)
         \/ PostponesUnsubscribe(m) \/ AnswersUnsubscribe(m) \/ IgnoresTime(m)
      /\ UNCHANGED <<known, published, subscribed, fetch, wire, share, wanted, requests, options>>
  BY <1>1 DEF DeviceServes, Begin, vars, entryVars, appVars, wireVars
<1>3. /\ ~late /\ Value \in known /\ ~Has(toClient, {Begin, TimeData, ValueData})
      /\ ~Has(toClient, {Offered})
  BY <1>2 DEF CalmAll, CalmQueues
<1>4. ~Has(toClient, {Begin}) /\ ~Has(toClient, {TimeData, ValueData})
  BY <1>3 DEF Has
<1>5. \/ m = Begin /\ toDevice = <<Begin>> /\ toDevice' = <<>> /\ Starting
      \/ /\ m = End /\ toDevice \in {<<End>>, <<End, Begin>>} /\ Ending /\ ~Has(toClient, {End})
         /\ toDevice' \in {<<>>, <<Begin>>}
         /\ Has(toDevice', {Begin}) <=> Has(toDevice, {Begin})
         /\ toDevice' = <<>> => ~Starting
  <2>1. CASE toDevice = <<Begin>>
    BY <1>2, <2>1, DeviceQueues DEF Starting
  <2>2. CASE toDevice = <<End>>
    <3>1. ~Has(toClient, {End}) /\ Has(toDevice, {End}) /\ ~Has(toDevice, {Begin})
      BY <2>2, DeviceQueues, MessagesDiffer DEF CalmAll, CalmQueues
    <3> QED BY <1>2, <1>4, <2>2, <3>1, DeviceQueues DEF Starting, Ending
  <2>3. CASE toDevice = <<End, Begin>>
    <3>1. ~Has(toClient, {End}) /\ Has(toDevice, {End}) /\ Has(toDevice, {Begin})
      BY <2>3, DeviceQueues DEF CalmAll, CalmQueues
    <3> QED BY <1>2, <2>3, <3>1, DeviceQueues DEF Ending
  <2> QED BY <1>1, <1>2, <2>1, <2>2, <2>3
<1>6. Value \in published => Answered
  <2>1. published \subseteq described
    BY DEF SessionInv, DescribedInv
  <2> QED BY <1>1, <2>1 DEF TimeInv
<1> HIDE DEF m
<1>7. CASE m = Begin
  <2>1. toDevice = <<Begin>> /\ toDevice' = <<>> /\ Starting /\ wire[Value] = 1 /\ requests = <<>>
    BY <1>5, <1>7, MessagesDiffer DEF CalmAll, CalmEnds, CalmRequests
  <2>2. CASE DropsSubscribe(m)
    <3>1. received < options.drops /\ UNCHANGED <<toClient, serving, late>>
      BY <2>2 DEF DropsSubscribe
    <3>2. ~Answered /\ ~Answered'
      BY <1>1, <1>2, <3>1 DEF Answered
    <3>3. Value \notin published /\ ~Ending
      BY <1>6, <2>1, <3>2 DEF CalmAll, CalmEnds
    <3>4. ~Starting' /\ ~Ending'
      BY <1>4, <2>1, <3>1, <3>3, DeviceQueues DEF Starting, Ending
    <3>5. CalmQueues'
      BY <1>1, <1>2, <1>3, <2>1, <3>1, DeviceQueues DEF CalmQueues
    <3>6. CalmEnds'
      BY <1>1, <1>2, <3>2, <3>3, <3>4, CountsOfValue DEF CalmAll, CalmEnds
    <3>7. CalmRequests'
      BY <1>2, <2>1 DEF CalmAll, CalmRequests, Wants, GivesUp
    <3> QED BY <3>5, <3>6, <3>7 DEF CalmAll
  <2>3. CASE AnswersSubscribe(m)
    <3>1. PICK delayed \in BOOLEAN : toClient' = toClient \o Family(delayed) /\ late' = (late \/ delayed)
      BY <2>3 DEF AnswersSubscribe, Sends
    <3> DEFINE r == Family(delayed)
    <3>2. serving' /\ Answered'
      BY <1>1, <1>2, <1>7, <2>3 DEF AnswersSubscribe, Answered
    <3>3. /\ r \in Seq(Messages) /\ Has(r, {Begin}) /\ ~Has(r, {End, Offered, TimeOffered})
          /\ NoneAfter(r, {Begin, TimeData, ValueData}, {Begin, End})
      BY FamilyOrder DEF CalmDevice
    <3> HIDE DEF r
    <3>4. ~Has(r, {End}) /\ ~Has(r, {Offered})
      BY <3>3 DEF Has
    <3>5. toClient' = toClient \o r
      BY <3>1 DEF r
    <3>6. /\ \A M : Has(toClient', M) <=> Has(toClient, M) \/ Has(r, M)
          /\ NoneAfter(toClient', {Begin, TimeData, ValueData}, {Begin, End})
          /\ NoneAfter(toClient', {End}, {End})
      BY <1>1, <1>3, <3>3, <3>4, <3>5, SendFacts, NothingToPrecede
    <3>7. Starting' /\ (Ending' <=> Ending)
      <4>1. ~Has(toDevice, {End}) /\ ~Has(toDevice', {End})
        BY <2>1, DeviceQueues, MessagesDiffer
      <4> QED BY <3>3, <3>4, <3>6, <4>1 DEF Starting, Ending
    <3>8. CalmQueues'
      BY <1>1, <1>2, <1>3, <2>1, <3>4, <3>6, DeviceQueues DEF CalmQueues
    <3>9. CalmEnds'
      BY <1>1, <1>2, <2>1, <3>2, <3>7 DEF CalmAll, CalmEnds
    <3>10. CalmRequests'
      BY <1>2, <2>1 DEF CalmAll, CalmRequests, Wants, GivesUp
    <3> QED BY <3>8, <3>9, <3>10 DEF CalmAll
  <2>4. ~RejectsSubscribe(m) /\ ~PostponesUnsubscribe(m)
    BY DEF RejectsSubscribe, PostponesUnsubscribe, CalmDevice
  <2>5. ~AnswersUnsubscribe(m) /\ ~IgnoresTime(m)
    BY <1>7, SessionSignals DEF AnswersUnsubscribe, IgnoresTime, Msg, Begin
  <2> QED BY <1>2, <2>2, <2>3, <2>4, <2>5
<1>8. CASE m = End
  <2>1. /\ toDevice \in {<<End>>, <<End, Begin>>} /\ Ending /\ ~Has(toClient, {End})
        /\ toDevice' \in {<<>>, <<Begin>>}
        /\ Has(toDevice', {Begin}) <=> Has(toDevice, {Begin})
        /\ toDevice' = <<>> => ~Starting
    BY <1>5, <1>8, MessagesDiffer
  <2>2. AnswersUnsubscribe(m)
    BY <1>2, <1>8, SessionSignals
       DEF DropsSubscribe, RejectsSubscribe, AnswersSubscribe, PostponesUnsubscribe, IgnoresTime, Msg, End,
           CalmDevice
  <2>3. toClient' = toClient \o <<End>> /\ ~serving' /\ late' = late
    BY <2>2 DEF AnswersUnsubscribe, Sends, Unsubscribed, End
  <2>4. /\ <<End>> \in Seq(Messages) /\ \A M : Has(<<End>>, M) <=> End \in M
        /\ \A A, B : NoneAfter(<<End>>, A, B)
    BY OneMessage, MessagesAre DEF NoneAfter
  <2>5. /\ \A M : Has(toClient', M) <=> Has(toClient, M) \/ Has(<<End>>, M)
        /\ NoneAfter(toClient', {Begin, TimeData, ValueData}, {Begin, End})
        /\ NoneAfter(toClient', {End}, {End})
    BY <1>1, <1>3, <2>1, <2>3, <2>4, SendFacts
  <2>6. Starting' = Starting /\ Ending'
    BY <2>1, <2>4, <2>5, MessagesDiffer DEF Starting, Ending
  <2>7. CalmQueues'
    BY <1>1, <1>2, <1>3, <2>1, <2>3, <2>4, <2>5, DeviceQueues, MessagesDiffer DEF CalmQueues
  <2>8. CalmEnds'
    BY <1>1, <1>2, <2>1, <2>3, <2>6 DEF CalmAll, CalmEnds
  <2>9. CalmRequests'
    <3>1. Has(toClient', {TimeData, ValueData}) => Has(toClient, {TimeData, ValueData})
      BY <2>4, <2>5, MessagesDiffer
    <3> QED BY <1>2, <2>1, <2>3, <2>6, <3>1 DEF CalmAll, CalmRequests
  <2> QED BY <2>7, <2>8, <2>9 DEF CalmAll
<1> QED BY <1>5, <1>7, <1>8

LEMMA CalmSendsTime ==
  ASSUME SessionInv, CalmAll, DeviceSendsTime
  PROVE  CalmAll'
<1>1. /\ SessionTypes /\ late /\ toDevice = <<>> /\ requests = <<>>
      /\ NoneAfter(toClient, {Begin, TimeData, ValueData}, {Begin, End}) /\ NoneAfter(toClient, {End}, {End})
  BY DEF SessionInv, DeviceSendsTime, CalmAll, CalmQueues, CalmRequests
<1>2. /\ toClient' = toClient \o <<TimeData>> /\ late' = FALSE
      /\ UNCHANGED <<known, published, subscribed, fetch, wire, share, wanted, requests, options,
                     toDevice, received, serving>>
  BY DEF DeviceSendsTime, Sends, TimeData, vars, entryVars, appVars, wireVars
<1>3. /\ <<TimeData>> \in Seq(Messages) /\ \A M : Has(<<TimeData>>, M) <=> TimeData \in M
      /\ \A A, B : NoneAfter(<<TimeData>>, A, B)
  BY OneMessage, MessagesAre DEF NoneAfter
<1>4. /\ \A M : Has(toClient', M) <=> Has(toClient, M) \/ TimeData \in M
      /\ NoneAfter(toClient', {Begin, TimeData, ValueData}, {Begin, End})
      /\ NoneAfter(toClient', {End}, {End})
  BY <1>1, <1>2, <1>3, SendFacts, MessagesDiffer
<1>5. Starting' = Starting /\ Ending' = Ending
  BY <1>2, <1>4, MessagesDiffer DEF Starting, Ending
<1>6. CalmQueues'
  BY <1>1, <1>2, <1>4, MessagesDiffer, DeviceQueues DEF CalmAll, CalmQueues
<1>7. CalmEnds'
  BY <1>2, <1>5 DEF CalmAll, CalmEnds, Answered
<1>8. CalmRequests'
  BY <1>1, <1>2, <1>5 DEF CalmAll, CalmRequests, Wants, GivesUp
<1> QED BY <1>6, <1>7, <1>8 DEF CalmAll

-----------------------------------------------------------------------------
(* Calm sessions: the timer and the requests of the application.           *)

\* What a change of the subscription count sends to the device.
LEMMA CalmSends ==
  ASSUME ClientInv, SessionTypes, TimeUntouched, TimeUntouched', SendRequests,
         wire[Value] \in {0, 1}
  PROVE  /\ wire'[Value] = wire[Value] => toDevice' = toDevice
         /\ wire[Value] = 0 /\ wire'[Value] = 1 =>
              /\ toDevice = <<>> => toDevice' = <<Begin>>
              /\ toDevice = <<End>> => toDevice' = <<End, Begin>>
         /\ wire[Value] = 1 /\ wire'[Value] = 0 /\ toDevice = <<>> => toDevice' = <<End>>
<1>1. /\ toDevice' = toDevice \o RequestsFor(Value)
      /\ RequestsFor(Value) = CASE wire[Value] <= 0 /\ wire'[Value] > 0 -> <<Begin>>
                                [] wire[Value] > 0 /\ wire'[Value] <= 0 -> <<End>>
                                [] OTHER -> <<>>
  BY RequestsForValue
<1>2. wire'[Value] = wire[Value] => toDevice' = toDevice
  BY NothingSent
<1>3. wire[Value] = 0 /\ wire'[Value] = 1 => toDevice' = toDevice \o <<Begin>>
  BY <1>1
<1>4. wire[Value] = 1 /\ wire'[Value] = 0 => toDevice' = toDevice \o <<End>>
  BY <1>1
<1> QED BY <1>2, <1>3, <1>4, DeviceQueues

\* With nothing in flight, the client gives the subscription up, or makes it.
LEMMA CalmTimer ==
  ASSUME SessionInv, CalmAll, Calm, ClientTimer, TimeUntouched'
  PROVE  CalmAll'
<1>1. ClientInv /\ SessionTypes /\ TimeUntouched /\ Value \in Signal
  BY SessionSignals DEF SessionInv
<1>2. /\ toClient = <<>> /\ toDevice = <<>> /\ ~late
      /\ SendRequests /\ TimerEvent
      /\ UNCHANGED <<toClient, options, received, serving, late>>
  BY DEF ClientTimer, Calm, InFlight, deviceVars
<1>3. ~Starting /\ ~Ending /\ \A M : ~Has(toClient, M)
  <2>1. ASSUME NEW M PROVE ~Has(toClient, M) /\ ~Has(toDevice, M)
    BY <1>2, HasFew
  <2> QED BY <2>1 DEF Starting, Ending
<1>4. /\ Value \in known /\ share[Value] \in {0, 1} /\ wire[Value] \in {0, 1}
      /\ wire[Value] = share[Value] + (IF fetch[Value] \in {"Fetching", "Held"} THEN 1 ELSE 0)
      /\ Value \notin published => share[Value] = 0 /\ Value \notin subscribed /\ requests = <<>>
      /\ fetch[Value] = "Held" => Value \in published
      /\ fetch[Value] \in {"Fetching", "AwaitingRetry"} => Value \notin published
  <2>1. toClient # <<Offered>>
    BY <1>2
  <2> QED BY <1>1, <2>1, CountsOfValue DEF CalmAll, CalmQueues, CalmEnds, CalmRequests
<1>5. /\ UNCHANGED <<known, described, subscribed, wanted, requests, share>>
      /\ published \subseteq published'
  <2>1. CASE InitialFetchSweep
    BY <1>1, <2>1, SweepView DEF appVars
  <2>2. CASE InitialFetchResubscribe
    BY <1>1, <2>2, ResubscribeView DEF appVars
  <2> QED BY <1>2, <2>1, <2>2 DEF TimerEvent
<1>6. \A A, B : NoneAfter(toClient', A, B)
  BY <1>2 DEF NoneAfter
<1>7. CASE /\ wire'[Value] = wire[Value]
           /\ \/ fetch'[Value] = fetch[Value] /\ (Value \in published' <=> Value \in published)
              \/ Value \in published' \ published
  <2>1. toDevice' = <<>>
    BY <1>1, <1>2, <1>4, <1>7, CalmSends
  <2>2. Starting' = Starting /\ Ending' = Ending
    BY <1>2, <2>1 DEF Starting, Ending
  <2>3. CalmQueues'
    BY <1>2, <1>3, <1>4, <1>5, <1>6, <2>1, DeviceQueues DEF CalmQueues
  <2>4. CalmEnds'
    BY <1>2, <1>3, <1>4, <1>5, <1>7, <2>1, <2>2 DEF CalmAll, CalmEnds, Answered
  <2>5. CalmRequests'
    BY <1>2, <1>3, <1>4, <1>5, <1>7, <2>2 DEF CalmAll, CalmRequests, Wants, GivesUp
  <2> QED BY <2>3, <2>4, <2>5 DEF CalmAll
<1>8. CASE /\ wire'[Value] = wire[Value] - 1 /\ SweepTakes(Value)
           /\ Value \in published' <=> Value \in published
  <2>1. share[Value] = 0 /\ wire[Value] = 1 /\ fetch'[Value] # "Held" /\ wire'[Value] = 0
    BY <1>4, <1>8 DEF SweepTakes
  <2>2. toDevice' = <<End>>
    BY <1>1, <1>2, <2>1, CalmSends
  <2>3. ~Starting' /\ Ending'
    BY <1>2, <1>3, <2>2, DeviceQueues, MessagesDiffer DEF Starting, Ending
  <2>4. CalmQueues'
    BY <1>2, <1>3, <1>4, <1>5, <1>6, <2>2, DeviceQueues DEF CalmQueues
  <2>5. CalmEnds'
    BY <1>2, <1>5, <1>8, <2>1, <2>2, <2>3, DeviceQueues DEF CalmAll, CalmEnds
  <2>6. CalmRequests'
    BY <1>2, <1>3, <1>5, <1>8, <2>1, <2>3 DEF CalmAll, CalmRequests
  <2> QED BY <2>4, <2>5, <2>6 DEF CalmAll
<1>9. CASE /\ fetch[Value] = "AwaitingRetry" /\ fetch'[Value] = "Fetching"
           /\ wire'[Value] = wire[Value] + 1 /\ published' = published
  <2>1. share[Value] = 0 /\ wire[Value] = 0 /\ wire'[Value] = 1 /\ Value \notin published
    BY <1>4, <1>9
  <2>2. toDevice' = <<Begin>>
    BY <1>1, <1>2, <2>1, CalmSends
  <2>3. Starting' /\ ~Ending'
    BY <1>2, <1>3, <2>2, DeviceQueues, MessagesDiffer DEF Starting, Ending
  <2>4. CalmQueues'
    BY <1>2, <1>3, <1>4, <1>5, <1>6, <2>2, DeviceQueues DEF CalmQueues
  <2>5. CalmEnds'
    BY <1>2, <1>5, <1>9, <2>1, <2>2, <2>3, DeviceQueues DEF CalmAll, CalmEnds
  <2>6. CalmRequests'
    BY <1>4, <1>5, <2>1 DEF CalmAll, CalmRequests, Wants, GivesUp
  <2> QED BY <2>4, <2>5, <2>6 DEF CalmAll
<1>10. CASE InitialFetchSweep
  <2>1. PICK new : /\ new \subseteq described \ published /\ published' = published \cup new
                   /\ \A s \in Signal :
                        \/ s \in new /\ fetch'[s] = FetchOncePublished(fetch[s]) /\ wire'[s] = wire[s]
                        \/ s \notin new /\ SweepTakes(s) /\ wire'[s] = wire[s] - 1
                        \/ s \notin new /\ fetch'[s] = fetch[s] /\ wire'[s] = wire[s]
    BY <1>1, <1>10, SweepView
  <2> QED BY <1>1, <1>7, <1>8, <2>1
<1>11. CASE InitialFetchResubscribe
  BY <1>1, <1>7, <1>9, <1>11, ResubscribeView DEF RetryDue
<1> QED BY <1>2, <1>10, <1>11 DEF TimerEvent

\* A request of the application is served: none is refused.
LEMMA CalmServed ==
  ASSUME SessionInv, CalmAll, NEW s \in Signal
  PROVE  /\ ~SubscribeRefused(s)
         /\ SubscribeTakesOver(s) \/ SubscribeSent(s) => s = Value /\ requests = Wants
         /\ UnsubscribeServed(s) => s = Value /\ requests = GivesUp /\ s \in subscribed
<1>1. requests \in {<<>>, Wants, GivesUp}
  BY DEF CalmAll, CalmRequests
<1>2. /\ Head(Wants).kind = "Subscribe" /\ Head(Wants).signal = Value
      /\ Head(GivesUp).kind = "Unsubscribe" /\ Head(GivesUp).signal = Value
  BY DEF Wants, GivesUp
<1>3. ASSUME NEW kind \in {"Subscribe", "Unsubscribe"}, Serving(kind, s)
      PROVE  s = Value /\ requests = IF kind = "Subscribe" THEN Wants ELSE GivesUp
  <2>1. requests # <<>> /\ Head(requests).kind = kind /\ Head(requests).signal = s
    BY <1>3 DEF Serving
  <2> QED BY <1>1, <1>2, <1>3, <2>1
<1>4. ASSUME SubscribeRefused(s) PROVE FALSE
  <2>1. s = Value /\ requests = Wants
    BY <1>3, <1>4 DEF SubscribeRefused
  <2> QED BY <1>4, <2>1 DEF SubscribeRefused, CalmAll, CalmRequests
<1>5. SubscribeTakesOver(s) \/ SubscribeSent(s) => s = Value /\ requests = Wants
  BY <1>3 DEF SubscribeTakesOver, SubscribeSent
<1>6. UnsubscribeServed(s) => s = Value /\ requests = GivesUp
  BY <1>3 DEF UnsubscribeServed
<1>7. requests = GivesUp => Value \in subscribed
  BY DEF CalmAll, CalmRequests
<1> QED BY <1>4, <1>5, <1>6, <1>7

LEMMA CalmClientServes ==
  ASSUME SessionInv, CalmAll, ClientServes, TimeUntouched'
  PROVE  CalmAll'
<1>1. /\ ClientInv /\ SessionTypes /\ TimeUntouched /\ Value \in Signal
      /\ wire \in [Signal -> Int] /\ share \in [Signal -> Int] /\ fetch \in [Signal -> FetchState]
  BY SessionSignals DEF SessionInv, ClientInv, TypeInv, TypeOK
<1>2. SendRequests /\ UNCHANGED <<toClient, options, received, serving, late>>
  BY DEF ClientServes, deviceVars
<1>3. /\ share[Value] \in {0, 1} /\ wire[Value] \in {0, 1}
      /\ wire[Value] = share[Value] + (IF fetch[Value] \in {"Fetching", "Held"} THEN 1 ELSE 0)
      /\ fetch[Value] = "Fetching" => Value \notin published
      /\ Value \in published => Value \in known
  BY <1>1, CountsOfValue DEF CalmAll, CalmEnds
<1>4. PICK s \in Signal : SubscribeTakesOver(s) \/ SubscribeSent(s) \/ UnsubscribeServed(s)
  BY CalmServed DEF ClientServes, ServeRequest
<1>5. s = Value /\ (UnsubscribeServed(s) => requests = GivesUp)
      /\ (~UnsubscribeServed(s) => requests = Wants)
  BY <1>4, CalmServed
<1>6. requests' = <<>> /\ UNCHANGED <<known, published, wanted>>
  <2>1. requests' = Tail(requests) /\ UNCHANGED <<known, published, wanted>>
    BY <1>4 DEF SubscribeTakesOver, SubscribeSent, UnsubscribeServed, Serving
  <2>2. Tail(Wants) = <<>> /\ Tail(GivesUp) = <<>>
    BY DEF Wants, GivesUp
  <2> QED BY <1>5, <2>1, <2>2
<1>7. /\ ~late /\ ~Has(toClient, {Begin, TimeData, ValueData}) /\ ~Starting
      /\ Value \in published /\ Value \in known
  <2>1. requests # <<>>
    BY <1>5 DEF Wants, GivesUp
  <2>2. ~late /\ ~Has(toClient, {TimeData, ValueData}) /\ ~Starting /\ Value \in published
    BY <1>1, <1>5, <2>1, CountsOfValue DEF CalmAll, CalmRequests
  <2>3. ~Has(toClient, {Begin})
    BY <2>2 DEF Starting
  <2> QED BY <1>3, <2>2, <2>3 DEF Has
<1>8. /\ toDevice \in {<<>>, <<End>>} /\ (toDevice = <<End>> => Ending)
      /\ (toDevice = <<End>> => ~Has(toClient, {End}))
  <2>1. ~Has(toDevice, {Begin})
    BY <1>7 DEF Starting
  <2>2. toDevice \in {<<>>, <<End>>}
    BY <2>1, DeviceQueues DEF CalmAll, CalmQueues
  <2>3. toDevice = <<End>> => Has(toDevice, {End})
    BY DeviceQueues
  <2> QED BY <2>2, <2>3 DEF Ending, CalmAll, CalmQueues
<1>9. CASE SubscribeTakesOver(Value)
  <2>1. /\ fetch[Value] = "Held" /\ fetch'[Value] = "None" /\ share[Value] = 0 /\ share'[Value] = 1
        /\ wire' = wire /\ subscribed' = subscribed \cup {Value} /\ Value \in wanted
        /\ ~Ending
    BY <1>1, <1>3, <1>5, <1>9
       DEF SubscribeTakesOver, TakesOver, CalmAll, CalmEnds, CalmRequests, UnsubscribeServed, Serving
  <2>2. toDevice' = toDevice
    BY <1>1, <1>2, <1>3, <2>1, CalmSends
  <2>3. ~Starting' /\ ~Ending'
    BY <1>2, <1>7, <2>1, <2>2 DEF Starting, Ending
  <2>4. CalmQueues'
    BY <1>2, <1>6, <1>7, <2>2 DEF CalmAll, CalmQueues
  <2>5. CalmEnds'
    BY <1>2, <1>6, <1>7, <2>1, <2>2, <2>3 DEF CalmAll, CalmEnds, Answered
  <2>6. CalmRequests'
    BY <1>6, <2>1 DEF CalmRequests, Wants, GivesUp
  <2> QED BY <2>4, <2>5, <2>6 DEF CalmAll
<1>10. CASE SubscribeSent(Value)
  <2>1. /\ fetch[Value] # "Held" /\ fetch'[Value] = fetch[Value] /\ share[Value] = 0
        /\ share'[Value] = 1 /\ wire[Value] = 0 /\ wire'[Value] = 1
        /\ subscribed' = subscribed \cup {Value} /\ Value \in wanted
    <3>1. requests = Wants
      BY <1>10, CalmServed, SessionSignals
    <3> QED BY <1>1, <1>3, <1>7, <1>10, <3>1
            DEF SubscribeSent, TakesOver, CalmAll, CalmRequests
  <2>2. /\ toDevice = <<>> => toDevice' = <<Begin>>
        /\ toDevice = <<End>> => toDevice' = <<End, Begin>>
    BY <1>1, <1>2, <2>1, CalmSends
  <2>3. Starting'
    BY <1>8, <2>2, DeviceQueues DEF Starting
  <2>4. Has(toDevice', {End}) => ~Has(toClient', {End})
    BY <1>2, <1>8, <2>2, DeviceQueues, MessagesDiffer
  <2>5. CalmQueues'
    BY <1>2, <1>6, <1>7, <1>8, <2>2, <2>4 DEF CalmAll, CalmQueues
  <2>6. toDevice' # <<>>
    BY <1>8, <2>2, DeviceQueues
  <2>7. CalmEnds'
    BY <1>6, <1>7, <2>1, <2>3, <2>6 DEF CalmEnds
  <2>8. CalmRequests'
    BY <1>6, <2>1 DEF CalmRequests, Wants, GivesUp
  <2> QED BY <2>5, <2>7, <2>8 DEF CalmAll
<1>11. CASE UnsubscribeServed(Value)
  <2>1. /\ Value \notin wanted /\ share[Value] = 1 /\ Value \in subscribed /\ ~Ending
        /\ requests = GivesUp
    BY <1>5, <1>11 DEF CalmAll, CalmRequests
  <2>2. /\ fetch' = fetch /\ subscribed' = subscribed /\ fetch[Value] # "Held"
        /\ share'[Value] = 0 /\ wire[Value] = 1 /\ wire'[Value] = 0
    BY <1>1, <1>3, <1>11, <2>1 DEF UnsubscribeServed
  <2>3. toDevice = <<>> /\ toDevice' = <<End>>
    BY <1>1, <1>2, <1>8, <2>1, <2>2, CalmSends
  <2>4. ~Starting' /\ Ending' /\ ~Has(toClient', {End})
    BY <1>2, <1>7, <2>1, <2>3, DeviceQueues, MessagesDiffer DEF Starting, Ending
  <2>5. CalmQueues'
    BY <1>2, <1>6, <1>7, <2>3, <2>4 DEF CalmAll, CalmQueues
  <2>6. CalmEnds'
    BY <1>6, <1>7, <2>2, <2>3, <2>4, DeviceQueues DEF CalmEnds
  <2>7. CalmRequests'
    BY <1>6, <2>1, <2>2 DEF CalmRequests, Wants, GivesUp
  <2> QED BY <2>5, <2>6, <2>7 DEF CalmAll
<1> QED BY <1>4, <1>5, <1>9, <1>10, <1>11

\* The application changes its mind while nothing is in flight.
LEMMA CalmAsks ==
  ASSUME SessionInv, CalmAll, Calm, ApplicationAsks
  PROVE  CalmAll'
<1>1. ClientInv /\ TimeUntouched /\ Signal = {Time, Value} /\ AppSignals = {Value}
  BY SessionSignals DEF SessionInv
<1>2. /\ toClient = <<>> /\ toDevice = <<>> /\ ~late /\ requests = <<>>
      /\ UNCHANGED <<toDevice, toClient, options, received, serving, late>>
  BY DEF ApplicationAsks, Calm, InFlight, deviceVars
<1>3. ~Starting /\ ~Ending /\ \A M : ~Has(toClient, M)
  <2>1. ASSUME NEW M PROVE ~Has(toClient, M) /\ ~Has(toDevice, M)
    BY <1>2, HasFew
  <2> QED BY <2>1 DEF Starting, Ending
<1>4. PICK t \in Signal : AskSubscribe(t) \/ AskUnsubscribe(t)
  BY DEF ApplicationAsks, Application
<1>5. t = Value
  BY <1>1, <1>4 DEF AskSubscribe, AskUnsubscribe, TimeUntouched
<1>6. UNCHANGED <<known, published, subscribed, fetch, wire, share>>
  BY <1>4 DEF AskSubscribe, AskUnsubscribe, entryVars, wireVars
<1>7. Starting' = Starting /\ Ending' = Ending
  BY <1>2 DEF Starting, Ending
<1>8. CalmQueues'
  BY <1>2, <1>6 DEF CalmAll, CalmQueues
<1>9. CalmEnds'
  BY <1>2, <1>6, <1>7 DEF CalmAll, CalmEnds, Answered
<1>10. CASE AskSubscribe(Value)
  <2>1. requests' = Wants /\ wanted' = wanted \cup {Value} /\ Value \in published \ wanted
    BY <1>2, <1>10 DEF AskSubscribe, Wants
  <2>2. share[Value] = 0 /\ Value \notin subscribed
    BY <1>2, <1>3, <2>1 DEF CalmAll, CalmEnds, CalmRequests
  <2> QED BY <1>2, <1>3, <1>6, <1>7, <1>8, <1>9, <2>1, <2>2 DEF CalmAll, CalmRequests, Wants, GivesUp
<1>11. CASE AskUnsubscribe(Value)
  <2>1. requests' = GivesUp /\ wanted' = wanted \ {Value} /\ Value \in wanted
    BY <1>2, <1>11 DEF AskUnsubscribe, GivesUp
  <2>2. share[Value] = 1 /\ Value \in subscribed
    BY <1>2, <1>3, <2>1 DEF CalmAll, CalmEnds, CalmRequests
  <2> QED BY <1>2, <1>3, <1>6, <1>7, <1>8, <1>9, <2>1, <2>2 DEF CalmAll, CalmRequests, Wants, GivesUp
<1> QED BY <1>4, <1>5, <1>10, <1>11

-----------------------------------------------------------------------------
(* The invariant.                                                          *)

LEMMA CalmInvStep ==
  ASSUME SessionInv, [SessionNext]_sessionVars, TimeUntouched'
  PROVE  CalmInv'
<1>1. options' = options
  BY DEF SessionNext, Receive, DeviceServes, DeviceSendsTime, DeviceActs, ClientTimer, ClientServes,
         ApplicationAsks, Rest, sessionVars, deviceVars
<1> SUFFICES ASSUME Calm PROVE CalmAll'
  BY <1>1 DEF CalmInv, CalmAll, Calm
<1>2. CalmAll /\ CalmDevice /\ impulses \in Nat
  BY DEF SessionInv, CalmInv, CalmAll, Calm, CalmDevice, SessionTypes
<1>3. ~DeviceActs
  BY <1>2 DEF DeviceActs, DeviceUnsubscribes, DeviceAdvertisesTime, CalmDevice
<1>4. CASE Rest \/ UNCHANGED sessionVars
  <2>1. UNCHANGED <<vars, toDevice, toClient, deviceVars>>
    BY <1>4 DEF Rest, sessionVars
  <2>2. UNCHANGED <<known, published, subscribed, fetch, wire, share, wanted, requests, toDevice,
                    toClient, options, received, serving, late>>
    BY <2>1 DEF vars, entryVars, appVars, wireVars, deviceVars
  <2>3. Starting' = Starting /\ Ending' = Ending
    BY <2>2 DEF Starting, Ending
  <2> QED BY <1>2, <2>2, <2>3 DEF CalmAll, CalmQueues, CalmEnds, CalmRequests, Answered
<1> QED BY <1>2, <1>3, <1>4, CalmReceives, CalmServes, CalmSendsTime, CalmTimer, CalmClientServes,
           CalmAsks DEF SessionNext

LEMMA SessionInvInit == SessionInit => SessionInv
<1> SUFFICES ASSUME SessionInit PROVE SessionInv
  OBVIOUS
<1>1. /\ Init /\ ClientInv
      /\ toDevice = <<>> /\ toClient = <<Offered>> /\ options \in Sessions
      /\ received = 0 /\ serving = FALSE /\ postponed = FALSE /\ late = FALSE
      /\ impulses = 0 /\ hidden = "Unknown"
  BY ClientInvInit DEF SessionInit, Offered
<1>2. Value \in Signal /\ Time \in Signal
  BY SessionSignals
<1>3. /\ \A M : ~Has(toDevice, M) /\ (Has(toClient, M) <=> Offered \in M)
      /\ \A A, B : NoneAfter(toClient, A, B)
  <2>1. \A M : Has(<<Offered>>, M) <=> Offered \in M
    BY OneMessage, MessagesAre
  <2>2. \A M : ~Has(<<>>, M)
    BY OneMessage
  <2>3. \A A, B : NoneAfter(<<Offered>>, A, B)
    BY DEF NoneAfter
  <2> QED BY <1>1, <2>1, <2>2, <2>3
<1>4. /\ known = {} /\ described = {} /\ published = {} /\ subscribed = {} /\ wanted = {}
      /\ requests = <<>> /\ phase = "Running"
      /\ fetch[Value] = "None" /\ wire[Value] = 0 /\ share[Value] = 0
      /\ fetch[Time] = "None" /\ wire[Time] = 0 /\ domain[Time] = NoDomain
  BY <1>1, <1>2 DEF Init
<1>5. SessionTypes
  <2>1. <<Offered>> \in Seq(Messages) /\ <<>> \in Seq({Begin, End})
    BY OneMessage, MessagesAre
  <2> QED BY <1>1, <2>1 DEF SessionTypes
<1>6. TimeUntouched /\ DescribedInv /\ LinkInv
  BY <1>4 DEF TimeUntouched, DescribedInv, LinkInv
<1>7. ~Answered
  BY <1>1, SessionOptions DEF Answered
<1>8. TimeInv
  <2>1. /\ Precedes(toClient, {TimeBegins}, {ValueData}) /\ Precedes(toClient, {TimeData}, {TimeOffered})
        /\ Precedes(toClient, {ValueData}, {TimeOffered})
    BY <1>3, MessagesDiffer, NothingToPrecede
  <2>2. ~Has(toClient, {ValueData})
    BY <1>3, MessagesDiffer
  <2> QED BY <1>1, <1>4, <1>7, <2>1, <2>2 DEF TimeInv
<1>9. ~Starting /\ ~Ending
  BY <1>3, MessagesDiffer DEF Starting, Ending
<1>10. CalmQueues
  BY <1>1, <1>3, <1>4, MessagesDiffer DEF CalmQueues
<1>11. CalmEnds
  BY <1>4, <1>7, <1>9 DEF CalmEnds
<1>12. CalmRequests
  BY <1>4 DEF CalmRequests, Wants, GivesUp
<1> QED BY <1>1, <1>5, <1>6, <1>8, <1>10, <1>11, <1>12 DEF SessionInv, CalmInv

LEMMA SessionInvNext == SessionInv /\ [SessionNext]_sessionVars => SessionInv'
<1> SUFFICES ASSUME SessionInv, [SessionNext]_sessionVars PROVE SessionInv'
  OBVIOUS
<1>1. ClientInv'
  BY SessionStep, ClientInvNext DEF SessionInv
<1>2. TimeUntouched'
  BY TimeUntouchedStep
<1>3. SessionTypes' /\ CalmInv'
  BY <1>2, SessionTypesStep, CalmInvStep
<1>4. TimeInv' /\ DescribedInv'
  BY TimeInvStep, DescribedStep
<1>5. LinkInv'
  BY <1>4, LinkStep
<1> QED BY <1>1, <1>2, <1>3, <1>4, <1>5 DEF SessionInv

LEMMA SessionInvariant == SessionSpec => []SessionInv
BY SessionInvInit, SessionInvNext, PTL DEF SessionSpec

-----------------------------------------------------------------------------
(* The theorems.                                                           *)

\* Every session is a behaviour of the client of WsStreaming.tla, whose device
\* may do anything: what is proved of WsStreaming holds in a session.
THEOREM SessionIsClient == SessionSpec => Spec
<1>1. SessionInit => Init
  BY DEF SessionInit
<1>2. SessionInv /\ [SessionNext]_sessionVars => [Next]_vars
  BY SessionStep DEF SessionInv
<1> QED BY <1>1, <1>2, SessionInvariant, PTL DEF SessionSpec, Spec

\* Whatever device, when a session without disturbances has come to rest, the
\* device serves the value signal exactly if an application wants it, and in
\* every session the time signal is never subscribed.
THEOREM SettledServedIffWantedHolds == SessionSpec => []SettledServedIffWanted
<1>1. SessionInv => SettledServedIffWanted
  <2> SUFFICES ASSUME SessionInv PROVE SettledServedIffWanted
    OBVIOUS
  <2>1. /\ ClientInv /\ TimeUntouched /\ TimeInv /\ DescribedInv /\ CalmInv
        /\ Value \in Signal
    BY SessionSignals DEF SessionInv
  <2>2. ASSUME Calm, Settled PROVE serving <=> Value \in wanted
    <3>1. /\ toDevice = <<>> /\ requests = <<>> /\ timer = "Idle"
          /\ CalmEnds /\ CalmRequests
      BY <2>1, <2>2 DEF Settled, InFlight, CalmInv
    <3>2. fetch[Value] \notin {"Fetching", "Held"}
      BY <2>1, <3>1, CountsOfValue DEF ClientInv, SweepArmedWhilePending, AnyPending
    <3>3. wire[Value] = share[Value] /\ (Value \in wanted <=> wire[Value] = 1)
      BY <2>1, <3>1, <3>2, CountsOfValue DEF CalmRequests
    <3>4. serving => Answered
      BY <2>1 DEF TimeInv
    <3>5. Value \in wanted => Answered
      BY <2>1, <3>1, <3>3 DEF CalmEnds, DescribedInv, TimeInv
    <3> QED BY <3>1, <3>3, <3>4, <3>5 DEF CalmEnds
  <2> QED BY <2>1, <2>2 DEF SettledServedIffWanted, TimeUntouched
<1> QED BY <1>1, SessionInvariant, PTL

\* If the device answers before the timer expires, and does not withhold it, the
\* value signal is registered with its time signal, whatever the order in which
\* their metadata arrive and however often the application changes its mind.
THEOREM PublishedWithDomainHolds == SessionSpec => []PublishedWithDomain
<1>1. SessionInv => PublishedWithDomain
  BY DEF SessionInv, LinkInv, PublishedWithDomain
<1> QED BY <1>1, SessionInvariant, PTL

\* In a calm session no request of the application is lost.
THEOREM RequestsHonouredHolds == SessionSpec => RequestsHonoured
<1>1. ASSUME SessionInv
      PROVE  Calm => \A s \in Signal :
                       ~SubscribeRefused(s) /\ (UnsubscribeServed(s) => s \in subscribed)
  <2> SUFFICES ASSUME Calm, NEW s \in Signal
               PROVE  ~SubscribeRefused(s) /\ (UnsubscribeServed(s) => s \in subscribed)
    OBVIOUS
  <2>1. CalmAll
    BY <1>1 DEF SessionInv, CalmInv, CalmAll
  <2> QED BY <1>1, <2>1, CalmServed
<1>2. SessionInv =>
        [Calm => \A s \in Signal :
           ~SubscribeRefused(s) /\ (UnsubscribeServed(s) => s \in subscribed)]_sessionVars
  BY <1>1
<1> QED BY <1>2, SessionInvariant, PTL DEF RequestsHonoured

\* In a calm session the sweep never ends the subscription of a signal that an
\* application has asked for and been served.
THEOREM ReleaseClearOfAppsHolds == SessionSpec => ReleaseClearOfApps
<1>1. ASSUME SessionInv, Calm, fetch[Value] = "Held"
      PROVE  Value \notin wanted \/ requests # <<>>
  <2>1. ClientInv /\ TimeUntouched /\ CalmEnds /\ CalmRequests
    BY <1>1 DEF SessionInv, CalmInv
  <2>2. share[Value] = 0
    BY <1>1, <2>1, CountsOfValue DEF CalmEnds
  <2> QED BY <2>1, <2>2 DEF CalmRequests
<1>2. SessionInv =>
        [Calm /\ InitialFetchSweep /\ fetch[Value] = "Held" /\ fetch'[Value] # "Held"
           => Value \notin wanted \/ requests # <<>>]_sessionVars
  BY <1>1
<1> QED BY <1>2, SessionInvariant, PTL DEF ReleaseClearOfApps

=============================================================================
