---------------------------- MODULE GatewayProofs ----------------------------
(***************************************************************************)
(* Theorems about the way of a payload through the gateway: the Outbox,    *)
(* the Publisher that drains it over an MqttLink, and the whole process    *)
(* with its polling groups, for every ring size, batch size, number of     *)
(* failures and set of groups.                                             *)
(***************************************************************************)
EXTENDS EdgeCollector, FiniteSetTheorems, TLAPS

(* The two queries of the Outbox: SELECT ... ORDER BY id LIMIT n, and the  *)
(* trim built on it.                                                       *)

\* What is selected is older than everything that is not.
LEMMA OldestIsOlder ==
  ASSUME NEW S, IsFiniteSet(S), S \subseteq Nat, NEW n \in Nat,
         NEW i \in Oldest(S, n), NEW j \in S \ Oldest(S, n)
  PROVE  i < j
<1> DEFINE Below(k) == {l \in S : l < k}
<1>1. i \in Nat /\ j \in Nat
  BY DEF Oldest
<1>2. SUFFICES ASSUME j <= i PROVE FALSE
  BY <1>1
<1>3. IsFiniteSet(Below(i)) /\ IsFiniteSet(Below(j))
  BY FS_Subset
<1>4. Below(j) \in SUBSET Below(i)
  <2> SUFFICES ASSUME NEW l \in S, l < j PROVE l < i
    OBVIOUS
  <2>1. l \in Nat
    OBVIOUS
  <2> QED
    BY <1>1, <1>2, <2>1
<1>5. Cardinality(Below(j)) <= Cardinality(Below(i))
  BY <1>3, <1>4, FS_Subset
<1>6. Cardinality(Below(i)) < n
  BY DEF Oldest
<1>7. ~(Cardinality(Below(j)) < n)
  BY DEF Oldest
<1>8. Cardinality(Below(i)) \in Nat /\ Cardinality(Below(j)) \in Nat
  BY <1>3, FS_CardinalityType
<1> HIDE DEF Below
<1> QED
  BY <1>5, <1>6, <1>7, <1>8

\* All that remains once the oldest n are taken out has a rank of n or more,
\* and ranks are unique: at most Cardinality(S) - n rows remain.
LEMMA RemainderBound ==
  ASSUME NEW S, IsFiniteSet(S), S \subseteq Nat, NEW n \in Nat,
         n <= Cardinality(S)
  PROVE  Cardinality(S \ Oldest(S, n)) <= Cardinality(S) - n
<1> DEFINE Rest == S \ Oldest(S, n)
           Below(k) == {l \in S : l < k}
           Rank == [k \in Rest |-> Cardinality(Below(k))]
           Ranks == n .. (Cardinality(S) - 1)
<1>1. Cardinality(S) \in Nat
  BY FS_CardinalityType
<1>2. ASSUME NEW k \in S
      PROVE  IsFiniteSet(Below(k)) /\ Cardinality(Below(k)) \in Nat
  BY FS_Subset, FS_CardinalityType
<1>3. ASSUME NEW k \in S
      PROVE  Cardinality(Below(k)) <= Cardinality(S) - 1
  <2>1. IsFiniteSet(S \ {k}) /\ Cardinality(S \ {k}) = Cardinality(S) - 1
    BY <1>3, FS_RemoveElement
  <2>2. Below(k) \in SUBSET (S \ {k})
    BY <1>3
  <2> QED
    BY <2>1, <2>2, FS_Subset
<1>4. Rank \in [Rest -> Ranks]
  <2> SUFFICES ASSUME NEW k \in Rest PROVE Cardinality(Below(k)) \in Ranks
    OBVIOUS
  <2>1. Cardinality(Below(k)) \in Nat /\ Cardinality(Below(k)) <= Cardinality(S) - 1
    BY <1>2, <1>3
  <2>2. ~(Cardinality(Below(k)) < n)
    BY DEF Oldest
  <2> HIDE DEF Below, Rest
  <2> QED
    BY <2>1, <2>2, <1>1
<1>5. ASSUME NEW a \in Rest, NEW b \in Rest, a < b
      PROVE  Rank[a] < Rank[b]
  <2>1. a \in Nat /\ b \in Nat /\ a \in S /\ b \in S
    OBVIOUS
  <2>2. IsFiniteSet(Below(a)) /\ IsFiniteSet(Below(b))
    BY <2>1, <1>2
  <2>3. Cardinality(Below(a) \cup {a}) = Cardinality(Below(a)) + 1
    <3>1. a \notin Below(a)
      BY <2>1
    <3> QED
      BY <2>2, <3>1, FS_AddElement
  <2>4. Below(a) \cup {a} \in SUBSET Below(b)
    <3> SUFFICES ASSUME NEW l \in S, l < a PROVE l < b
      BY <2>1, <1>5
    <3>1. l \in Nat
      OBVIOUS
    <3> QED
      BY <2>1, <1>5, <3>1
  <2>5. Cardinality(Below(a)) + 1 <= Cardinality(Below(b))
    BY <2>2, <2>3, <2>4, FS_Subset
  <2>6. Cardinality(Below(a)) \in Nat /\ Cardinality(Below(b)) \in Nat
    BY <2>1, <1>2
  <2> HIDE DEF Below
  <2> QED
    BY <2>5, <2>6
<1>6. \A a, b \in Rest : Rank[a] = Rank[b] => a = b
  <2> SUFFICES ASSUME NEW a \in Rest, NEW b \in Rest, Rank[a] = Rank[b], a # b
               PROVE  FALSE
    OBVIOUS
  <2>1. a \in Nat /\ b \in Nat
    OBVIOUS
  <2>2. Rank[a] \in Int /\ Rank[b] \in Int
    BY <1>4, <1>1
  <2>3. a < b \/ b < a
    BY <2>1
  <2> HIDE DEF Rank, Rest
  <2> QED
    BY <2>2, <2>3, <1>5
<1>7. Rank \in Injection(Rest, Ranks)
  BY <1>4, <1>6 DEF Injection, IsInjective
<1>8. IsFiniteSet(Ranks) /\ Cardinality(Ranks) = Cardinality(S) - n
  <2>1. n \in Int /\ Cardinality(S) - 1 \in Int
    BY <1>1
  <2>2. /\ IsFiniteSet(Ranks)
        /\ Cardinality(Ranks) = IF n > Cardinality(S) - 1 THEN 0
                                ELSE (Cardinality(S) - 1) - n + 1
    BY <2>1, FS_Interval
  <2> HIDE DEF Ranks
  <2> QED
    BY <1>1, <2>2
<1> HIDE DEF Rank, Rest, Ranks
<1>9. Cardinality(Rest) <= Cardinality(Ranks)
  BY <1>7, <1>8, FS_Injection
<1> QED
  BY <1>8, <1>9 DEF Rest


\* A trimmed table fits the ring.
THEOREM TrimFits ==
  ASSUME NEW S, IsFiniteSet(S), S \subseteq Nat
  PROVE  Cardinality(S \ Overflow(S)) <= MaxRows
<1>1. Cardinality(S) \in Nat /\ MaxRows \in Nat
  BY FS_CardinalityType, OutboxConstants
<1>2. CASE Cardinality(S) > MaxRows
  <2>1. Cardinality(S) - MaxRows \in Nat /\ Cardinality(S) - MaxRows <= Cardinality(S)
    BY <1>1, <1>2
  <2>2. Cardinality(S \ Oldest(S, Cardinality(S) - MaxRows))
          <= Cardinality(S) - (Cardinality(S) - MaxRows)
    BY <2>1, RemainderBound
  <2>3. Overflow(S) = Oldest(S, Cardinality(S) - MaxRows)
    BY <1>2 DEF Overflow
  <2> QED
    BY <1>1, <2>2, <2>3
<1>3. CASE ~(Cardinality(S) > MaxRows)
  <2>1. S \ Overflow(S) = S
    BY <1>3 DEF Overflow
  <2> QED
    BY <1>1, <1>3, <2>1
<1> QED
  BY <1>2, <1>3

\* A row is trimmed only if there are max_rows younger ones.
THEOREM TrimOnlyWhenFull ==
  ASSUME NEW S, IsFiniteSet(S), S \subseteq Nat, NEW i \in Overflow(S)
  PROVE  Cardinality({j \in S : j > i}) >= MaxRows
<1> DEFINE Below == {j \in S : j < i}
           Above == {j \in S : j > i}
<1>1. Cardinality(S) \in Nat /\ MaxRows \in Nat
  BY FS_CardinalityType, OutboxConstants
<1>2. /\ i \in S
      /\ Cardinality(Below) < Cardinality(S) - MaxRows
  BY DEF Overflow, Oldest
<1>3. i \in Nat
  BY <1>2
<1>4. /\ IsFiniteSet(Below) /\ Cardinality(Below) \in Nat
      /\ IsFiniteSet(Above) /\ Cardinality(Above) \in Nat
  BY FS_Subset, FS_CardinalityType
<1>5. i \notin Below /\ i \notin Above
  BY <1>3
<1>6. /\ IsFiniteSet(Below \cup {i})
      /\ Cardinality(Below \cup {i}) = Cardinality(Below) + 1
  BY <1>4, <1>5, FS_AddElement
<1>7. S = (Below \cup {i}) \cup Above
  <2> SUFFICES ASSUME NEW j \in S PROVE j < i \/ j = i \/ j > i
    BY <1>2
  <2> QED
    BY <1>3
<1>8. (Below \cup {i}) \cap Above = {}
  <2> SUFFICES ASSUME NEW j \in S, j < i, j > i PROVE FALSE
    BY <1>5
  <2> QED
    BY <1>3
<1> HIDE DEF Below, Above
<1>9. Cardinality(S) = Cardinality(Below) + 1 + Cardinality(Above) - Cardinality({})
  BY <1>4, <1>6, <1>7, <1>8, FS_Union
<1>10. Cardinality({}) = 0
  BY FS_EmptySet
<1>11. Cardinality(Above) >= MaxRows
  BY <1>1, <1>2, <1>4, <1>9, <1>10
<1> QED
  BY <1>11 DEF Above

\* What the trim takes is older than everything it leaves.
LEMMA OverflowIsOlder ==
  ASSUME NEW S, IsFiniteSet(S), S \subseteq Nat,
         NEW i \in Overflow(S), NEW j \in S \ Overflow(S)
  PROVE  i < j
<1>1. /\ Cardinality(S) > MaxRows
      /\ Overflow(S) = Oldest(S, Cardinality(S) - MaxRows)
  BY DEF Overflow
<1>2. Cardinality(S) - MaxRows \in Nat
  BY <1>1, FS_CardinalityType, OutboxConstants
<1> QED
  BY <1>1, <1>2, OldestIsOlder

-----------------------------------------------------------------------------
(* The first state.                                                        *)

\* The placeholder for "no message" is a message.
LEMMA NoMessageType == NoMessage \in Message
  BY DEF NoMessage, Message

\* A fresh process with an empty table satisfies the invariant.
LEMMA InitLedger == Init => Ledger
<1> SUFFICES ASSUME Init PROVE Ledger
  OBVIOUS
<1> USE DEF Init, OutboxInit, LinkInit, PublisherInit
<1>1. OutboxTypeOK
  BY OutboxConstants DEF OutboxTypeOK
<1>2. LinkTypeOK
  BY DEF LinkTypeOK
<1>3. PublisherTypeOK
  BY PublisherConstants, NoMessageType DEF PublisherTypeOK
<1>4. OnlyAccepted
  BY DEF OnlyAccepted
<1>5. AckMeansDelivered
  BY DEF AckMeansDelivered
<1>6. BatchAtFront
  BY DEF BatchAtFront
<1>7. NoLoss
  BY DEF NoLoss
<1>8. FlagsOK
  BY DEF FlagsOK
<1>9. DiskLags
  BY DEF DiskLags
<1>10. OldersSettled
  BY DEF OldersSettled
<1>11. FirstArrivalInOrder
  BY DEF FirstArrivalInOrder
<1> QED
  BY <1>1, <1>2, <1>3, <1>4, <1>5, <1>6, <1>7, <1>8, <1>9, <1>10, <1>11
     DEF Ledger, TypeOK

-----------------------------------------------------------------------------
(* What a step does to the table and to the broker's log.                  *)

TableCut ==
  /\ DeleteIds(sentIds)
  /\ sentIds' = {}
  /\ batch' = {}
  /\ UNCHANGED linkVars

CutShort ==
  /\ EnqueueUntrimmed
  /\ Fault
  /\ UNCHANGED broker

\* There are five ways to change the outbox: an enqueue, one cut short, the
\* deletion of the confirmed rows at the end of a batch, the log's reaching the
\* storage, and a power loss.
LEMMA OutboxEffect ==
  ASSUME [Next]_vars
  PROVE  \/ UNCHANGED outboxVars
         \/ Enqueue /\ UNCHANGED <<linkVars, publisherVars>>
         \/ CutShort
         \/ TableCut
         \/ Synced
         \/ PowerLoss
<1> DEFINE Goal == \/ UNCHANGED outboxVars
                   \/ Enqueue /\ UNCHANGED <<linkVars, publisherVars>>
                   \/ CutShort
                   \/ TableCut
                   \/ Synced
                   \/ PowerLoss
<1> SUFFICES Goal
  OBVIOUS
<1>1. CASE PublisherStep
  <2>1. CASE Connect \/ AwaitConnected \/ DrainEnds \/ DrainIdle \/ DrainBatch \/ Wake \/ Confirmed
              \/ Resume
    BY <2>1
       DEF Connect, AwaitConnected, DrainEnds, DrainIdle, DrainBatch, Wake, Confirmed, Resume
  <2>2. ASSUME NEW i \in batch, PublishRow(i) \/ PublishRaises(i) PROVE UNCHANGED outboxVars
    BY <2>2 DEF PublishRow, PublishRaises
  <2>3. CASE Unconfirmed \/ FinishBatch
    BY <2>3 DEF Unconfirmed, FinishBatch, TableCut
  <2> QED
    BY <1>1, <2>1, <2>2, <2>3 DEF PublisherStep
<1>2. CASE NetworkStep
  BY <1>2
     DEF NetworkStep, Reconnect, ConnectionAccepted, DropReported, ResendNext, ArriveNext,
         Acknowledge
<1>3. CASE FaultStep
  <2>1. CASE ConnectFails \/ AwaitTimeout \/ ConnectionDrops \/ ConnectionRefused \/ Crash
              \/ BufferRaises
    BY <2>1
       DEF ConnectFails, AwaitTimeout, ConnectionDrops, ConnectionRefused, Crash, BufferRaises
  <2>2. CASE CrashInEnqueue \/ TrimRaises
    BY <2>2 DEF CrashInEnqueue, Die, LoseClient, TrimRaises, linkVars, CutShort
  <2> QED
    BY <1>3, <2>1, <2>2 DEF FaultStep
<1>4. CASE GroupEnqueues \/ Respawn \/ UNCHANGED vars
  BY <1>4 DEF GroupEnqueues, Respawn, vars
<1> HIDE DEF Goal
<1>5. CASE Synced
  BY <1>5 DEF Goal
<1> QED
  BY <1>1, <1>2, <1>3, <1>4, <1>5 DEF Next

\* The network thread or the publisher changes the session or the event, and
\* nothing that is held, sent or received.
LinkQuiet == UNCHANGED <<out, resend, wire, acks, nextMid, broker>>

\* What the session carried is gone, and perhaps what the client held.
CarriedLost ==
  /\ resend' = {} /\ acks' = {} /\ wire' = <<>>
  /\ out' \subseteq out
  /\ UNCHANGED <<nextMid, broker>>

\* What a step does to the link: it leaves it alone, it ends the session or
\* the client, or it is one of the link's own actions.
LEMMA LinkEffect ==
  ASSUME [Next]_vars
  PROVE  \/ LinkQuiet
         \/ CarriedLost
         \/ \E i \in batch : PublishRow(i) \/ PublishRaises(i)
         \/ OnConnect
         \/ \E m \in resend : Resend(m)
         \/ ArriveNext
         \/ \E m \in acks : Acknowledge(m)
<1> DEFINE Goal == \/ LinkQuiet
                   \/ CarriedLost
                   \/ \E i \in batch : PublishRow(i) \/ PublishRaises(i)
                   \/ OnConnect
                   \/ \E m \in resend : Resend(m)
                   \/ ArriveNext
                   \/ \E m \in acks : Acknowledge(m)
<1> SUFFICES Goal
  OBVIOUS
<1>1. CASE UNCHANGED linkVars
  BY <1>1 DEF linkVars, LinkQuiet
<1>2. CASE CloseClient \/ LoseClient
  BY <1>2 DEF CloseClient, LoseClient, LoseSession, CarriedLost
<1>3. CASE Connect \/ Reconnect
  BY <1>3 DEF Connect, Reconnect, OpenSession, LinkQuiet
<1>4. CASE DropReported
  BY <1>4 DEF DropReported, OnDisconnect, LinkQuiet
<1>5. CASE ConnectionDrops
  BY <1>5 DEF ConnectionDrops, Drop, LoseSession, CarriedLost
<1>6. CASE ConnectionRefused
  BY <1>6 DEF ConnectionRefused, OnConnectRefused, LoseSession, CarriedLost
<1>7. CASE PublisherStep
  <2> USE DEF PublisherStep
  <2>1. CASE AwaitConnected \/ DrainIdle \/ DrainBatch \/ Wake \/ Confirmed \/ Unconfirmed
              \/ Resume \/ FinishBatch
    BY <1>1, <2>1
       DEF AwaitConnected, DrainIdle, DrainBatch, Wake, Confirmed, Unconfirmed, Resume, FinishBatch
  <2>2. CASE DrainEnds
    BY <1>2, <2>2 DEF DrainEnds
  <2> QED
    BY <1>3, <1>7, <2>1, <2>2
<1>8. CASE NetworkStep
  BY <1>3, <1>4, <1>8 DEF NetworkStep, ConnectionAccepted, ResendNext
<1>9. CASE FaultStep
  <2>1. CASE ConnectFails \/ AwaitTimeout \/ BufferRaises
    BY <1>2, <2>1 DEF ConnectFails, AwaitTimeout, BufferRaises
  <2>2. CASE Crash \/ CrashInEnqueue \/ PowerLoss
    BY <1>2, <2>2 DEF Crash, CrashInEnqueue, PowerLoss, Die
  <2>3. CASE TrimRaises
    BY <1>1, <2>3 DEF TrimRaises
  <2> QED
    BY <1>5, <1>6, <1>9, <2>1, <2>2, <2>3 DEF FaultStep
<1>10. CASE GroupEnqueues \/ Synced \/ Respawn \/ UNCHANGED vars
  BY <1>1, <1>10 DEF GroupEnqueues, Synced, Respawn, vars
<1> HIDE DEF Goal
<1> QED
  BY <1>7, <1>8, <1>9, <1>10 DEF Next

\* Only the arrival of a packet changes what the broker has.
LEMMA BrokerEffect ==
  ASSUME [Next]_vars
  PROVE  UNCHANGED broker \/ ArriveNext
BY LinkEffect
   DEF LinkQuiet, CarriedLost, PublishRow, ClientPublish, PublishRaises, OnConnect, Resend,
       Acknowledge, PubAck

\* Of the batch nothing changes, and no row becomes the one waited for.
BatchSame == UNCHANGED <<batch, sentIds, current, confirmed>> /\ (pc' = "wait" => pc = "wait")

\* The frame of _drain_loop is gone: an exception, a cancellation, a crash.
FrameLost ==
  /\ batch' = {} /\ sentIds' = {} /\ current' = NoMessage /\ confirmed' = FALSE
  /\ pc' # "wait"

\* What a step does to the batch: it leaves it alone, it loses it, or it is one
\* of the steps of _drain_loop; or an acknowledgement arrives.
LEMMA BatchEffect ==
  ASSUME [Next]_vars
  PROVE  \/ BatchSame
         \/ FrameLost
         \/ DrainBatch \/ Confirmed \/ Unconfirmed \/ FinishBatch
         \/ \E i \in batch : PublishRow(i)
         \/ \E m \in acks : Acknowledge(m)
<1> DEFINE Goal == \/ BatchSame
                   \/ FrameLost
                   \/ DrainBatch \/ Confirmed \/ Unconfirmed \/ FinishBatch
                   \/ \E i \in batch : PublishRow(i)
                   \/ \E m \in acks : Acknowledge(m)
<1> SUFFICES Goal
  OBVIOUS
<1>1. CASE UNCHANGED publisherVars
  BY <1>1 DEF publisherVars, BatchSame
<1>2. CASE PublisherStep
  <2>1. CASE Connect \/ AwaitConnected \/ DrainIdle \/ Wake \/ Resume
    BY <2>1 DEF Connect, AwaitConnected, DrainIdle, Wake, Resume, BatchSame
  <2>2. CASE DrainEnds
    BY <2>2 DEF DrainEnds, Backoff, FrameLost
  <2>3. ASSUME NEW i \in batch, PublishRaises(i) PROVE FrameLost
    BY <2>3 DEF PublishRaises, Backoff, FrameLost
  <2> QED
    BY <1>2, <2>1, <2>2, <2>3 DEF PublisherStep
<1>3. CASE NetworkStep
  BY <1>1, <1>3 DEF NetworkStep, Reconnect, ConnectionAccepted, DropReported, ResendNext, ArriveNext
<1>4. CASE FaultStep
  <2>1. CASE ConnectFails \/ AwaitTimeout \/ BufferRaises
    BY <2>1 DEF ConnectFails, AwaitTimeout, BufferRaises, Backoff, FrameLost
  <2>2. CASE Crash \/ CrashInEnqueue \/ PowerLoss
    BY <2>2 DEF Crash, CrashInEnqueue, PowerLoss, Die, FrameLost
  <2>3. CASE ConnectionDrops \/ ConnectionRefused \/ TrimRaises
    BY <2>3 DEF ConnectionDrops, ConnectionRefused, TrimRaises, BatchSame
  <2> QED
    BY <1>4, <2>1, <2>2, <2>3 DEF FaultStep
<1>5. CASE GroupEnqueues \/ Synced \/ UNCHANGED vars
  BY <1>1, <1>5 DEF GroupEnqueues, Synced, vars
<1>6. CASE Respawn
  BY <1>6 DEF Respawn, BatchSame
<1> QED
  BY <1>2, <1>3, <1>4, <1>5, <1>6 DEF Next

-----------------------------------------------------------------------------
(* Types.                                                                  *)

\* The table holds ids already handed out, whatever step is taken.
LEMMA NextOutboxType ==
  ASSUME Ledger, [Next]_vars
  PROVE  OutboxTypeOK'
<1> USE OutboxConstants DEF Ledger, TypeOK
<1>1. CASE UNCHANGED outboxVars
  BY <1>1 DEF outboxVars, OutboxTypeOK
<1>2. CASE Enqueue
  <2>1. Overflow(Inserted) \subseteq Inserted
    BY DEF Overflow, Oldest
  <2>2. Inserted \subseteq 1 .. MaxId
    BY <1>2 DEF Enqueue, Inserted, OutboxTypeOK
  <2>3. \A S \in {rows', dropped', disk', lost'} : S \subseteq 1 .. MaxId
    BY <1>2, <2>1, <2>2 DEF Enqueue, OutboxTypeOK
  <2>4. nextId' \in 1 .. MaxId + 1
    BY <1>2 DEF Enqueue, OutboxTypeOK
  <2> QED
    BY <2>3, <2>4 DEF OutboxTypeOK
<1>3. CASE CutShort
  BY <1>3 DEF CutShort, EnqueueUntrimmed, Inserted, OutboxTypeOK
<1>4. CASE TableCut
  BY <1>4 DEF TableCut, DeleteIds, OutboxTypeOK
<1>5. CASE Synced
  BY <1>5 DEF Synced, Flush, OutboxTypeOK
<1>6. CASE PowerLoss
  BY <1>6 DEF PowerLoss, LosePower, OutboxTypeOK
<1> QED
  BY <1>1, <1>2, <1>3, <1>4, <1>5, <1>6, OutboxEffect

\* The session goes through its three states.
LEMMA NextSession ==
  ASSUME session \in {"none", "connecting", "up"}, [Next]_vars
  PROVE  session' \in {"none", "connecting", "up"}
<1>1. CASE UNCHANGED linkVars
  BY <1>1 DEF linkVars
<1>2. CASE CloseClient \/ LoseClient
  BY <1>2 DEF CloseClient, LoseClient, LoseSession
<1>3. CASE PublisherStep
  <2>1. CASE AwaitConnected \/ DrainIdle \/ DrainBatch \/ Wake \/ Confirmed \/ Unconfirmed
              \/ Resume \/ FinishBatch
    BY <1>1, <2>1
       DEF AwaitConnected, DrainIdle, DrainBatch, Wake, Confirmed, Unconfirmed, Resume, FinishBatch
  <2>2. CASE Connect \/ DrainEnds
    BY <1>2, <2>2 DEF Connect, OpenSession, DrainEnds
  <2>3. ASSUME NEW i \in batch, PublishRow(i) \/ PublishRaises(i)
        PROVE  session' \in {"none", "connecting", "up"}
    BY <2>3 DEF PublishRow, ClientPublish, PublishRaises, LoseSession
  <2> QED
    BY <1>3, <2>1, <2>2, <2>3 DEF PublisherStep
<1>4. CASE NetworkStep
  BY <1>4
     DEF NetworkStep, Reconnect, OpenSession, ConnectionAccepted, OnConnect, DropReported,
         OnDisconnect, ResendNext, Resend, ArriveNext, BrokerReceive, Acknowledge, PubAck
<1>5. CASE FaultStep
  <2>1. CASE ConnectFails \/ AwaitTimeout \/ BufferRaises \/ Crash \/ CrashInEnqueue \/ PowerLoss
    BY <1>2, <2>1 DEF ConnectFails, AwaitTimeout, BufferRaises, Crash, CrashInEnqueue, PowerLoss, Die
  <2>2. CASE ConnectionDrops \/ ConnectionRefused \/ TrimRaises
    BY <1>1, <2>2 DEF ConnectionDrops, Drop, ConnectionRefused, OnConnectRefused, LoseSession, TrimRaises
  <2> QED
    BY <1>5, <2>1, <2>2 DEF FaultStep
<1>6. CASE GroupEnqueues \/ Synced \/ Respawn \/ UNCHANGED vars
  BY <1>1, <1>6 DEF GroupEnqueues, Synced, Respawn, vars
<1> QED
  BY <1>3, <1>4, <1>5, <1>6 DEF Next

\* Messages stay messages in every buffer of the client and on the wire.
LEMMA NextLinkType ==
  ASSUME Ledger, [Next]_vars
  PROVE  LinkTypeOK'
<1> DEFINE Typed == /\ out' \subseteq Message /\ resend' \subseteq Message /\ acks' \subseteq Message
                    /\ wire' \in Seq(Message)
                    /\ nextMid' \in Nat \ {0}
                    /\ broker' \in Seq(Nat)
<1> USE DEF Ledger, TypeOK
<1> SUFFICES Typed
  BY NextSession DEF LinkTypeOK
<1>1. CASE LinkQuiet
  BY <1>1 DEF LinkQuiet, LinkTypeOK
<1>2. CASE CarriedLost
  BY <1>2 DEF CarriedLost, LinkTypeOK
<1>3. ASSUME NEW i \in batch, PublishRow(i) \/ PublishRaises(i) PROVE Typed
  <2>1. [mid |-> nextMid, row |-> i] \in Message
    BY DEF LinkTypeOK, PublisherTypeOK, Message
  <2>2. CASE PublishRow(i)
    BY <2>1, <2>2 DEF PublishRow, ClientPublish, LinkTypeOK
  <2>3. CASE PublishRaises(i)
    BY <2>1, <2>3 DEF PublishRaises, LoseSession, LinkTypeOK
  <2> QED
    BY <1>3, <2>2, <2>3
<1>4. CASE OnConnect
  BY <1>4 DEF OnConnect, LinkTypeOK
<1>5. ASSUME NEW m \in resend, Resend(m) PROVE Typed
  BY <1>5 DEF Resend, LinkTypeOK
<1>6. CASE ArriveNext
  <2>1. Head(wire) \in Message /\ Tail(wire) \in Seq(Message)
    BY <1>6 DEF ArriveNext, BrokerReceive, LinkTypeOK
  <2>2. Head(wire).row \in Nat
    BY <2>1 DEF Message
  <2> QED
    BY <1>6, <2>1, <2>2 DEF ArriveNext, BrokerReceive, LinkTypeOK
<1>7. ASSUME NEW m \in acks, Acknowledge(m) PROVE Typed
  BY <1>7 DEF Acknowledge, PubAck, LinkTypeOK
<1> HIDE DEF Typed
<1> QED
  BY <1>1, <1>2, <1>3, <1>4, <1>5, <1>6, <1>7, LinkEffect

\* The publisher goes through its nine places; the failures stay counted.
LEMMA NextPlace ==
  ASSUME PublisherTypeOK, [Next]_vars
  PROVE  /\ pc' \in {"retry", "dial", "await", "drain", "idle", "publish", "wait", "pause", "down"}
         /\ backoffIdx' \in Nat
         /\ faults' \in 0 .. MaxFaults
<1> DEFINE Goal ==
      /\ pc' \in {"retry", "dial", "await", "drain", "idle", "publish", "wait", "pause", "down"}
      /\ backoffIdx' \in Nat
      /\ faults' \in 0 .. MaxFaults
<1> USE PublisherConstants DEF PublisherTypeOK
<1>1. CASE UNCHANGED publisherVars
  BY <1>1 DEF publisherVars
<1>2. CASE PublisherStep
  <2>1. CASE Connect \/ AwaitConnected \/ DrainIdle \/ DrainBatch \/ Wake
    BY <2>1 DEF Connect, AwaitConnected, DrainIdle, DrainBatch, Wake
  <2>2. CASE DrainEnds \/ Confirmed \/ Resume \/ FinishBatch
    BY <2>2 DEF DrainEnds, Backoff, Confirmed, Resume, FinishBatch
  <2>3. CASE Unconfirmed
    BY <2>3 DEF Unconfirmed, Fault, FaultAllowed
  <2>4. ASSUME NEW i \in batch, PublishRow(i) \/ PublishRaises(i) PROVE Goal
    BY <2>4 DEF PublishRow, PublishRaises, Backoff
  <2> QED
    BY <1>2, <2>1, <2>2, <2>3, <2>4 DEF PublisherStep
<1>3. CASE NetworkStep
  <2>1. ASSUME NEW m \in acks, Acknowledge(m) PROVE Goal
    BY <2>1 DEF Acknowledge
  <2> QED
    BY <1>1, <1>3, <2>1
       DEF NetworkStep, Reconnect, ConnectionAccepted, DropReported, ResendNext, ArriveNext
<1>4. CASE FaultStep
  <2>1. CASE ConnectFails \/ AwaitTimeout \/ BufferRaises
    BY <2>1 DEF ConnectFails, AwaitTimeout, BufferRaises, Backoff, Fault, FaultAllowed
  <2>2. CASE Crash \/ CrashInEnqueue \/ PowerLoss
    BY <2>2 DEF Crash, CrashInEnqueue, PowerLoss, Die, Fault, FaultAllowed
  <2>3. CASE ConnectionDrops \/ ConnectionRefused \/ TrimRaises
    BY <2>3 DEF ConnectionDrops, ConnectionRefused, TrimRaises, Fault, FaultAllowed
  <2> QED
    BY <1>4, <2>1, <2>2, <2>3 DEF FaultStep
<1>5. CASE GroupEnqueues \/ Synced \/ UNCHANGED vars
  BY <1>1, <1>5 DEF GroupEnqueues, Synced, vars
<1>6. CASE Respawn
  BY <1>6 DEF Respawn
<1> QED
  BY <1>2, <1>3, <1>4, <1>5, <1>6 DEF Next

\* The publisher's own variables keep their types.
LEMMA NextPublisherType ==
  ASSUME Ledger, [Next]_vars
  PROVE  PublisherTypeOK'
<1> USE DEF Ledger, TypeOK
<1> DEFINE Typed == batch' \subseteq 1 .. MaxId /\ sentIds' \subseteq 1 .. MaxId /\ current' \in Message
<1> SUFFICES Typed
  BY NextPlace DEF PublisherTypeOK
<1>1. CASE BatchSame
  BY <1>1 DEF BatchSame, PublisherTypeOK
<1>2. CASE FrameLost
  BY <1>2, NoMessageType DEF FrameLost
<1>3. CASE DrainBatch
  BY <1>3 DEF DrainBatch, PeekBatch, Oldest, OutboxTypeOK, PublisherTypeOK
<1>4. CASE Confirmed
  <2>1. current.row \in 1 .. MaxId
    BY <1>4 DEF Confirmed, BatchAtFront, IsNext, PublisherTypeOK
  <2> QED
    BY <1>4, <2>1, NoMessageType DEF Confirmed, PublisherTypeOK
<1>5. CASE Unconfirmed \/ FinishBatch
  BY <1>5, NoMessageType DEF Unconfirmed, FinishBatch, PublisherTypeOK
<1>6. ASSUME NEW i \in batch, PublishRow(i) PROVE Typed
  <2>1. [mid |-> nextMid, row |-> i] \in Message
    BY DEF LinkTypeOK, PublisherTypeOK, Message
  <2> QED
    BY <1>6, <2>1 DEF PublishRow, PublisherTypeOK
<1>7. ASSUME NEW m \in acks, Acknowledge(m) PROVE Typed
  BY <1>7 DEF Acknowledge, PublisherTypeOK
<1> HIDE DEF Typed
<1> QED
  BY <1>1, <1>2, <1>3, <1>4, <1>5, <1>6, <1>7, BatchEffect

\* The two flags stay Boolean (apart, because the provers treat Booleans alone
\* better).
LEMMA NextFlags ==
  ASSUME FlagsOK, [Next]_vars
  PROVE  FlagsOK'
<1>1. CASE UNCHANGED linkVars
  <2>1. connected' = connected
    BY <1>1 DEF linkVars
  <2>2. confirmed' \in BOOLEAN
    BY BatchEffect
       DEF BatchSame, FrameLost, DrainBatch, Confirmed, Unconfirmed, FinishBatch, PublishRow,
           Acknowledge, FlagsOK
  <2> QED
    BY <2>1, <2>2 DEF FlagsOK
<1>2. CASE PublisherStep
  <2>1. CASE AwaitConnected \/ DrainIdle \/ DrainBatch \/ Wake \/ Confirmed \/ Unconfirmed
              \/ Resume \/ FinishBatch
    BY <1>1, <2>1
       DEF AwaitConnected, DrainIdle, DrainBatch, Wake, Confirmed, Unconfirmed, Resume, FinishBatch
  <2>2. CASE Connect \/ DrainEnds
    BY <2>2 DEF Connect, OpenSession, DrainEnds, CloseClient, Backoff, FlagsOK
  <2>3. ASSUME NEW i \in batch, PublishRow(i) \/ PublishRaises(i) PROVE FlagsOK'
    BY <2>3 DEF PublishRow, ClientPublish, PublishRaises, Backoff, FlagsOK
  <2> QED
    BY <1>2, <2>1, <2>2, <2>3 DEF PublisherStep
<1>3. CASE NetworkStep
  BY <1>3
     DEF NetworkStep, Reconnect, OpenSession, ConnectionAccepted, OnConnect, DropReported,
         OnDisconnect, ResendNext, Resend, ArriveNext, BrokerReceive, Acknowledge, PubAck,
         publisherVars, FlagsOK
<1>4. CASE FaultStep
  <2>1. CASE ConnectFails \/ AwaitTimeout \/ BufferRaises
    BY <2>1 DEF ConnectFails, AwaitTimeout, BufferRaises, CloseClient, Backoff, FlagsOK
  <2>2. CASE Crash \/ CrashInEnqueue \/ PowerLoss
    BY <2>2 DEF Crash, CrashInEnqueue, PowerLoss, Die, LoseClient, FlagsOK
  <2>3. CASE ConnectionDrops \/ ConnectionRefused
    BY <2>3 DEF ConnectionDrops, Drop, ConnectionRefused, OnConnectRefused, FlagsOK
  <2>4. CASE TrimRaises
    BY <1>1, <2>4 DEF TrimRaises
  <2> QED
    BY <1>4, <2>1, <2>2, <2>3, <2>4 DEF FaultStep
<1>5. CASE GroupEnqueues \/ Synced \/ Respawn \/ UNCHANGED vars
  BY <1>1, <1>5 DEF GroupEnqueues, Synced, Respawn, vars
<1> QED
  BY <1>2, <1>3, <1>4, <1>5 DEF Next

\* Every step preserves the type invariant.
LEMMA NextType ==
  ASSUME Ledger, [Next]_vars
  PROVE  TypeOK'
BY NextOutboxType, NextLinkType, NextPublisherType, NextFlags DEF Ledger, TypeOK

-----------------------------------------------------------------------------
(* What has happened stays.                                                *)

\* An id once handed out stays handed out.
LEMMA AcceptedGrows ==
  ASSUME Ledger, [Next]_vars
  PROVE  Accepted \subseteq Accepted'
<1> USE DEF Ledger, TypeOK, OutboxTypeOK, Accepted
<1>1. CASE UNCHANGED outboxVars
  BY <1>1 DEF outboxVars
<1>2. CASE Enqueue
  BY <1>2 DEF Enqueue
<1>3. CASE CutShort
  BY <1>3 DEF CutShort, EnqueueUntrimmed
<1>4. CASE TableCut
  BY <1>4 DEF TableCut, DeleteIds
<1>5. CASE Synced
  BY <1>5 DEF Synced, Flush
<1>6. CASE PowerLoss
  BY <1>6 DEF PowerLoss, LosePower
<1> QED
  BY <1>1, <1>2, <1>3, <1>4, <1>5, <1>6, OutboxEffect

\* The log gains at most the row of the packet at the head of the wire.
LEMMA DeliveredGrows ==
  ASSUME Ledger, [Next]_vars
  PROVE  /\ Delivered \subseteq Delivered'
         /\ \/ Delivered' = Delivered
            \/ /\ wire # <<>>
               /\ Delivered' = Delivered \cup {Head(wire).row}
<1>1. CASE UNCHANGED broker
  BY <1>1 DEF Delivered
<1>2. CASE ArriveNext
  <2>1. broker \in Seq(Nat) /\ wire # <<>> /\ broker' = Append(broker, Head(wire).row)
    BY <1>2 DEF ArriveNext, BrokerReceive, Ledger, TypeOK, LinkTypeOK
  <2>2. /\ DOMAIN broker = 1 .. Len(broker)
        /\ DOMAIN broker' = 1 .. Len(broker) + 1
        /\ \A k \in 1 .. Len(broker) : broker'[k] = broker[k]
        /\ broker'[Len(broker) + 1] = Head(wire).row
        /\ Len(broker) \in Nat
    BY <2>1
  <2>3. Delivered' = Delivered \cup {Head(wire).row}
    BY <2>2 DEF Delivered
  <2> QED
    BY <2>1, <2>3
<1> QED
  BY <1>1, <1>2, BrokerEffect

-----------------------------------------------------------------------------
(* Nothing is lost.                                                        *)

\* A row that leaves the table has been delivered, is dropped by the ring or is
\* taken by a power loss.
LEMMA NextNoLoss ==
  ASSUME Ledger, [Next]_vars
  PROVE  NoLoss'
<1> SUFFICES ASSUME NEW i \in 1 .. nextId' - 1
             PROVE  i \in rows' \/ i \in Delivered' \/ i \in dropped' \/ i \in lost'
  BY DEF NoLoss
<1>1. Delivered \subseteq Delivered'
  BY DeliveredGrows
<1>2. ASSUME i \in 1 .. nextId - 1
      PROVE  i \in rows \/ i \in Delivered \/ i \in dropped \/ i \in lost
  BY <1>2 DEF Ledger, NoLoss
<1>3. nextId \in Nat
  BY OutboxConstants DEF Ledger, TypeOK, OutboxTypeOK
<1>4. CASE UNCHANGED outboxVars
  BY <1>1, <1>2, <1>4 DEF outboxVars
<1>5. CASE Enqueue
  <2>1. i = nextId \/ i \in 1 .. nextId - 1
    BY <1>3, <1>5 DEF Enqueue
  <2> QED
    BY <1>1, <1>2, <1>5, <2>1 DEF Enqueue, Inserted
<1>6. CASE CutShort
  <2>1. i = nextId \/ i \in 1 .. nextId - 1
    BY <1>3, <1>6 DEF CutShort, EnqueueUntrimmed
  <2> QED
    BY <1>1, <1>2, <1>6, <2>1 DEF CutShort, EnqueueUntrimmed, Inserted
<1>7. CASE TableCut
  BY <1>1, <1>2, <1>7 DEF TableCut, DeleteIds, Ledger, AckMeansDelivered
<1>8. CASE Synced
  BY <1>1, <1>2, <1>8 DEF Synced, Flush
<1>9. CASE PowerLoss
  BY <1>1, <1>2, <1>9 DEF PowerLoss, LosePower
<1> QED
  BY <1>4, <1>5, <1>6, <1>7, <1>8, <1>9, OutboxEffect

-----------------------------------------------------------------------------
(* Acknowledgements speak the truth.                                       *)

\* A PUBACK on its way is about a delivered row.
LEMMA NextAcksTrue ==
  ASSUME Ledger, [Next]_vars
  PROVE  \A m \in acks' : m.row \in Delivered'
<1> USE DEF Ledger
<1>a. \A m \in acks : m.row \in Delivered'
  BY DeliveredGrows DEF AckMeansDelivered
<1>1. CASE acks' \subseteq acks
  BY <1>a, <1>1
<1>2. CASE ArriveNext
  <2>1. broker \in Seq(Nat) /\ broker' = Append(broker, Head(wire).row)
        /\ acks' = acks \cup {Head(wire)}
    BY <1>2 DEF ArriveNext, BrokerReceive, TypeOK, LinkTypeOK
  <2>2. /\ Len(broker) + 1 \in DOMAIN broker'
        /\ broker'[Len(broker) + 1] = Head(wire).row
    BY <2>1
  <2>3. Head(wire).row \in Delivered'
    BY <2>2 DEF Delivered
  <2> QED
    BY <1>a, <2>1, <2>3
<1> QED
  BY <1>1, <1>2, LinkEffect
     DEF LinkQuiet, CarriedLost, PublishRow, ClientPublish, PublishRaises, LoseSession, OnConnect,
         Resend, Acknowledge, PubAck

\* A PUBACK, and what is concluded from it, is only ever about a delivered row.
LEMMA NextAckMeansDelivered ==
  ASSUME Ledger, [Next]_vars
  PROVE  AckMeansDelivered'
<1> USE DEF Ledger, AckMeansDelivered
<1> DEFINE Goal == (confirmed' => current'.row \in Delivered') /\ sentIds' \subseteq Delivered'
<1> SUFFICES Goal
  BY NextAcksTrue
<1>a. Delivered \subseteq Delivered'
  BY DeliveredGrows
<1>1. CASE BatchSame
  BY <1>1, <1>a DEF BatchSame
<1>2. CASE FrameLost
  BY <1>2 DEF FrameLost
<1>3. CASE DrainBatch
  BY <1>3, <1>a DEF DrainBatch
<1>4. CASE Confirmed
  BY <1>4, <1>a DEF Confirmed
<1>5. CASE Unconfirmed \/ FinishBatch
  BY <1>5, <1>a DEF Unconfirmed, FinishBatch
<1>6. ASSUME NEW i \in batch, PublishRow(i) PROVE Goal
  BY <1>6, <1>a DEF PublishRow
<1>7. ASSUME NEW m \in acks, Acknowledge(m) PROVE Goal
  <2>1. sentIds' = sentIds /\ current' = current /\ (confirmed' => confirmed \/ m = current)
    BY <1>7 DEF Acknowledge
  <2>2. m.row \in Delivered
    OBVIOUS
  <2> QED
    BY <1>a, <2>1, <2>2
<1> HIDE DEF Goal
<1> QED
  BY <1>1, <1>2, <1>3, <1>4, <1>5, <1>6, <1>7, BatchEffect

-----------------------------------------------------------------------------
(* Only rows that were written are held, sent or received.                 *)

\* What the client holds and has sent.
Underway == out \cup resend \cup {wire[k] : k \in DOMAIN wire}

\* What is underway was underway before, but for the message of the row that
\* the publisher is at, and only what was on the wire is acknowledged.
LEMMA UnderwayEffect ==
  ASSUME Ledger, [Next]_vars
  PROVE  /\ acks' \subseteq acks \cup Underway
         /\ \A m \in Underway' :
              \/ m \in Underway
              \/ \E i \in batch : (PublishRow(i) \/ PublishRaises(i)) /\ m.row = i
<1> DEFINE AtRow(m) == \E i \in batch : (PublishRow(i) \/ PublishRaises(i)) /\ m.row = i
           Goal == /\ acks' \subseteq acks \cup Underway
                   /\ \A m \in Underway' : m \in Underway \/ AtRow(m)
<1> USE DEF Ledger, TypeOK
<1> SUFFICES Goal
  OBVIOUS
<1>1. CASE LinkQuiet
  BY <1>1 DEF LinkQuiet, Underway
<1>2. CASE CarriedLost
  BY <1>2 DEF CarriedLost, Underway
<1>3. ASSUME NEW x \in Message, wire' = Append(wire, x)
      PROVE  {wire'[k] : k \in DOMAIN wire'} \subseteq {wire[k] : k \in DOMAIN wire} \cup {x}
  <2>1. wire \in Seq(Message)
    BY DEF LinkTypeOK
  <2> QED
    BY <1>3, <2>1
<1>4. ASSUME NEW i \in batch, PublishRow(i) \/ PublishRaises(i) PROVE Goal
  <2> DEFINE x == [mid |-> nextMid, row |-> i]
  <2>1. x \in Message /\ x.row = i
    BY DEF LinkTypeOK, PublisherTypeOK, Message
  <2>2. AtRow(x)
    BY <1>4, <2>1
  <2>3. CASE PublishRow(i)
    <3>1. out' = out \cup {x} /\ resend' = resend /\ acks' = acks
          /\ (wire' = Append(wire, x) \/ wire' = wire)
      BY <2>3 DEF PublishRow, ClientPublish
    <3> HIDE DEF x, AtRow
    <3> QED
      BY <1>3, <2>1, <2>2, <3>1 DEF Underway
  <2>4. CASE PublishRaises(i)
    <3>1. out' = out \cup {x} /\ resend' = {} /\ acks' = {} /\ wire' = <<>>
      BY <2>4 DEF PublishRaises, LoseSession
    <3> HIDE DEF x, AtRow
    <3> QED
      BY <2>2, <3>1 DEF Underway
  <2> QED
    BY <1>4, <2>3, <2>4
<1>5. CASE OnConnect
  BY <1>5 DEF OnConnect, Underway
<1>6. ASSUME NEW x \in resend, Resend(x) PROVE Goal
  <2>1. x \in Message
    BY DEF LinkTypeOK
  <2>2. {wire'[k] : k \in DOMAIN wire'} \subseteq {wire[k] : k \in DOMAIN wire} \cup {x}
    BY <1>3, <1>6, <2>1 DEF Resend
  <2> QED
    BY <1>6, <2>2 DEF Resend, Underway
<1>7. CASE ArriveNext
  <2>1. /\ wire \in Seq(Message) /\ wire # <<>> /\ wire' = Tail(wire)
        /\ out' = out /\ resend' = resend /\ acks' = acks \cup {Head(wire)}
    BY <1>7 DEF ArriveNext, BrokerReceive, LinkTypeOK
  <2>2. /\ \A k \in DOMAIN wire' : k + 1 \in DOMAIN wire /\ wire'[k] = wire[k + 1]
        /\ 1 \in DOMAIN wire /\ Head(wire) = wire[1]
    BY <2>1
  <2> QED
    BY <2>1, <2>2 DEF Underway
<1>8. ASSUME NEW x \in acks, Acknowledge(x) PROVE Goal
  BY <1>8 DEF Acknowledge, PubAck, Underway
<1> HIDE DEF Goal
<1> QED
  BY <1>1, <1>2, <1>4, <1>5, <1>6, <1>7, <1>8, LinkEffect

\* The client holds and sends messages of written rows only.
LEMMA NextUnderwayAccepted ==
  ASSUME Ledger, [Next]_vars
  PROVE  \A m \in Underway' \cup acks' : m.row \in Accepted'
<1> SUFFICES ASSUME NEW m \in Underway' \cup acks' PROVE m.row \in Accepted
  BY AcceptedGrows
<1>1. \A x \in Underway \cup acks : x.row \in Accepted
  BY DEF Ledger, OnlyAccepted, Underway
<1>2. batch \subseteq Accepted
  BY DEF Ledger, OnlyAccepted
<1> QED
  BY <1>1, <1>2, UnderwayEffect

BatchAccepted == batch \cup sentIds \subseteq Accepted

\* The batch consists of written rows only.
LEMMA NextBatchAccepted ==
  ASSUME Ledger, [Next]_vars
  PROVE  BatchAccepted'
<1> USE DEF Ledger, OnlyAccepted, BatchAccepted
<1>a. Accepted \subseteq Accepted'
  BY AcceptedGrows
<1>1. CASE BatchSame \/ FrameLost
  BY <1>1, <1>a DEF BatchSame, FrameLost
<1>2. CASE DrainBatch
  BY <1>2, <1>a DEF DrainBatch, PeekBatch, Oldest
<1>3. CASE Confirmed
  <2>1. current.row \in Accepted
    BY <1>3 DEF Confirmed, BatchAtFront, IsNext
  <2> QED
    BY <1>3, <2>1, <1>a DEF Confirmed
<1>4. CASE Unconfirmed \/ FinishBatch
  BY <1>4 DEF Unconfirmed, FinishBatch
<1>5. ASSUME batch' = batch, sentIds' = sentIds PROVE BatchAccepted'
  BY <1>5, <1>a
<1> QED
  BY <1>1, <1>2, <1>3, <1>4, <1>5, BatchEffect DEF PublishRow, Acknowledge

\* Only rows that were written are held, sent or received.
LEMMA NextOnlyAccepted ==
  ASSUME Ledger, [Next]_vars
  PROVE  OnlyAccepted'
<1>1. Accepted \subseteq Accepted'
  BY AcceptedGrows
<1>2. rows' \cup dropped' \cup disk' \cup lost' \subseteq Accepted'
  <2>1. rows \cup dropped \cup disk \cup lost \subseteq Accepted'
    BY <1>1 DEF Ledger, OnlyAccepted
  <2>2. CASE UNCHANGED outboxVars
    BY <2>1, <2>2 DEF outboxVars
  <2>3. CASE Enqueue \/ CutShort
    <3>1. nextId \in Accepted'
      BY <2>3, OutboxConstants
         DEF Enqueue, CutShort, EnqueueUntrimmed, Ledger, TypeOK, OutboxTypeOK, Accepted
    <3>2. Inserted \subseteq Accepted'
      BY <2>1, <3>1 DEF Inserted
    <3>3. Overflow(Inserted) \subseteq Inserted
      BY DEF Overflow, Oldest
    <3> QED
      BY <2>1, <2>3, <3>2, <3>3 DEF Enqueue, CutShort, EnqueueUntrimmed
  <2>4. CASE TableCut
    BY <2>1, <2>4 DEF TableCut, DeleteIds
  <2>5. CASE Synced
    BY <2>1, <2>5 DEF Synced, Flush
  <2>6. CASE PowerLoss
    BY <2>1, <2>6 DEF PowerLoss, LosePower
  <2> QED
    BY <2>2, <2>3, <2>4, <2>5, <2>6, OutboxEffect
<1>3. \A k \in DOMAIN broker' : broker'[k] \in Accepted'
  <2>1. Delivered' \subseteq Accepted'
    <3>1. Delivered \subseteq Accepted'
      BY <1>1 DEF Ledger, OnlyAccepted, Delivered
    <3>2. wire # <<>> => Head(wire).row \in Accepted'
      BY <1>1 DEF Ledger, TypeOK, LinkTypeOK, OnlyAccepted
    <3> QED
      BY <3>1, <3>2, DeliveredGrows
  <2> QED
    BY <2>1 DEF Delivered
<1> QED
  BY <1>2, <1>3, NextUnderwayAccepted, NextBatchAccepted DEF OnlyAccepted, Underway, BatchAccepted

-----------------------------------------------------------------------------
(* The batch is at the old end of the table.                               *)

\* The table is finite: ids are bounded.
LEMMA RowsFinite ==
  ASSUME OutboxTypeOK
  PROVE  IsFiniteSet(rows) /\ rows \subseteq Nat
<1>1. 1 \in Int /\ MaxId \in Int
  BY OutboxConstants
<1>2. IsFiniteSet(1 .. MaxId)
  BY <1>1, FS_Interval
<1>3. IsFiniteSet(rows)
  BY <1>2, FS_Subset DEF OutboxTypeOK
<1> QED
  BY <1>3 DEF OutboxTypeOK

\* A row that enters the table is younger than all of the batch, or the batch is
\* lost with the power.
LEMMA RowsEnterBehind ==
  ASSUME Ledger, [Next]_vars
  PROVE  \/ rows' \subseteq rows \cup {nextId}
         \/ FrameLost
<1>1. Overflow(Inserted) \subseteq Inserted
  BY DEF Overflow, Oldest
<1> QED
  BY <1>1, OutboxEffect
     DEF outboxVars, Enqueue, CutShort, EnqueueUntrimmed, Inserted, TableCut, DeleteIds, Synced,
         Flush, PowerLoss, Die, FrameLost

\* The batch stays at the old end of the table and is gone through from its
\* old end.
LEMMA NextBatchAtFront ==
  ASSUME Ledger, [Next]_vars
  PROVE  BatchAtFront'
<1> USE DEF Ledger, TypeOK
<1>a. \A b \in batch \cup sentIds : b < nextId
  BY DEF OnlyAccepted, Accepted, OutboxTypeOK
<1>b. CASE FrameLost
  BY <1>b DEF FrameLost, BatchAtFront
<1>c. ASSUME rows' \subseteq rows \cup {nextId},
             UNCHANGED <<batch, sentIds>>,
             pc' = "wait" => IsNext(current'.row)
      PROVE  BatchAtFront'
  BY <1>a, <1>c DEF BatchAtFront, IsNext
<1>1. CASE BatchSame /\ rows' \subseteq rows \cup {nextId}
  BY <1>1, <1>c DEF BatchSame, BatchAtFront
<1>2. CASE DrainBatch
  <2>1. IsFiniteSet(rows) /\ rows \subseteq Nat
    BY RowsFinite
  <2>2. \A b \in PeekBatch, i \in rows \ PeekBatch : b < i
    BY <2>1, OldestIsOlder, OutboxConstants DEF PeekBatch
  <2> QED
    BY <1>2, <2>2 DEF DrainBatch, outboxVars, BatchAtFront
<1>3. CASE Confirmed
  <2> DEFINE c == current.row
  <2>1. c \in batch /\ \A b \in batch : c <= b
    BY <1>3 DEF Confirmed, BatchAtFront, IsNext
  <2>2. /\ sentIds' = sentIds \cup {c} /\ batch' = batch \ {c}
        /\ rows' = rows /\ pc' # "wait"
    BY <1>3 DEF Confirmed, outboxVars
  <2> HIDE DEF c
  <2>3. ASSUME NEW i \in rows, i \notin sentIds, i # c PROVE c < i
    <3>1. c \in Nat /\ i \in Nat
      BY <2>1 DEF PublisherTypeOK, OutboxTypeOK
    <3>2. CASE i \in batch
      BY <2>1, <2>3, <3>1, <3>2
    <3>3. CASE i \notin batch
      BY <2>1, <2>3, <3>3 DEF BatchAtFront
    <3> QED
      BY <3>2, <3>3
  <2>4. \A s \in sentIds', i \in rows' \ sentIds' : s < i
    BY <2>2, <2>3 DEF BatchAtFront
  <2>5. \A b \in batch', i \in rows' \ (batch' \cup sentIds') : b < i
    BY <2>1, <2>2 DEF BatchAtFront
  <2> QED
    BY <2>2, <2>4, <2>5 DEF BatchAtFront
<1>4. CASE Unconfirmed \/ FinishBatch
  BY <1>4 DEF Unconfirmed, FinishBatch, BatchAtFront
<1>5. ASSUME NEW i \in batch, PublishRow(i) PROVE BatchAtFront'
  <2>1. current'.row = i /\ IsNext(i) /\ UNCHANGED <<rows, batch, sentIds>>
    BY <1>5 DEF PublishRow, outboxVars
  <2> QED
    BY <1>c, <2>1
<1>6. ASSUME NEW m \in acks, Acknowledge(m) PROVE BatchAtFront'
  BY <1>6, <1>c DEF Acknowledge, outboxVars, BatchAtFront
<1> QED
  BY <1>b, <1>1, <1>2, <1>3, <1>4, <1>5, <1>6, RowsEnterBehind, BatchEffect

-----------------------------------------------------------------------------
(* The storage lags behind the table.                                      *)

\* A row that is not on the storage is younger than all that are, and one that
\* is only on the storage was delivered or dropped.
LEMMA NextDiskLags ==
  ASSUME Ledger, [Next]_vars
  PROVE  DiskLags'
<1> USE DEF Ledger, TypeOK
<1>a. Delivered \subseteq Delivered'
  BY DeliveredGrows
<1>1. CASE UNCHANGED outboxVars
  BY <1>1, <1>a DEF outboxVars, DiskLags
<1>2. CASE Enqueue \/ CutShort
  <2>1. /\ rows' \subseteq rows \cup {nextId}
        /\ rows \subseteq rows' \cup dropped'
        /\ dropped \subseteq dropped'
        /\ disk' = disk
    BY <1>2 DEF Enqueue, CutShort, EnqueueUntrimmed, Inserted
  <2>2. \A j \in disk : j < nextId
    BY DEF OnlyAccepted, Accepted, OutboxTypeOK
  <2> QED
    BY <2>1, <2>2, <1>a DEF DiskLags
<1>3. CASE TableCut
  BY <1>3, <1>a DEF TableCut, DeleteIds, AckMeansDelivered, DiskLags
<1>4. CASE Synced
  BY <1>4 DEF Synced, Flush, DiskLags
<1>5. CASE PowerLoss
  BY <1>5 DEF PowerLoss, LosePower, DiskLags
<1> QED
  BY <1>1, <1>2, <1>3, <1>4, <1>5, OutboxEffect

-----------------------------------------------------------------------------
(* First arrivals are in order.                                            *)

\* What is settled stays settled.
LEMMA SettledGrows ==
  ASSUME Ledger, [Next]_vars
  PROVE  Settled \subseteq Settled' /\ dropped \cup lost \subseteq dropped' \cup lost'
<1>1. dropped \subseteq dropped' /\ lost \subseteq lost'
  BY OutboxEffect
     DEF outboxVars, Enqueue, CutShort, EnqueueUntrimmed, TableCut, DeleteIds, Synced, Flush,
         PowerLoss, LosePower
<1> QED
  BY <1>1, DeliveredGrows DEF Settled

\* When the publisher is at a row of its batch, every older row is settled:
\* those of the table are among the confirmed ones of the batch.
LEMMA OlderThanNextSettled ==
  ASSUME Ledger, NEW x \in batch, IsNext(x), NEW i \in 1 .. x - 1
  PROVE  i \in Settled
<1>1. x \in Nat /\ x \in Accepted /\ i \in Nat /\ i < x
  <2>1. x \in 1 .. MaxId /\ x \in Accepted
    BY DEF Ledger, TypeOK, PublisherTypeOK, OnlyAccepted
  <2>2. x \in Nat
    BY <2>1, OutboxConstants
  <2> QED
    BY <2>1, <2>2
<1>2. i \in 1 .. nextId - 1
  BY <1>1, OutboxConstants DEF Accepted, Ledger, TypeOK, OutboxTypeOK
<1>3. ASSUME i \in rows PROVE i \in Delivered
  <2>1. i \notin batch
    BY <1>1 DEF IsNext
  <2>2. i \in sentIds
    BY <1>1, <1>3, <2>1 DEF Ledger, BatchAtFront
  <2> QED
    BY <2>2 DEF Ledger, AckMeansDelivered
<1> QED
  BY <1>2, <1>3 DEF Ledger, NoLoss, Settled

\* Whatever is underway was published after all older rows were settled.
LEMMA NextOldersSettled ==
  ASSUME Ledger, [Next]_vars
  PROVE  OldersSettled'
<1>1. ASSUME NEW m \in Underway', NEW i \in 1 .. m.row - 1
      PROVE  i \in Settled
  <2>1. CASE m \in Underway
    BY <1>1, <2>1 DEF Ledger, OldersSettled, Underway
  <2>2. ASSUME NEW x \in batch, PublishRow(x) \/ PublishRaises(x), m.row = x
        PROVE  i \in Settled
    BY <1>1, <2>2, OlderThanNextSettled DEF PublishRow, PublishRaises
  <2> QED
    BY <2>1, <2>2, UnderwayEffect
<1> QED
  BY <1>1, SettledGrows DEF OldersSettled, Underway

\* The next packet of the wire is of a row whose elders are settled.
LEMMA NextFirstArrivalInOrder ==
  ASSUME Ledger, [Next]_vars
  PROVE  FirstArrivalInOrder'
<1>1. dropped \cup lost \subseteq dropped' \cup lost'
  BY SettledGrows
<1>2. CASE UNCHANGED broker
  BY <1>1, <1>2 DEF Ledger, FirstArrivalInOrder
<1>3. CASE ArriveNext
  <2> DEFINE n == Len(broker)
  <2>1. /\ wire \in Seq(Message) /\ wire # <<>> /\ broker \in Seq(Nat)
        /\ broker' = Append(broker, Head(wire).row)
    BY <1>3 DEF ArriveNext, BrokerReceive, Ledger, TypeOK, LinkTypeOK
  <2>2. Head(wire) \in {wire[k] : k \in DOMAIN wire}
    BY <2>1
  <2>3. \A i \in 1 .. Head(wire).row - 1 : i \in Settled
    BY <2>2 DEF Ledger, OldersSettled
  <2>4. /\ n \in Nat
        /\ DOMAIN broker = 1 .. n
        /\ DOMAIN broker' = 1 .. n + 1
        /\ broker'[n + 1] = Head(wire).row
        /\ \A l \in 1 .. n : broker'[l] = broker[l]
    BY <2>1
  <2> HIDE DEF n
  <2> SUFFICES ASSUME NEW k \in 1 .. n + 1, NEW i \in 1 .. broker'[k] - 1
               PROVE  i \in dropped \cup lost \/ \E l \in 1 .. k - 1 : broker'[l] = i
    BY <1>1, <2>4 DEF FirstArrivalInOrder
  <2>5. CASE k \in 1 .. n
    <3>1. i \in dropped \cup lost \/ \E l \in 1 .. k - 1 : broker[l] = i
      BY <2>4, <2>5 DEF Ledger, FirstArrivalInOrder
    <3>2. \A l \in 1 .. k - 1 : broker'[l] = broker[l]
      BY <2>4, <2>5
    <3> QED
      BY <3>1, <3>2
  <2>6. CASE k = n + 1
    <3>1. i \in Settled
      BY <2>3, <2>4, <2>6
    <3>2. CASE i \in Delivered
      BY <2>4, <2>6, <3>2 DEF Delivered
    <3> QED
      BY <3>1, <3>2 DEF Settled
  <2> QED
    BY <2>4, <2>5, <2>6
<1> QED
  BY <1>2, <1>3, BrokerEffect

\* What the rows have gone through stays so.
LEMMA LedgerStep ==
  ASSUME Ledger, [Next]_vars
  PROVE  Ledger'
BY NextType, NextOnlyAccepted, NextAckMeansDelivered, NextBatchAtFront, NextDiskLags, NextNoLoss,
   NextOldersSettled, NextFirstArrivalInOrder
   DEF Ledger

\* It is so in every reachable state.
LEMMA LedgerHolds == Spec => []Ledger
<1>1. Ledger /\ [Next]_vars => Ledger'
  BY LedgerStep
<1> QED
  BY <1>1, InitLedger, PTL DEF Spec

-----------------------------------------------------------------------------
(* How often the broker sees a row: the session and the batch, the counts, *)
(* and the budget of copies.                                               *)

\* What the session, the flag and the network thread say of each other stays
\* so: _connected is set by the CONNACK of a session and cleared by the end of
\* the client or the report of a drop, and the network thread runs with the
\* client.
LEMMA NextSessionFlags ==
  ASSUME SessionState, [Next]_vars
  PROVE  /\ session' = "up" => connected'
         /\ session' = "connecting" => ~connected'
         /\ ~NetThread' => session' = "none" /\ ~connected'
<1> DEFINE Goal == /\ session' = "up" => connected'
                   /\ session' = "connecting" => ~connected'
                   /\ ~NetThread' => session' = "none" /\ ~connected'
<1> SUFFICES Goal
  OBVIOUS
<1>1. CASE UNCHANGED <<session, connected>> /\ (NetThread => NetThread')
  BY <1>1 DEF SessionState
<1>2. CASE CloseClient \/ LoseClient
  BY <1>2 DEF CloseClient, LoseClient, LoseSession
<1>3. CASE PublisherStep
  <2>1. CASE AwaitConnected \/ DrainIdle \/ DrainBatch \/ Confirmed \/ Unconfirmed \/ Resume \/ FinishBatch
    BY <1>1, <2>1
       DEF AwaitConnected, DrainIdle, DrainBatch, Confirmed, Unconfirmed, Resume, FinishBatch,
           linkVars, NetThread
  <2>2. CASE Wake
    BY <2>2 DEF Wake, linkVars, NetThread, SessionState
  <2>3. CASE Connect
    BY <2>3 DEF Connect, OpenSession, NetThread, SessionState
  <2>4. CASE DrainEnds
    BY <1>2, <2>4 DEF DrainEnds
  <2>5. ASSUME NEW i \in batch, PublishRow(i) PROVE Goal
    BY <1>1, <2>5 DEF PublishRow, ClientPublish, NetThread
  <2>6. ASSUME NEW i \in batch, PublishRaises(i) PROVE Goal
    BY <2>6 DEF PublishRaises, LoseSession
  <2> QED
    BY <1>3, <2>1, <2>2, <2>3, <2>4, <2>5, <2>6 DEF PublisherStep
<1>4. CASE NetworkStep
  <2>1. CASE Reconnect
    BY <2>1 DEF Reconnect, OpenSession, publisherVars, NetThread
  <2>2. CASE ConnectionAccepted
    BY <2>2 DEF ConnectionAccepted, OnConnect, publisherVars, NetThread, SessionState
  <2>3. CASE DropReported
    BY <2>3 DEF DropReported, OnDisconnect
  <2>4. ASSUME NEW m \in resend, ResendNext(m) PROVE Goal
    BY <1>1, <2>4 DEF ResendNext, Resend, publisherVars, NetThread
  <2>5. CASE ArriveNext
    BY <1>1, <2>5 DEF ArriveNext, BrokerReceive, publisherVars, NetThread
  <2>6. ASSUME NEW m \in acks, Acknowledge(m) PROVE Goal
    BY <1>1, <2>6 DEF Acknowledge, PubAck, NetThread
  <2> QED
    BY <1>4, <2>1, <2>2, <2>3, <2>4, <2>5, <2>6 DEF NetworkStep
<1>5. CASE FaultStep
  <2>1. CASE ConnectFails \/ AwaitTimeout \/ BufferRaises
    BY <1>2, <2>1 DEF ConnectFails, AwaitTimeout, BufferRaises
  <2>2. CASE Crash \/ CrashInEnqueue \/ PowerLoss
    BY <1>2, <2>2 DEF Crash, CrashInEnqueue, PowerLoss, Die
  <2>3. CASE ConnectionDrops
    BY <2>3 DEF ConnectionDrops, Drop, LoseSession, NetThread, SessionState
  <2>4. CASE ConnectionRefused
    BY <2>4 DEF ConnectionRefused, OnConnectRefused, LoseSession, NetThread, SessionState
  <2>5. CASE TrimRaises
    BY <1>1, <2>5 DEF TrimRaises, linkVars, NetThread
  <2> QED
    BY <1>5, <2>1, <2>2, <2>3, <2>4, <2>5 DEF FaultStep
<1>6. CASE GroupEnqueues \/ Synced \/ UNCHANGED vars
  BY <1>1, <1>6 DEF GroupEnqueues, Synced, vars, linkVars, publisherVars, NetThread
<1>7. CASE Respawn
  BY <1>7 DEF Respawn, linkVars, NetThread, SessionState
<1> HIDE DEF Goal
<1> QED
  BY <1>3, <1>4, <1>5, <1>6, <1>7 DEF Next

\* Only a failure ends a session.
LEMMA SessionEnds ==
  ASSUME SessionState, [Next]_vars, session = "up", session' # "up"
  PROVE  CarriedLost /\ Fault
<1> USE DEF SessionState
<1>1. CASE UNCHANGED session
  BY <1>1
<1>2. CASE (CloseClient \/ LoseClient) /\ Fault
  BY <1>2 DEF CloseClient, LoseClient, LoseSession, CarriedLost
<1>3. CASE PublisherStep
  <2>1. CASE AwaitConnected \/ DrainIdle \/ DrainBatch \/ Wake \/ Confirmed \/ Unconfirmed
              \/ Resume \/ FinishBatch
    BY <1>1, <2>1
       DEF AwaitConnected, DrainIdle, DrainBatch, Wake, Confirmed, Unconfirmed, Resume, FinishBatch,
           linkVars
  <2>2. CASE Connect
    BY <2>2 DEF Connect, OpenSession
  <2>3. CASE DrainEnds
    BY <2>3 DEF DrainEnds
  <2>4. ASSUME NEW i \in batch, PublishRow(i) \/ PublishRaises(i) PROVE CarriedLost /\ Fault
    BY <1>1, <2>4 DEF PublishRow, ClientPublish, PublishRaises
  <2> QED
    BY <1>3, <2>1, <2>2, <2>3, <2>4 DEF PublisherStep
<1>4. CASE NetworkStep
  BY <1>1, <1>4
     DEF NetworkStep, Reconnect, OpenSession, ConnectionAccepted, OnConnect, DropReported,
         OnDisconnect, ResendNext, Resend, ArriveNext, BrokerReceive, Acknowledge, PubAck
<1>5. CASE FaultStep
  <2>1. CASE ConnectFails \/ AwaitTimeout \/ BufferRaises
    BY <1>2, <2>1 DEF ConnectFails, AwaitTimeout, BufferRaises
  <2>2. CASE Crash \/ CrashInEnqueue \/ PowerLoss
    BY <1>2, <2>2 DEF Crash, CrashInEnqueue, PowerLoss, Die
  <2>3. CASE ConnectionDrops \/ ConnectionRefused
    BY <2>3 DEF ConnectionDrops, Drop, ConnectionRefused, OnConnectRefused, LoseSession, CarriedLost
  <2>4. CASE TrimRaises
    BY <1>1, <2>4 DEF TrimRaises, linkVars
  <2> QED
    BY <1>5, <2>1, <2>2, <2>3, <2>4 DEF FaultStep
<1>6. CASE GroupEnqueues \/ Synced \/ Respawn \/ UNCHANGED vars
  BY <1>1, <1>6 DEF GroupEnqueues, Synced, Respawn, vars, linkVars
<1> QED
  BY <1>3, <1>4, <1>5, <1>6 DEF Next

\* What a session carries goes with it, and the client holds finitely many
\* messages.
LEMMA NextCarried ==
  ASSUME Ledger, SessionState, [Next]_vars
  PROVE  /\ session' # "up" => wire' = <<>> /\ resend' = {}
         /\ IsFiniteSet(out') /\ IsFiniteSet(resend')
<1> DEFINE Goal == /\ session' # "up" => wire' = <<>> /\ resend' = {}
                   /\ IsFiniteSet(out') /\ IsFiniteSet(resend')
<1> SUFFICES Goal
  OBVIOUS
<1> USE DEF SessionState
<1>1. CASE LinkQuiet
  <2>1. CASE session = "up" /\ session' # "up"
    BY <1>1, <2>1, SessionEnds DEF CarriedLost, LinkQuiet
  <2>2. CASE session # "up" \/ session' = "up"
    BY <1>1, <2>2 DEF LinkQuiet
  <2> QED
    BY <2>1, <2>2
<1>2. CASE CarriedLost
  <2>1. out' \in SUBSET out
    BY <1>2 DEF CarriedLost
  <2>2. IsFiniteSet(out')
    BY <2>1, FS_Subset
  <2> QED
    BY <1>2, <2>2, FS_EmptySet DEF CarriedLost
<1>3. ASSUME NEW i \in batch, PublishRow(i) PROVE Goal
  BY <1>3, FS_AddElement DEF PublishRow, ClientPublish
<1>4. ASSUME NEW i \in batch, PublishRaises(i) PROVE Goal
  BY <1>4, FS_AddElement, FS_EmptySet DEF PublishRaises, LoseSession
<1>5. CASE OnConnect
  BY <1>5 DEF OnConnect
<1>6. ASSUME NEW m \in resend, Resend(m) PROVE Goal
  BY <1>6, FS_RemoveElement DEF Resend
<1>7. CASE ArriveNext
  BY <1>7 DEF ArriveNext, BrokerReceive
<1>8. ASSUME NEW m \in acks, Acknowledge(m) PROVE Goal
  BY <1>8, FS_RemoveElement DEF Acknowledge, PubAck
<1> HIDE DEF Goal
<1> QED
  BY <1>1, <1>2, <1>3, <1>4, <1>5, <1>6, <1>7, <1>8, LinkEffect

\* The batch and sent_ids are disjoint, and gone outside the loop over them.
LEMMA NextBatchState ==
  ASSUME Ledger, SessionState, [Next]_vars
  PROVE  /\ pc' \notin {"publish", "wait", "pause"} => batch' = {} /\ sentIds' = {}
         /\ batch' \cap sentIds' = {}
<1> DEFINE Goal == /\ pc' \notin {"publish", "wait", "pause"} => batch' = {} /\ sentIds' = {}
                   /\ batch' \cap sentIds' = {}
<1> SUFFICES Goal
  OBVIOUS
<1> USE DEF SessionState
<1>1. CASE UNCHANGED publisherVars
  BY <1>1 DEF publisherVars
<1>2. CASE Backoff \/ Die
  BY <1>2 DEF Backoff, Die
<1>3. CASE PublisherStep
  <2>1. CASE Connect \/ AwaitConnected \/ DrainIdle \/ Wake \/ Resume
    BY <2>1 DEF Connect, AwaitConnected, DrainIdle, Wake, Resume
  <2>2. CASE DrainBatch
    BY <2>2 DEF DrainBatch
  <2>3. CASE DrainEnds
    BY <1>2, <2>3 DEF DrainEnds
  <2>4. ASSUME NEW i \in batch, PublishRow(i) PROVE Goal
    BY <2>4 DEF PublishRow
  <2>5. ASSUME NEW i \in batch, PublishRaises(i) PROVE Goal
    BY <1>2, <2>5 DEF PublishRaises
  <2>6. CASE Confirmed
    BY <2>6 DEF Confirmed
  <2>7. CASE Unconfirmed \/ FinishBatch
    BY <2>7 DEF Unconfirmed, FinishBatch
  <2> QED
    BY <1>3, <2>1, <2>2, <2>3, <2>4, <2>5, <2>6, <2>7 DEF PublisherStep
<1>4. CASE NetworkStep
  BY <1>1, <1>4
     DEF NetworkStep, Reconnect, ConnectionAccepted, DropReported, ResendNext, ArriveNext, Acknowledge
<1>5. CASE FaultStep
  BY <1>2, <1>5
     DEF FaultStep, ConnectFails, AwaitTimeout, ConnectionDrops, ConnectionRefused, Crash,
         CrashInEnqueue, PowerLoss, TrimRaises, BufferRaises
<1>6. CASE GroupEnqueues \/ Synced \/ UNCHANGED vars
  BY <1>1, <1>6 DEF GroupEnqueues, Synced, vars
<1>7. CASE Respawn
  BY <1>7 DEF Respawn
<1> HIDE DEF Goal
<1> QED
  BY <1>3, <1>4, <1>5, <1>6, <1>7 DEF Next

\* Positions of a sequence can be counted.
LEMMA PositionsCount ==
  ASSUME NEW T, NEW s \in Seq(T), NEW P \in SUBSET DOMAIN s
  PROVE  IsFiniteSet(P) /\ Cardinality(P) \in Nat
<1>1. DOMAIN s = 1 .. Len(s) /\ Len(s) \in Nat
  OBVIOUS
<1>2. IsFiniteSet(DOMAIN s)
  BY <1>1, FS_Interval
<1> QED
  BY <1>2, FS_Subset, FS_CardinalityType

\* The copies of a row can be counted.
LEMMA CountsAreNumbers ==
  ASSUME LinkTypeOK, IsFiniteSet(out), IsFiniteSet(resend), NEW i
  PROVE  /\ IsFiniteSet(Received(i)) /\ Cardinality(Received(i)) \in Nat
         /\ IsFiniteSet(OnWire(i)) /\ Cardinality(OnWire(i)) \in Nat
         /\ IsFiniteSet(ToResend(i)) /\ Cardinality(ToResend(i)) \in Nat
         /\ IsFiniteSet(Held(i)) /\ Cardinality(Held(i)) \in Nat
<1>1. /\ broker \in Seq(Nat) /\ Received(i) \in SUBSET DOMAIN broker
      /\ wire \in Seq(Message) /\ OnWire(i) \in SUBSET DOMAIN wire
  BY DEF LinkTypeOK, Received, OnWire
<1>2. ToResend(i) \in SUBSET resend /\ Held(i) \in SUBSET out
  BY DEF ToResend, Held
<1>3. IsFiniteSet(ToResend(i)) /\ IsFiniteSet(Held(i))
  BY <1>2, FS_Subset
<1> QED
  BY <1>1, <1>3, PositionsCount, FS_CardinalityType

\* They can be after any step.
LEMMA CountsStayNumbers ==
  ASSUME LinkTypeOK', IsFiniteSet(out'), IsFiniteSet(resend'), NEW i
  PROVE  /\ Cardinality(Received(i)') \in Nat
         /\ Cardinality(OnWire(i)') \in Nat
         /\ Cardinality(ToResend(i)') \in Nat
         /\ Cardinality(Held(i)') \in Nat
<1>1. /\ broker' \in Seq(Nat) /\ Received(i)' \in SUBSET DOMAIN broker'
      /\ wire' \in Seq(Message) /\ OnWire(i)' \in SUBSET DOMAIN wire'
  BY DEF LinkTypeOK, Received, OnWire
<1>2. ToResend(i)' \in SUBSET resend' /\ Held(i)' \in SUBSET out'
  BY DEF ToResend, Held
<1>3. IsFiniteSet(ToResend(i)') /\ IsFiniteSet(Held(i)')
  BY <1>2, FS_Subset
<1> QED
  BY <1>1, <1>3, PositionsCount, FS_CardinalityType

\* A packet sent is one more copy on the wire, of its row only.
LEMMA OneMoreOnWire ==
  ASSUME LinkTypeOK, NEW m \in Message, wire' = Append(wire, m), NEW i
  PROVE  /\ m.row # i => OnWire(i)' = OnWire(i)
         /\ Cardinality(OnWire(i)') = Cardinality(OnWire(i)) + (IF m.row = i THEN 1 ELSE 0)
<1> DEFINE n == Len(wire)
<1>1. /\ n \in Nat /\ DOMAIN wire = 1 .. n /\ DOMAIN wire' = 1 .. n + 1
      /\ wire'[n + 1] = m
      /\ \A k \in 1 .. n : wire'[k] = wire[k]
  BY DEF LinkTypeOK
<1> HIDE DEF n
<1>2. OnWire(i)' = IF m.row = i THEN OnWire(i) \cup {n + 1} ELSE OnWire(i)
  BY <1>1 DEF OnWire
<1>3. n + 1 \notin OnWire(i)
  BY <1>1 DEF OnWire
<1>4. IsFiniteSet(1 .. n) /\ OnWire(i) \in SUBSET (1 .. n)
  BY <1>1, FS_Interval DEF OnWire
<1>5. IsFiniteSet(OnWire(i)) /\ Cardinality(OnWire(i)) \in Nat
  BY <1>4, FS_Subset, FS_CardinalityType
<1>6. Cardinality(OnWire(i) \cup {n + 1}) = Cardinality(OnWire(i)) + 1
  BY <1>3, <1>5, FS_AddElement
<1> QED
  BY <1>2, <1>5, <1>6

\* A packet that arrives is one copy less on the wire and one more received.
LEMMA ArrivalMovesCopy ==
  ASSUME LinkTypeOK, IsFiniteSet(out), IsFiniteSet(resend), ArriveNext, NEW i
  PROVE  /\ Copies(i)' <= Copies(i)
         /\ Held(i)' = Held(i)
<1> DEFINE n == Len(wire)
           b == Len(broker)
           Left == OnWire(i) \ {1}
           Shift == [k \in Left |-> k - 1]
           r == Head(wire).row
<1>1. /\ wire \in Seq(Message) /\ wire # <<>> /\ broker \in Seq(Nat)
      /\ broker' = Append(broker, r) /\ wire' = Tail(wire)
      /\ UNCHANGED <<out, resend>>
  BY DEF ArriveNext, BrokerReceive, LinkTypeOK
<1>2. /\ n \in Nat \ {0} /\ DOMAIN wire = 1 .. n /\ DOMAIN wire' = 1 .. n - 1
      /\ wire[1].row = r
      /\ \A k \in 1 .. n - 1 : wire'[k] = wire[k + 1]
  BY <1>1
<1>3. r \in Nat
  <2>1. Head(wire) \in Message
    BY <1>1
  <2> QED
    BY <2>1 DEF Message
<1>4. /\ b \in Nat /\ DOMAIN broker = 1 .. b /\ DOMAIN broker' = 1 .. b + 1
      /\ broker'[b + 1] = r
      /\ \A k \in 1 .. b : broker'[k] = broker[k]
  BY <1>1, <1>3
<1> HIDE DEF n, b, r
<1>5. Received(i)' = IF r = i THEN Received(i) \cup {b + 1} ELSE Received(i)
  BY <1>4 DEF Received
<1>6. b + 1 \notin Received(i)
  BY <1>4 DEF Received
<1>7. (r = i) <=> 1 \in OnWire(i)
  BY <1>2 DEF OnWire
<1>8. /\ IsFiniteSet(Received(i)) /\ Cardinality(Received(i)) \in Nat
      /\ IsFiniteSet(OnWire(i)) /\ Cardinality(OnWire(i)) \in Nat
      /\ Cardinality(ToResend(i)) \in Nat
  BY CountsAreNumbers
<1>9. /\ IsFiniteSet(Left)
      /\ Cardinality(Left) = Cardinality(OnWire(i)) - (IF r = i THEN 1 ELSE 0)
  BY <1>7, <1>8, FS_RemoveElement
<1>10. Cardinality(OnWire(i)') <= Cardinality(Left) /\ Cardinality(OnWire(i)') \in Nat
  <2>1. Left \subseteq 2 .. n
    BY <1>2 DEF OnWire
  <2>2. ASSUME NEW j \in OnWire(i)' PROVE j + 1 \in Left /\ Shift[j + 1] = j
    <3>1. j \in 1 .. n - 1 /\ wire'[j].row = i
      BY <1>2, <2>2 DEF OnWire
    <3>2. j + 1 \in Left
      BY <1>2, <3>1 DEF OnWire
    <3> QED
      BY <3>1, <3>2
  <2>3. ASSUME NEW k \in Left PROVE Shift[k] \in OnWire(i)'
    <3>1. k \in 2 .. n /\ wire[k].row = i
      BY <2>1 DEF OnWire
    <3>2. k - 1 \in 1 .. n - 1 /\ wire'[k - 1] = wire[(k - 1) + 1] /\ (k - 1) + 1 = k
      BY <1>2, <3>1
    <3> QED
      BY <1>2, <3>1, <3>2 DEF OnWire
  <2>4. Shift \in Surjection(Left, OnWire(i)')
    <3>1. Shift \in [Left -> OnWire(i)']
      BY <2>3
    <3> QED
      BY <2>2, <3>1 DEF Surjection
  <2> HIDE DEF Left, Shift
  <2> QED
    BY <1>9, <2>4, FS_Surjection, FS_CardinalityType
<1>11. Cardinality(Received(i)') = Cardinality(Received(i)) + (IF r = i THEN 1 ELSE 0)
  <2>1. Cardinality(Received(i) \cup {b + 1}) = Cardinality(Received(i)) + 1
    BY <1>6, <1>8, FS_AddElement
  <2> QED
    BY <1>5, <1>8, <2>1
<1>12. ToResend(i)' = ToResend(i) /\ Held(i)' = Held(i)
  BY <1>1 DEF ToResend, Held
<1> HIDE DEF Left, Shift
<1>13. Cardinality(OnWire(i)') + Cardinality(Received(i)') <= Cardinality(OnWire(i)) + Cardinality(Received(i))
  <2>1. CASE r = i
    BY <1>8, <1>9, <1>10, <1>11, <2>1
  <2>2. CASE r # i
    BY <1>8, <1>9, <1>10, <1>11, <2>2
  <2> QED
    BY <2>1, <2>2
<1>14. Cardinality(ToResend(i)') = Cardinality(ToResend(i)) /\ Cardinality(Received(i)') \in Nat
  BY <1>8, <1>11, <1>12
<1> QED
  BY <1>8, <1>10, <1>12, <1>13, <1>14 DEF Copies

\* A message sent again moves from what is to be sent to the wire.
LEMMA ResendMovesCopy ==
  ASSUME LinkTypeOK, IsFiniteSet(out), IsFiniteSet(resend), NEW m \in resend, Resend(m), NEW i
  PROVE  /\ Copies(i)' = Copies(i)
         /\ Held(i)' = Held(i)
<1>1. /\ wire' = Append(wire, m) /\ resend' = resend \ {m} /\ UNCHANGED <<out, broker>>
      /\ m \in Message
  BY DEF Resend, LinkTypeOK
<1>2. /\ Cardinality(Received(i)) \in Nat /\ Cardinality(OnWire(i)) \in Nat
      /\ IsFiniteSet(ToResend(i)) /\ Cardinality(ToResend(i)) \in Nat
  BY CountsAreNumbers
<1>3. Cardinality(OnWire(i)') = Cardinality(OnWire(i)) + (IF m.row = i THEN 1 ELSE 0)
  BY <1>1, OneMoreOnWire
<1>4. ToResend(i)' = ToResend(i) \ {m} /\ (m \in ToResend(i) <=> m.row = i)
  BY <1>1 DEF ToResend
<1>5. Cardinality(ToResend(i)') = Cardinality(ToResend(i)) - (IF m.row = i THEN 1 ELSE 0)
  <2>1. Cardinality(ToResend(i) \ {m}) =
          IF m \in ToResend(i) THEN Cardinality(ToResend(i)) - 1 ELSE Cardinality(ToResend(i))
    BY <1>2, FS_RemoveElement
  <2> QED
    BY <1>2, <1>4, <2>1
<1>6. Received(i)' = Received(i) /\ Held(i)' = Held(i)
  BY <1>1 DEF Received, Held
<1>7. Cardinality(OnWire(i)') + Cardinality(ToResend(i)') = Cardinality(OnWire(i)) + Cardinality(ToResend(i))
  BY <1>2, <1>3, <1>5
<1>8. Cardinality(OnWire(i)') \in Nat /\ Cardinality(ToResend(i)') \in Int
  BY <1>2, <1>3, <1>5
<1> QED
  BY <1>2, <1>6, <1>7, <1>8 DEF Copies

\* publish is one more message held, and one more copy if it is sent.
LEMMA PublishedIsOneMore ==
  ASSUME LinkTypeOK, IsFiniteSet(out), IsFiniteSet(resend),
         NEW x \in 1 .. MaxId, PublishRow(x), NEW i
  PROVE  /\ Copies(i)' = Copies(i) + (IF x = i THEN 1 ELSE 0)
         /\ Cardinality(Held(i)') <= Cardinality(Held(i)) + (IF x = i THEN 1 ELSE 0)
<1> DEFINE m == [mid |-> nextMid, row |-> x]
<1>1. /\ wire' = Append(wire, m) /\ out' = out \cup {m} /\ UNCHANGED <<resend, broker>>
  BY DEF PublishRow, ClientPublish
<1>2. m \in Message /\ m.row = x
  BY DEF LinkTypeOK, Message
<1> HIDE DEF m
<1>3. /\ Cardinality(Received(i)) \in Nat /\ Cardinality(OnWire(i)) \in Nat
      /\ Cardinality(ToResend(i)) \in Nat
      /\ IsFiniteSet(Held(i)) /\ Cardinality(Held(i)) \in Nat
  BY CountsAreNumbers
<1>4. Cardinality(OnWire(i)') = Cardinality(OnWire(i)) + (IF x = i THEN 1 ELSE 0)
  BY <1>1, <1>2, OneMoreOnWire
<1>5. Held(i)' = IF x = i THEN Held(i) \cup {m} ELSE Held(i)
  BY <1>1, <1>2 DEF Held
<1>6. Cardinality(Held(i) \cup {m}) <= Cardinality(Held(i)) + 1
  <2>1. Cardinality(Held(i) \cup {m}) =
          IF m \in Held(i) THEN Cardinality(Held(i)) ELSE Cardinality(Held(i)) + 1
    BY <1>3, FS_AddElement
  <2> QED
    BY <1>3, <2>1
<1>7. Cardinality(Held(i)') <= Cardinality(Held(i)) + (IF x = i THEN 1 ELSE 0)
  BY <1>3, <1>5, <1>6
<1>8. Received(i)' = Received(i) /\ ToResend(i)' = ToResend(i)
  BY <1>1 DEF Received, ToResend
<1>9. Copies(i)' = Copies(i) + (IF x = i THEN 1 ELSE 0)
  BY <1>3, <1>4, <1>8 DEF Copies
<1> QED
  BY <1>7, <1>9

\* Messages that are forgotten leave no more.
LEMMA ForgottenIsNoMore ==
  ASSUME IsFiniteSet(out), out' \subseteq out, NEW i
  PROVE  Cardinality(Held(i)') <= Cardinality(Held(i))
<1>1. Held(i)' \in SUBSET Held(i) /\ Held(i) \in SUBSET out
  BY DEF Held
<1> QED
  BY <1>1, FS_Subset

\* A failure is counted, and only one in a step.
LEMMA FailuresAreCounted ==
  ASSUME [Next]_vars
  PROVE  faults' = faults \/ faults' = faults + 1
<1> DEFINE Goal == faults' = faults \/ faults' = faults + 1
<1> SUFFICES Goal
  OBVIOUS
<1>1. CASE UNCHANGED publisherVars
  BY <1>1 DEF publisherVars
<1>2. CASE PublisherStep
  <2>1. CASE Connect \/ AwaitConnected \/ DrainEnds \/ DrainIdle \/ DrainBatch \/ Wake \/ Confirmed
              \/ Resume \/ FinishBatch
    BY <2>1
       DEF Connect, AwaitConnected, DrainEnds, DrainIdle, DrainBatch, Wake, Confirmed, Resume,
           FinishBatch
  <2>2. CASE Unconfirmed
    BY <2>2 DEF Unconfirmed, Fault
  <2>3. ASSUME NEW i \in batch, PublishRow(i) \/ PublishRaises(i) PROVE Goal
    BY <2>3 DEF PublishRow, PublishRaises
  <2> QED
    BY <1>2, <2>1, <2>2, <2>3 DEF PublisherStep
<1>3. CASE NetworkStep
  BY <1>1, <1>3
     DEF NetworkStep, Reconnect, ConnectionAccepted, DropReported, ResendNext, ArriveNext, Acknowledge
<1>4. CASE FaultStep
  BY <1>4
     DEF FaultStep, ConnectFails, AwaitTimeout, ConnectionDrops, ConnectionRefused, Crash,
         CrashInEnqueue, PowerLoss, Die, TrimRaises, BufferRaises, Fault
<1>5. CASE GroupEnqueues \/ Synced \/ Respawn \/ UNCHANGED vars
  BY <1>1, <1>5 DEF GroupEnqueues, Synced, Respawn, vars
<1> QED
  BY <1>2, <1>3, <1>4, <1>5 DEF Next

\* A row that will not be published again stays so until a failure.
LEMMA StaysClosed ==
  ASSUME Ledger, SessionState, [Next]_vars, session = "up", session' = "up", faults' = faults,
         NEW i \in Accepted, Closed(i)
  PROVE  Closed(i)'
<1> USE DEF SessionState
<1>1. faults \in Nat
  BY PublisherConstants DEF Ledger, TypeOK, PublisherTypeOK
<1>2. ~Fault
  BY <1>1 DEF Fault
<1>3. CASE UNCHANGED <<rows, batch, sentIds, current>> /\ (pc = "wait" => pc' = "wait")
  BY <1>3 DEF Closed
<1>4. CASE PublisherStep
  <2>1. CASE Connect \/ DrainEnds
    BY <2>1 DEF Connect, OpenSession, DrainEnds
  <2>2. CASE AwaitConnected \/ DrainIdle \/ Wake \/ Resume
    BY <1>3, <2>2 DEF AwaitConnected, DrainIdle, Wake, Resume, outboxVars
  <2>3. CASE DrainBatch
    <3>1. i \notin rows
      BY <2>3 DEF DrainBatch, Closed
    <3>2. batch' \subseteq rows /\ rows' = rows
      BY <2>3 DEF DrainBatch, PeekBatch, Oldest, outboxVars
    <3> QED
      BY <3>1, <3>2 DEF Closed
  <2>4. ASSUME NEW x \in batch, PublishRow(x) PROVE Closed(i)'
    BY <2>4 DEF PublishRow, Closed, outboxVars
  <2>5. ASSUME NEW x \in batch, PublishRaises(x) PROVE Closed(i)'
    BY <2>5 DEF PublishRaises
  <2>6. CASE Confirmed
    BY <2>6 DEF Confirmed, Closed, outboxVars
  <2>7. CASE Unconfirmed
    BY <1>2, <2>7 DEF Unconfirmed
  <2>8. CASE FinishBatch
    BY <2>8 DEF FinishBatch, DeleteIds, Closed
  <2> QED
    BY <1>4, <2>1, <2>2, <2>3, <2>4, <2>5, <2>6, <2>7, <2>8 DEF PublisherStep
<1>5. CASE NetworkStep
  BY <1>3, <1>5
     DEF NetworkStep, Reconnect, ConnectionAccepted, DropReported, ResendNext, ArriveNext,
         Acknowledge, outboxVars, publisherVars
<1>6. CASE FaultStep
  BY <1>2, <1>6
     DEF FaultStep, ConnectFails, AwaitTimeout, ConnectionDrops, ConnectionRefused, Crash,
         CrashInEnqueue, PowerLoss, Die, TrimRaises, BufferRaises
<1>7. CASE GroupEnqueues
  <2>1. i # nextId
    BY DEF Accepted, Ledger, TypeOK, OutboxTypeOK
  <2>2. rows' \subseteq rows \cup {nextId}
    BY <1>7 DEF GroupEnqueues, Enqueue, Inserted
  <2>3. UNCHANGED <<pc, batch, sentIds, current>>
    BY <1>7 DEF GroupEnqueues, publisherVars
  <2> QED
    BY <2>1, <2>2, <2>3 DEF Closed
<1>8. CASE Synced \/ Respawn \/ UNCHANGED vars
  BY <1>3, <1>8 DEF Synced, Flush, Respawn, vars, outboxVars, publisherVars
<1> QED
  BY <1>4, <1>5, <1>6, <1>7, <1>8 DEF Next

\* Of a row that was not written there are no copies.
LEMMA NoCopiesYet ==
  ASSUME OnlyAccepted, NEW i, i \notin Accepted
  PROVE  Copies(i) = 0 /\ Cardinality(Held(i)) = 0
<1>1. Received(i) = {} /\ OnWire(i) = {} /\ ToResend(i) = {} /\ Held(i) = {}
  BY DEF OnlyAccepted, Received, OnWire, ToResend, Held
<1> QED
  BY <1>1, FS_EmptySet DEF Copies

\* The event is set by the CONNACK only.
LEMMA FlagIsOld ==
  ASSUME [Next]_vars, session' # "up", connected'
  PROVE  connected
<1>1. CASE UNCHANGED connected \/ CloseClient \/ LoseClient
  BY <1>1 DEF CloseClient, LoseClient
<1>2. CASE PublisherStep
  <2>1. CASE Connect \/ AwaitConnected \/ DrainIdle \/ DrainBatch \/ Wake \/ Confirmed \/ Unconfirmed
              \/ Resume \/ FinishBatch
    BY <1>1, <2>1
       DEF Connect, OpenSession, AwaitConnected, DrainIdle, DrainBatch, Wake, Confirmed, Unconfirmed,
           Resume, FinishBatch, linkVars
  <2>2. CASE DrainEnds
    BY <1>1, <2>2 DEF DrainEnds
  <2>3. ASSUME NEW i \in batch, PublishRow(i) \/ PublishRaises(i) PROVE connected
    BY <2>3 DEF PublishRow, PublishRaises
  <2> QED
    BY <1>2, <2>1, <2>2, <2>3 DEF PublisherStep
<1>3. CASE NetworkStep
  BY <1>1, <1>3
     DEF NetworkStep, Reconnect, OpenSession, ConnectionAccepted, OnConnect, DropReported,
         OnDisconnect, ResendNext, Resend, ArriveNext, BrokerReceive, Acknowledge, PubAck
<1>4. CASE FaultStep
  BY <1>1, <1>4
     DEF FaultStep, ConnectFails, AwaitTimeout, ConnectionDrops, Drop, ConnectionRefused,
         OnConnectRefused, Crash, CrashInEnqueue, PowerLoss, Die, TrimRaises, BufferRaises, linkVars
<1>5. CASE GroupEnqueues \/ Synced \/ Respawn \/ UNCHANGED vars
  BY <1>1, <1>5 DEF GroupEnqueues, Synced, Respawn, vars, linkVars
<1> QED
  BY <1>2, <1>3, <1>4, <1>5 DEF Next

\* A session begins with a CONNACK.
LEMMA SessionBegins ==
  ASSUME [Next]_vars, session # "up", session' = "up"
  PROVE  ConnectionAccepted
<1>1. ~UNCHANGED session /\ ~CloseClient /\ ~LoseClient /\ ~LoseSession /\ ~OpenSession
  BY DEF CloseClient, LoseClient, LoseSession, OpenSession
<1>2. CASE PublisherStep
  <2>1. CASE Connect \/ AwaitConnected \/ DrainEnds \/ DrainIdle \/ DrainBatch \/ Wake \/ Confirmed
              \/ Unconfirmed \/ Resume \/ FinishBatch
    BY <1>1, <2>1
       DEF Connect, AwaitConnected, DrainEnds, DrainIdle, DrainBatch, Wake, Confirmed, Unconfirmed,
           Resume, FinishBatch, linkVars
  <2>2. ASSUME NEW i \in batch, PublishRow(i) \/ PublishRaises(i) PROVE FALSE
    BY <1>1, <2>2 DEF PublishRow, PublishRaises
  <2> QED
    BY <1>2, <2>1, <2>2 DEF PublisherStep
<1>3. CASE NetworkStep
  BY <1>1, <1>3
     DEF NetworkStep, Reconnect, DropReported, OnDisconnect, ResendNext, Resend, ArriveNext,
         BrokerReceive, Acknowledge, PubAck
<1>4. CASE FaultStep
  BY <1>1, <1>4
     DEF FaultStep, ConnectFails, AwaitTimeout, ConnectionDrops, Drop, ConnectionRefused,
         OnConnectRefused, Crash, CrashInEnqueue, PowerLoss, Die, TrimRaises, BufferRaises, linkVars
<1>5. CASE GroupEnqueues \/ Synced \/ Respawn \/ UNCHANGED vars
  BY <1>1, <1>5 DEF GroupEnqueues, Synced, Respawn, vars, linkVars
<1> QED
  BY <1>2, <1>3, <1>4, <1>5 DEF Next

\* The next number's square, and what a failure more allows.
LEMMA NextSquare ==
  ASSUME NEW g \in Nat
  PROVE  /\ g * g \in Nat /\ (g + 1) * (g + 1) \in Nat
         /\ (g + 1) * (g + 1) = g * g + 2 * g + 1
         /\ g * g <= (g + 1) * (g + 1)
         /\ (g + 1) * (g + 1) < (g + 1 + 1) * (g + 1 + 1)
<1>1. g * g \in Nat
  OBVIOUS
<1>2. (g + 1) * (g + 1) = g * g + 2 * g + 1
  OBVIOUS
<1>3. (g + 1 + 1) * (g + 1 + 1) = g * g + 4 * g + 4
  OBVIOUS
<1> DEFINE q == g * g
<1> HIDE DEF q
<1>4. q \in Nat /\ (g + 1) * (g + 1) = q + 2 * g + 1 /\ (g + 1 + 1) * (g + 1 + 1) = q + 4 * g + 4
  BY <1>1, <1>2, <1>3 DEF q
<1>5. (g + 1) * (g + 1) \in Nat /\ q <= (g + 1) * (g + 1)
      /\ (g + 1) * (g + 1) < (g + 1 + 1) * (g + 1 + 1)
  BY <1>4
<1> QED
  BY <1>1, <1>2, <1>5 DEF q

\* Within a session, what moves no copy into it keeps the budget: a failure
\* widens it, and without one a row is as closed as before.
LEMMA NoMoreCopies ==
  ASSUME Ledger, SessionState, [Next]_vars, session = "up", session' = "up",
         NEW i \in 1 .. MaxId, Budget(i),
         Copies(i)' \in Nat, Cardinality(Held(i)') \in Nat,
         Copies(i)' <= Copies(i), Cardinality(Held(i)') <= Cardinality(Held(i))
  PROVE  Budget(i)'
<1> DEFINE g == faults
           square == (g + 1) * (g + 1)
           c == Copies(i)
           h == Cardinality(Held(i))
<1>1. g \in Nat
  BY PublisherConstants DEF Ledger, TypeOK, PublisherTypeOK
<1>2. square \in Nat /\ square < (g + 1 + 1) * (g + 1 + 1) /\ (g + 1 + 1) * (g + 1 + 1) \in Nat
  BY <1>1, NextSquare
<1>3. c \in Nat /\ h \in Nat
  BY CountsAreNumbers DEF Copies, Ledger, TypeOK, SessionState
<1>4. /\ c <= square /\ h <= 2 * g + 1
      /\ ~Closed(i) => c < square /\ h <= 2 * g
  BY DEF Budget
<1>5. c' \in Nat /\ h' \in Nat /\ c' <= c /\ h' <= h
  OBVIOUS
<1>6. CASE faults' = faults + 1
  <2>1. faults' = g + 1
    BY <1>6
  <2> HIDE DEF g, c, h
  <2>2. c' < (g + 1 + 1) * (g + 1 + 1) /\ h' <= 2 * (g + 1)
    <3> DEFINE next == (g + 1 + 1) * (g + 1 + 1)
    <3>1. square < next /\ next \in Nat
      BY <1>2
    <3> HIDE DEF square, next
    <3>2. c' < next
      BY <1>2, <1>3, <1>4, <1>5, <3>1
    <3>3. h' <= 2 * (g + 1)
      BY <1>1, <1>3, <1>4, <1>5
    <3> QED
      BY <3>2, <3>3 DEF next
  <2>3. /\ Copies(i)' < (faults' + 1) * (faults' + 1)
        /\ Cardinality(Held(i)') <= 2 * faults'
    BY <2>1, <2>2 DEF c, h
  <2> QED
    BY <2>1, <2>3, <1>1, <1>2, <1>5 DEF Budget, c, h
<1>7. CASE faults' = faults
  <2>1. /\ Copies(i)' <= (faults' + 1) * (faults' + 1)
        /\ Cardinality(Held(i)') <= 2 * faults' + 1
    <3> HIDE DEF square, c, h, g
    <3>1. c' <= square /\ h' <= 2 * g + 1
      BY <1>1, <1>2, <1>3, <1>4, <1>5
    <3> QED
      BY <1>7, <3>1 DEF square, c, h, g
  <2>2. ASSUME ~Closed(i)'
        PROVE  /\ Copies(i)' < (faults' + 1) * (faults' + 1)
               /\ Cardinality(Held(i)') <= 2 * faults'
    <3>1. CASE ~Closed(i)
      <4> HIDE DEF square, c, h, g
      <4>1. c' < square /\ h' <= 2 * g
        BY <1>1, <1>2, <1>3, <1>4, <1>5, <3>1
      <4> QED
        BY <1>7, <4>1 DEF square, c, h, g
    <3>2. CASE i \notin Accepted
      <4>1. c = 0 /\ h = 0
        BY <3>2, NoCopiesYet DEF Ledger
      <4>2. square > 0
        BY <1>1, NextSquare
      <4> HIDE DEF square, c, h, g
      <4>3. c' < square /\ h' <= 2 * g
        BY <1>1, <1>2, <1>5, <4>1, <4>2
      <4> QED
        BY <1>7, <4>3 DEF square, c, h, g
    <3> QED
      BY <1>7, <2>2, <3>1, <3>2, StaysClosed
  <2> QED
    BY <2>1, <2>2 DEF Budget
<1> QED
  BY <1>6, <1>7, FailuresAreCounted

\* The budget holds after every step.
LEMMA NextBudget ==
  ASSUME Ledger, SessionState, [Next]_vars, Ledger', SessionState', NEW i \in 1 .. MaxId, Budget(i)
  PROVE  Budget(i)'
<1> DEFINE g == faults
           r == Cardinality(Received(i))
           h == Cardinality(Held(i))
<1>1. g \in Nat /\ g' \in Nat /\ (g' = g \/ g' = g + 1)
  BY PublisherConstants, FailuresAreCounted DEF Ledger, TypeOK, PublisherTypeOK
<1>2. /\ g * g \in Nat /\ (g + 1) * (g + 1) \in Nat /\ g * g <= (g + 1) * (g + 1)
      /\ (g + 1) * (g + 1) = g * g + 2 * g + 1
  BY <1>1, NextSquare
<1>3. LinkTypeOK /\ LinkTypeOK'
  BY DEF Ledger, TypeOK
<1>4. IsFiniteSet(out) /\ IsFiniteSet(resend) /\ IsFiniteSet(out') /\ IsFiniteSet(resend')
  BY DEF SessionState
<1>5. /\ r \in Nat /\ Cardinality(OnWire(i)) \in Nat /\ Cardinality(ToResend(i)) \in Nat /\ h \in Nat
      /\ Copies(i) \in Nat /\ r <= Copies(i)
  <2>1. /\ r \in Nat /\ Cardinality(OnWire(i)) \in Nat /\ Cardinality(ToResend(i)) \in Nat
        /\ h \in Nat
    BY <1>3, <1>4, CountsAreNumbers
  <2> QED
    BY <2>1 DEF Copies
<1>6. /\ r' \in Nat /\ Cardinality(OnWire(i)') \in Nat /\ Cardinality(ToResend(i)') \in Nat
      /\ h' \in Nat /\ Copies(i)' \in Nat
  <2>1. /\ r' \in Nat /\ Cardinality(OnWire(i)') \in Nat /\ Cardinality(ToResend(i)') \in Nat
        /\ h' \in Nat
    BY <1>3, <1>4, CountsStayNumbers
  <2> QED
    BY <2>1 DEF Copies
\* The session ends: what it carried is paid for by the failure that ended it.
<1>7. CASE session = "up" /\ session' # "up"
  <2>1. CarriedLost /\ g' = g + 1
    BY <1>7, SessionEnds DEF Fault
  <2>2. Received(i)' = Received(i) /\ out' \subseteq out
    BY <2>1 DEF CarriedLost, Received
  <2>3. r' = r /\ h' <= h
    BY <1>4, <2>2, ForgottenIsNoMore
  <2>4. Copies(i) <= (g + 1) * (g + 1) /\ h <= 2 * g + 1
    BY <1>7 DEF Budget
  <2>5. r' <= g' * g' /\ h' < 2 * g'
    <3> DEFINE square == (g + 1) * (g + 1)
    <3>1. square \in Nat /\ Copies(i) <= square
      BY <1>2, <2>4
    <3> HIDE DEF square, r, h, g
    <3>2. r' <= square
      BY <1>5, <2>3, <3>1
    <3>3. h' < 2 * (g + 1)
      BY <1>1, <1>5, <1>6, <2>3, <2>4
    <3> QED
      BY <2>1, <3>2, <3>3 DEF square
  <2>6. h' <= 2 * g'
    BY <1>1, <1>6, <2>5
  <2> QED
    BY <1>7, <2>5, <2>6 DEF Budget
\* There is none: what the client takes on is one message, before it knows.
<1>8. CASE session # "up" /\ session' # "up"
  <2>1. r <= g * g /\ h <= 2 * g /\ (connected => h < 2 * g)
    BY <1>8 DEF Budget
  <2>2. LinkQuiet \/ CarriedLost \/ \E x \in batch : PublishRaises(x)
    BY <1>8, LinkEffect
       DEF PublishRow, OnConnect, Resend, ArriveNext, BrokerReceive, Acknowledge, PubAck
  <2>3. r' = r
    BY <2>2 DEF LinkQuiet, CarriedLost, PublishRaises, Received
  <2>4. h' <= 2 * g /\ (connected' => h' < 2 * g)
    <3>1. CASE LinkQuiet \/ CarriedLost
      <4>1. out' \subseteq out
        BY <3>1 DEF LinkQuiet, CarriedLost
      <4>2. h' <= h
        BY <1>4, <4>1, ForgottenIsNoMore
      <4>3. h' <= 2 * g
        BY <1>1, <1>5, <1>6, <2>1, <4>2
      <4>4. ASSUME connected' PROVE h' < 2 * g
        <5>1. h < 2 * g
          BY <1>8, <2>1, <4>4, FlagIsOld
        <5> QED
          BY <1>1, <1>5, <1>6, <4>2, <5>1
      <4> QED
        BY <4>3, <4>4
    <3>2. ASSUME NEW x \in batch, PublishRaises(x) PROVE h' <= 2 * g /\ ~connected'
      <4> DEFINE m == [mid |-> nextMid, row |-> x]
      <4>1. out' = out \cup {m} /\ connected /\ ~connected'
        BY <3>2 DEF PublishRaises
      <4>2. Held(i)' \in SUBSET (Held(i) \cup {m}) /\ IsFiniteSet(Held(i))
        BY <1>3, <1>4, <4>1, CountsAreNumbers DEF Held
      <4>3. /\ IsFiniteSet(Held(i) \cup {m})
            /\ Cardinality(Held(i) \cup {m}) =
                 IF m \in Held(i) THEN Cardinality(Held(i)) ELSE Cardinality(Held(i)) + 1
        BY <4>2, FS_AddElement
      <4>4. h' <= Cardinality(Held(i) \cup {m})
        BY <4>2, <4>3, FS_Subset
      <4>5. h < 2 * g
        BY <2>1, <4>1
      <4> HIDE DEF m
      <4>6. h' <= 2 * g
        BY <1>1, <1>5, <1>6, <4>3, <4>4, <4>5
      <4> QED
        BY <4>1, <4>6
    <3> QED
      BY <2>2, <3>1, <3>2
  <2>5. r' <= g' * g' /\ h' <= 2 * g'
    <3>1. CASE g' = g
      BY <2>1, <2>3, <2>4, <3>1
    <3>2. CASE g' = g + 1
      <4> DEFINE small == g * g
                 square == (g + 1) * (g + 1)
      <4>1. small \in Nat /\ square \in Nat /\ small <= square /\ r <= small
        BY <1>2, <2>1
      <4> HIDE DEF small, square, r, h, g
      <4>2. r' <= square
        BY <1>5, <2>3, <4>1
      <4>3. h' <= 2 * (g + 1)
        BY <1>1, <1>6, <2>4
      <4> QED
        BY <3>2, <4>2, <4>3 DEF square
    <3> QED
      BY <1>1, <3>1, <3>2
  <2>6. ASSUME connected' PROVE h' < 2 * g'
    <3>1. h' < 2 * g
      BY <2>4, <2>6
    <3>2. CASE g' = g
      BY <3>1, <3>2
    <3>3. CASE g' = g + 1
      <4>1. h' < 2 * (g + 1)
        BY <1>1, <1>6, <3>1
      <4> QED
        BY <3>3, <4>1
    <3> QED
      BY <1>1, <3>2, <3>3
  <2> QED
    BY <1>8, <2>5, <2>6 DEF Budget
\* It begins: what the client holds is to be sent once more.
<1>9. CASE session # "up" /\ session' = "up"
  <2>1. r <= g * g /\ h <= 2 * g
    BY <1>9 DEF Budget
  <2>2. /\ ConnectionAccepted /\ wire = <<>>
    BY <1>9, SessionBegins DEF SessionState
  <2>3. /\ resend' = out /\ g' = g
        /\ UNCHANGED <<out, wire, broker>>
    BY <2>2 DEF ConnectionAccepted, OnConnect, publisherVars
  <2>4. /\ Received(i)' = Received(i) /\ OnWire(i)' = {}
        /\ ToResend(i)' = Held(i) /\ Held(i)' = Held(i)
    BY <2>2, <2>3 DEF Received, OnWire, ToResend, Held
  <2>5. Cardinality(OnWire(i)') = 0
    BY <2>4, FS_EmptySet
  <2>6. Copies(i)' = r + h
    BY <1>5, <2>4, <2>5 DEF Copies
  <2>7. Copies(i)' < (g + 1) * (g + 1) /\ h' <= 2 * g
    <3> DEFINE small == g * g
               square == (g + 1) * (g + 1)
    <3>1. small \in Nat /\ square = small + 2 * g + 1 /\ r <= small /\ h <= 2 * g /\ h' = h
      BY <1>2, <2>1, <2>4
    <3> HIDE DEF small, square, r, h, g
    <3>2. Copies(i)' < square
      BY <1>1, <1>5, <2>6, <3>1
    <3>3. h' <= 2 * g
      BY <1>1, <1>5, <3>1
    <3> QED
      BY <3>2, <3>3 DEF square
  <2>8. h' <= 2 * g + 1 /\ Copies(i)' <= (g + 1) * (g + 1)
    BY <1>1, <1>2, <1>6, <2>7
  <2> QED
    BY <1>9, <2>3, <2>7, <2>8 DEF Budget
\* It lasts: a copy is added only by publish, which closes the row.
<1>10. CASE session = "up" /\ session' = "up"
  <2>1. CASE Copies(i)' <= Copies(i) /\ h' <= h
    BY <1>6, <1>10, <2>1, NoMoreCopies
  <2>2. ASSUME NEW x \in batch, PublishRow(x), x # i PROVE Copies(i)' <= Copies(i) /\ h' <= h
    <3>1. x \in 1 .. MaxId
      BY DEF Ledger, TypeOK, PublisherTypeOK
    <3>2. Copies(i)' = Copies(i) + 0 /\ h' <= h + 0
      BY <1>3, <1>4, <2>2, <3>1, PublishedIsOneMore
    <3> QED
      BY <1>5, <1>6, <3>2
  <2>3. CASE i \in batch /\ PublishRow(i)
    <3>1. Copies(i)' = Copies(i) + 1 /\ h' <= h + 1
      BY <1>3, <1>4, <2>3, PublishedIsOneMore
    <3>2. ~Closed(i)
      BY <2>3 DEF PublishRow, Closed, SessionState
    <3>3. Copies(i) < (g + 1) * (g + 1) /\ h <= 2 * g
      BY <1>10, <3>2 DEF Budget
    <3>4. g' = g /\ Closed(i)'
      BY <2>3 DEF PublishRow, Closed
    <3>5. Copies(i)' <= (g + 1) * (g + 1) /\ h' <= 2 * g + 1
      <4> DEFINE square == (g + 1) * (g + 1)
      <4>1. square \in Nat /\ Copies(i) < square
        BY <1>2, <3>3
      <4> HIDE DEF square, r, h, g
      <4>2. Copies(i)' <= square
        BY <1>5, <3>1, <4>1
      <4>3. h' <= 2 * g + 1
        BY <1>1, <1>5, <1>6, <3>1, <3>3
      <4> QED
        BY <4>2, <4>3 DEF square
    <3> QED
      BY <1>10, <3>4, <3>5 DEF Budget
  <2>4. CASE LinkQuiet
    <3>1. /\ Received(i)' = Received(i) /\ OnWire(i)' = OnWire(i)
          /\ ToResend(i)' = ToResend(i) /\ Held(i)' = Held(i)
      BY <2>4 DEF LinkQuiet, Received, OnWire, ToResend, Held
    <3>2. Copies(i)' = Copies(i) /\ h' = h
      BY <3>1 DEF Copies
    <3> QED
      BY <1>5, <2>1, <3>2
  <2>5. CASE CarriedLost
    <3>1. /\ Received(i)' = Received(i) /\ OnWire(i)' = {} /\ ToResend(i)' = {}
          /\ out' \subseteq out
      BY <2>5 DEF CarriedLost, Received, OnWire, ToResend
    <3>2. Copies(i)' = r + 0 + 0
      BY <3>1, FS_EmptySet DEF Copies
    <3>3. h' <= h
      BY <1>4, <3>1, ForgottenIsNoMore
    <3>4. Copies(i)' <= Copies(i)
      BY <1>5, <3>2
    <3> QED
      BY <2>1, <3>3, <3>4
  <2>6. ASSUME NEW m \in resend, Resend(m) PROVE Copies(i)' <= Copies(i) /\ h' <= h
    BY <1>3, <1>4, <1>5, <2>6, ResendMovesCopy
  <2>7. CASE ArriveNext
    BY <1>3, <1>4, <1>5, <2>1, <2>7, ArrivalMovesCopy
  <2>8. ASSUME NEW m \in acks, Acknowledge(m) PROVE Copies(i)' <= Copies(i) /\ h' <= h
    <3>1. UNCHANGED <<broker, wire, resend>> /\ out' \subseteq out
      BY <2>8 DEF Acknowledge, PubAck
    <3>2. Received(i)' = Received(i) /\ OnWire(i)' = OnWire(i) /\ ToResend(i)' = ToResend(i)
      BY <3>1 DEF Received, OnWire, ToResend
    <3>3. Copies(i)' = Copies(i)
      BY <3>2 DEF Copies
    <3> QED
      BY <1>4, <1>5, <3>1, <3>3, ForgottenIsNoMore
  <2>9. CASE OnConnect \/ \E x \in batch : PublishRaises(x)
    BY <1>10, <2>9 DEF OnConnect, PublishRaises
  <2> QED
    BY <2>1, <2>2, <2>3, <2>4, <2>5, <2>6, <2>7, <2>8, <2>9, LinkEffect
<1> QED
  BY <1>7, <1>8, <1>9, <1>10

\* The first state has nothing to count.
LEMMA InitBudget == Init => SessionState /\ CopyBudget
<1> SUFFICES ASSUME Init PROVE SessionState /\ CopyBudget
  OBVIOUS
<1>1. /\ session = "none" /\ ~connected /\ out = {} /\ resend = {} /\ wire = <<>> /\ broker = <<>>
      /\ batch = {} /\ sentIds = {} /\ faults = 0
  BY DEF Init, LinkInit, PublisherInit
<1>2. SessionState
  BY <1>1, FS_EmptySet DEF SessionState
<1>3. ASSUME NEW i \in 1 .. MaxId PROVE Budget(i)
  <2>1. Received(i) = {} /\ Held(i) = {}
    BY <1>1 DEF Received, Held
  <2>2. Cardinality(Received(i)) = 0 /\ Cardinality(Held(i)) = 0
    BY <2>1, FS_EmptySet
  <2> QED
    BY <1>1, <2>2 DEF Budget
<1> QED
  BY <1>2, <1>3 DEF CopyBudget

\* The inductive invariant holds in every reachable state.
THEOREM InductiveInvariant == Spec => []IInv
<1>1. Init => IInv
  BY InitLedger, InitBudget DEF IInv
<1>2. IInv /\ [Next]_vars => IInv'
  <2> SUFFICES ASSUME IInv, [Next]_vars PROVE IInv'
    OBVIOUS
  <2>1. Ledger /\ SessionState /\ CopyBudget
    BY DEF IInv
  <2>2. Ledger'
    BY <2>1, LedgerStep
  <2>3. SessionState'
    BY <2>1, NextSessionFlags, NextCarried, NextBatchState DEF SessionState
  <2>4. CopyBudget'
    BY <2>1, <2>2, <2>3, NextBudget DEF CopyBudget
  <2> QED
    BY <2>2, <2>3, <2>4 DEF IInv
<1> QED
  BY <1>1, <1>2, PTL DEF Spec

\* However the failures fall, the broker sees a row no more often than the
\* square of one plus their number: with the connection up or not.
THEOREM CopiesAreBounded == Spec => []CopiesBounded
<1>1. IInv => CopiesBounded
  <2> SUFFICES ASSUME IInv, NEW i \in 1 .. MaxId
               PROVE  Cardinality(Received(i)) <= (faults + 1) * (faults + 1)
    BY DEF CopiesBounded, Received
  <2> DEFINE square == (faults + 1) * (faults + 1)
             small == faults * faults
  <2>1. faults \in Nat
    BY PublisherConstants DEF IInv, Ledger, TypeOK, PublisherTypeOK
  <2>2. small \in Nat /\ square \in Nat /\ small <= square
    BY <2>1, NextSquare
  <2>3. /\ Cardinality(Received(i)) \in Nat /\ Cardinality(OnWire(i)) \in Nat
        /\ Cardinality(ToResend(i)) \in Nat
    BY CountsAreNumbers DEF IInv, Ledger, TypeOK, SessionState
  <2>4. (session = "up" /\ Copies(i) <= square) \/ Cardinality(Received(i)) <= small
    BY DEF IInv, CopyBudget, Budget
  <2> HIDE DEF square, small
  <2>5. Cardinality(Received(i)) <= square
    BY <2>2, <2>3, <2>4 DEF Copies
  <2> QED
    BY <2>5 DEF square
<1> QED
  BY <1>1, InductiveInvariant, PTL

-----------------------------------------------------------------------------
(* What follows.                                                           *)

\* The variables of the outbox, the link and the publisher keep their types.
THEOREM TypeCorrect == Spec => []TypeOK
<1>1. Ledger => TypeOK
  BY DEF Ledger
<1> QED
  BY <1>1, LedgerHolds, PTL

\* No written row leaves the table before the broker has it, unless the ring
\* drops it, for every ring and batch size and any number of failures.
THEOREM NothingIsLost == Spec => []NoLoss
<1>1. Ledger => NoLoss
  BY DEF Ledger
<1> QED
  BY <1>1, LedgerHolds, PTL

\* The broker sees the rows for the first time in the order in which they were
\* written, but for those that the ring or a power loss took: a connection that
\* drops, a message that paho sends once more and a batch that is cut short put
\* none before an older one.
THEOREM FirstArrivals == Spec => []FirstArrivalInOrder
<1>1. Ledger => FirstArrivalInOrder
  BY DEF Ledger
<1> QED
  BY <1>1, LedgerHolds, PTL

-----------------------------------------------------------------------------
(* What a step may never do.                                               *)

\* The table with a row more is still finite.
LEMMA InsertedFinite ==
  ASSUME OutboxTypeOK
  PROVE  IsFiniteSet(Inserted) /\ Inserted \subseteq Nat
<1>1. IsFiniteSet(Inserted)
  BY RowsFinite, FS_AddElement DEF Inserted
<1>2. nextId \in Nat
  BY OutboxConstants DEF OutboxTypeOK
<1> QED
  BY <1>1, <1>2, RowsFinite DEF Inserted

\* Rows leave the table from its old end only, but for a power loss.
THEOREM RemovedFromFront == Spec => FrontOnly
<1>1. Ledger /\ [Next]_vars => [\A i \in (rows \ rows') \ lost', j \in rows' : i < j]_rows
  <2> SUFFICES ASSUME Ledger, [Next]_vars, NEW i \in (rows \ rows') \ lost', NEW j \in rows'
               PROVE  i < j
    OBVIOUS
  <2>1. CASE UNCHANGED outboxVars
    BY <2>1 DEF outboxVars
  <2>2. CASE Enqueue
    <3>1. i \in Overflow(Inserted) /\ j \in Inserted \ Overflow(Inserted)
      BY <2>2 DEF Enqueue, Inserted
    <3> QED
      BY <3>1, InsertedFinite, OverflowIsOlder DEF Ledger, TypeOK
  <2>3. CASE CutShort
    BY <2>3 DEF CutShort, EnqueueUntrimmed, Inserted
  <2>4. CASE TableCut
    BY <2>4 DEF TableCut, DeleteIds, Ledger, BatchAtFront
  <2>5. CASE Synced
    BY <2>5 DEF Synced, Flush
  <2>6. CASE PowerLoss
    BY <2>6 DEF PowerLoss, LosePower
  <2> QED
    BY <2>1, <2>2, <2>3, <2>4, <2>5, <2>6, OutboxEffect
<1> QED
  BY <1>1, LedgerHolds, PTL DEF Spec, FrontOnly

\* The ring drops a row only when max_rows younger ones are in the table.
THEOREM DroppedOnlyWhenFull == Spec => DropsOnlyWhenFull
<1> DEFINE Full(i) == Cardinality({j \in Inserted : j > i}) >= MaxRows
<1>1. Ledger /\ [Next]_vars => [\A i \in dropped' \ dropped : Full(i)]_dropped
  <2> SUFFICES ASSUME Ledger, [Next]_vars, NEW i \in dropped' \ dropped
               PROVE  Full(i)
    OBVIOUS
  <2>1. i \in Overflow(Inserted)
    BY OutboxEffect
       DEF outboxVars, Enqueue, CutShort, EnqueueUntrimmed, TableCut, DeleteIds, Synced,
           Flush, PowerLoss, LosePower
  <2> QED
    BY <2>1, InsertedFinite, TrimOnlyWhenFull DEF Ledger, TypeOK
<1> QED
  BY <1>1, LedgerHolds, PTL DEF Spec, DropsOnlyWhenFull

\* An enqueue that is not cut short leaves at most max_rows rows, also when it
\* found the surplus of one that was, or one that a power loss brought back.
THEOREM EnqueueRepairs == Spec => RingRepaired
<1>1. Ledger /\ [Next]_vars =>
        [nextId' # nextId /\ faults' = faults => Cardinality(rows') <= MaxRows]_vars
  <2> SUFFICES ASSUME Ledger, [Next]_vars, nextId' # nextId, faults' = faults
               PROVE  Cardinality(rows') <= MaxRows
    OBVIOUS
  <2>1. ~Fault
    BY DEF Fault, Ledger, TypeOK, PublisherTypeOK
  <2>2. Enqueue
    BY <2>1, OutboxEffect
       DEF outboxVars, TableCut, DeleteIds, CutShort, Synced, Flush, PowerLoss, Die
  <2> QED
    BY <2>2, InsertedFinite, TrimFits DEF Enqueue, Ledger, TypeOK
<1> QED
  BY <1>1, LedgerHolds, PTL DEF Spec, RingRepaired

-----------------------------------------------------------------------------
(* The publisher implements StoreAndForward.                               *)

\* The empty table and the silent broker are where the promise starts.
LEMMA PromiseInit == Init => Promise!Init
<1> SUFFICES ASSUME Init PROVE Promise!Init
  OBVIOUS
<1>1. rows = {} /\ nextId = 1 /\ dropped = {} /\ lost = {} /\ broker = <<>>
  BY DEF Init, OutboxInit, LinkInit
<1>2. Accepted = {} /\ Delivered = {}
  BY <1>1 DEF Accepted, Delivered
<1> QED
  BY <1>1, <1>2 DEF Promise!Init

\* An enqueue accepts a payload, giving up what the trim takes; the broker's
\* receiving a packet delivers one; delete_ids forgets delivered ones; a
\* power loss goes back to the table on the storage; every other step is
\* invisible.
LEMMA PromiseStep ==
  ASSUME Ledger, [Next]_vars
  PROVE  [Promise!Next]_(Promise!vars)
<1> USE DEF Ledger, TypeOK
<1>1. CASE UNCHANGED outboxVars
  <2>0. UNCHANGED <<Accepted, rows, dropped, lost>>
    BY <1>1 DEF outboxVars, Accepted
  <2>1. CASE Delivered' = Delivered
    BY <2>0, <2>1 DEF Promise!vars
  <2>2. CASE wire # <<>> /\ Delivered' = Delivered \cup {Head(wire).row}
    <3>1. Head(wire).row \in Accepted
      BY <2>2 DEF OnlyAccepted, LinkTypeOK
    <3>2. Promise!Deliver(Head(wire).row)
      BY <2>0, <2>2, <3>1 DEF Promise!Deliver
    <3> QED
      BY <3>1, <3>2 DEF Promise!Next
  <2> QED
    BY <2>1, <2>2, DeliveredGrows
<1>2. CASE Enqueue /\ UNCHANGED <<linkVars, publisherVars>>
  <2> DEFINE V == Overflow(Inserted)
  <2>1. Delivered' = Delivered
    BY <1>2 DEF linkVars, Delivered
  <2>2. /\ nextId \in 1 .. MaxId
        /\ \A j \in Accepted : j < nextId
        /\ Accepted' = Accepted \cup {nextId}
    BY <1>2, OutboxConstants DEF Enqueue, OutboxTypeOK, Accepted
  <2>3. V \in SUBSET Inserted
    BY DEF Overflow, Oldest
  <2>4. \A v \in V, k \in Inserted \ V : v < k
    BY InsertedFinite, OverflowIsOlder
  <2>5. rows' = Inserted \ V /\ dropped' = dropped \cup V /\ lost' = lost
    BY <1>2 DEF Enqueue
  <2> HIDE DEF V
  <2>6. Promise!Accept(nextId, V)
    BY <2>1, <2>2, <2>4, <2>5 DEF Promise!Accept, Inserted
  <2> QED
    BY <2>2, <2>3, <2>6 DEF Promise!Next, Inserted
<1>3. CASE CutShort
  <2>1. Delivered' = Delivered
    BY <1>3 DEF CutShort, Delivered
  <2>2. /\ nextId \in 1 .. MaxId
        /\ \A j \in Accepted : j < nextId
        /\ Accepted' = Accepted \cup {nextId}
    BY <1>3, OutboxConstants DEF CutShort, EnqueueUntrimmed, OutboxTypeOK, Accepted
  <2>3. rows' = (rows \cup {nextId}) \ {} /\ dropped' = dropped \cup {} /\ lost' = lost
    BY <1>3 DEF CutShort, EnqueueUntrimmed, Inserted
  <2>4. Promise!Accept(nextId, {})
    BY <2>1, <2>2, <2>3 DEF Promise!Accept
  <2> QED
    BY <2>2, <2>4 DEF Promise!Next
<1>4. CASE TableCut
  <2> DEFINE D == rows \cap sentIds
  <2>1. Delivered' = Delivered /\ Accepted' = Accepted
    BY <1>4 DEF TableCut, DeleteIds, linkVars, Delivered, Accepted
  <2>2. D \in SUBSET rows /\ D \subseteq rows \cap Delivered
    BY DEF AckMeansDelivered
  <2>3. rows' = rows \ D /\ dropped' = dropped /\ lost' = lost
    BY <1>4 DEF TableCut, DeleteIds
  <2> HIDE DEF D
  <2>4. Promise!Forget(D)
    BY <2>1, <2>2, <2>3 DEF Promise!Forget
  <2> QED
    BY <2>2, <2>4 DEF Promise!Next
<1>5. CASE Synced
  BY <1>5 DEF Synced, Flush, linkVars, Accepted, Delivered, Promise!vars
<1>6. CASE PowerLoss
  <2> DEFINE Gone == rows \ disk
             Back == disk \ rows
  <2>1. Delivered' = Delivered /\ Accepted' = Accepted /\ dropped' = dropped
    BY <1>6 DEF PowerLoss, LosePower, Die, LoseClient, Delivered, Accepted
  <2>2. Gone \in SUBSET rows /\ Back \in SUBSET (Delivered \cup dropped)
    BY DEF DiskLags
  <2>3. \A g \in Gone, k \in (rows \ Gone) \cup Back : k < g
    BY DEF DiskLags
  <2>4. rows' = (rows \ Gone) \cup Back /\ lost' = lost \cup Gone
    BY <1>6 DEF PowerLoss, LosePower
  <2> HIDE DEF Gone, Back
  <2>5. Promise!PowerFails(Gone, Back)
    BY <2>1, <2>2, <2>3, <2>4 DEF Promise!PowerFails
  <2> QED
    BY <2>2, <2>5 DEF Promise!Next
<1> QED
  BY <1>1, <1>2, <1>3, <1>4, <1>5, <1>6, OutboxEffect

\* The publisher, its outbox and its link implement the abstract promise, for
\* every ring size, batch size and number of failures.
THEOREM Refinement == Spec => PromiseKept
<1>1. Ledger /\ [Next]_vars => [Promise!Next]_(Promise!vars)
  BY PromiseStep
<1> QED
  BY <1>1, PromiseInit, LedgerHolds, PTL DEF Spec, PromiseKept, Promise!Spec

-----------------------------------------------------------------------------
(* The process as a whole implements the Publisher, so that what is proved *)
(* of the Publisher with any groups holds with these groups.               *)

\* Every step of the process is a step of the Publisher or leaves it alone.
LEMMA CollectorStep == CNext => [Next]_vars
<1> SUFFICES ASSUME CNext PROVE [Next]_vars
  OBVIOUS
<1>1. CASE PublisherOnly
  BY <1>1 DEF PublisherOnly, Next, FaultStep
<1>2. CASE ProcessDies
  BY <1>2 DEF ProcessDies, Next, FaultStep
<1>3. ASSUME NEW g \in Groups, GroupStep(g) PROVE [Next]_vars
  <2>1. CASE GroupWakes(g)
    BY <2>1 DEF GroupWakes
  <2>2. CASE GroupBacksOff(g)
    BY <2>2 DEF GroupBacksOff
  <2>3. CASE ReportChange(g)
    BY <2>3 DEF ReportChange, Ready, GroupEnqueues, Next
  <2>4. CASE NothingToReport(g)
    BY <2>4 DEF NothingToReport
  <2> QED
    BY <1>3, <2>1, <2>2, <2>3, <2>4 DEF GroupStep
<1>4. ASSUME NEW g \in Groups, ReportHeartbeat(g) PROVE [Next]_vars
  BY <1>4 DEF ReportHeartbeat, Ready, GroupEnqueues, Next
<1>5. ASSUME NEW g \in Groups, EnqueueRaises(g) \/ PlcAnswers(g) \/ PlcSilent(g) \/ PlcChanges(g)
      PROVE  [Next]_vars
  BY <1>5 DEF EnqueueRaises, PlcAnswers, PlcSilent, PlcChanges
<1>6. ASSUME NEW g \in Groups, ProcessDiesInEnqueue(g) PROVE [Next]_vars
  BY <1>6 DEF ProcessDiesInEnqueue, Next, FaultStep
<1>7. ASSUME NEW g \in Groups, EnqueueHalfRaises(g) PROVE [Next]_vars
  BY <1>7 DEF EnqueueHalfRaises, Next, FaultStep
<1>8. CASE PowerFails
  BY <1>8 DEF PowerFails, Next, FaultStep
<1> QED
  BY <1>1, <1>2, <1>3, <1>4, <1>5, <1>6, <1>7, <1>8 DEF CNext

\* Polling groups on the same event loop, with their own failures, touch the
\* outbox and the publisher only in the way the Publisher's specification
\* allows, for any number of groups and tags' values.
THEOREM CollectorImplementsPublisher == CSpec => GroupsRespectPublisher
<1>1. CInit => Init
  BY DEF CInit
<1>2. [CNext]_allVars => [Next]_vars
  BY CollectorStep DEF allVars
<1> QED
  BY <1>1, <1>2, PTL DEF CSpec, GroupsRespectPublisher, Spec

\* No row of any group is lost between the outbox and the broker, none overtakes
\* an older one and none is sent without bound: the whole process keeps the
\* store-and-forward promise (buffer_manager.py 6-13).
THEOREM CollectorLosesNothing ==
  CSpec => [](NoLoss) /\ [](FirstArrivalInOrder) /\ [](CopiesBounded) /\ PromiseKept
BY CollectorImplementsPublisher, NothingIsLost, FirstArrivals, CopiesAreBounded, Refinement, PTL
   DEF GroupsRespectPublisher

=============================================================================
