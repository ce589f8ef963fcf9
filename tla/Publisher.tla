----------------------------- MODULE Publisher -----------------------------
(***************************************************************************)
(* MQTTPublisher of edge-gateway/edge_collector.py draining the Outbox     *)
(* over an MqttLink, while the polling groups keep filling the Outbox, and *)
(* while the process may die and be started again by procd.                *)
(*                                                                         *)
(* Everything in the process but paho's network thread runs on one asyncio *)
(* event loop.  A polling group can enqueue only while the publisher is    *)
(* suspended at an await (LoopFree); connect and wait_for_publish are not, *)
(* so the loop stands still in pc = "dial" and pc = "wait".  The actions   *)
(* of MqttLink belong to the network thread and the world and happen at    *)
(* any pc.                                                                 *)
(*                                                                         *)
(* pc      the publisher is ...                                            *)
(* retry   asleep for the back-off, or not yet started                     *)
(* dial    blocked in client.connect: name, TCP and TLS, no await          *)
(* await   waiting for _connected, at most 15 s                            *)
(* drain   at the test of "while self._connected.is_set()"                 *)
(* idle    asleep because the outbox was empty                             *)
(* publish at the head of the for loop over the batch                      *)
(* wait    blocked in wait_for_publish, at most 5 s                        *)
(* pause   asleep for min_interval after a confirmed row                   *)
(* down    not there: the process is dead                                  *)
(***************************************************************************)
EXTENDS Outbox, MqttLink

CONSTANT MaxFaults    \* model bound: failures of the network or the process

ASSUME PublisherConstants == MaxFaults \in Nat

VARIABLES pc,
          batch,      \* rows of the current batch not yet gone through
          sentIds,    \* sent_ids: rows of the batch the broker confirmed
          current,    \* the message wait_for_publish waits for
          confirmed,  \* its MQTTMessageInfo is marked as published
          backoffIdx, \* backoff_idx
          faults      \* history: failures so far

publisherVars == <<pc, batch, sentIds, current, confirmed, backoffIdx, faults>>
vars == <<outboxVars, linkVars, publisherVars>>

NoMessage == [mid |-> 0, row |-> 0]

\* The publisher is suspended at an await: other tasks of the loop may run.
LoopFree == pc \in {"retry", "await", "idle", "pause"}

\* paho's network thread runs: between loop_start and loop_stop.
NetThread == pc \notin {"retry", "dial", "down"}

FaultAllowed == faults < MaxFaults
Fault == FaultAllowed /\ faults' = faults + 1

PublisherInit ==
  /\ pc = "retry"
  /\ batch = {}
  /\ sentIds = {}
  /\ current = NoMessage
  /\ confirmed = FALSE
  /\ backoffIdx = 0
  /\ faults = 0

Init == OutboxInit /\ LinkInit /\ PublisherInit

-----------------------------------------------------------------------------
(* run: connect, wait for the CONNACK, drain, clean up, back off.          *)

\* The finally clause of run and the sleep after it; sent_ids goes with the
\* frame of _drain_loop that held it.
Backoff ==
  /\ pc' = "retry"
  /\ backoffIdx' = backoffIdx + 1
  /\ batch' = {}
  /\ sentIds' = {}
  /\ current' = NoMessage
  /\ confirmed' = FALSE

\* client.connect succeeds and loop_start starts the network thread.
Connect ==
  /\ pc = "dial"
  /\ OpenSession
  /\ pc' = "await"
  /\ UNCHANGED <<outboxVars, batch, sentIds, current, confirmed, backoffIdx, faults>>

\* client.connect raises: no route, refused, TLS, name resolution.
ConnectFails ==
  /\ pc = "dial"
  /\ Fault
  /\ CloseClient
  /\ Backoff
  /\ UNCHANGED outboxVars

\* wait_for returns: the event is set.
AwaitConnected ==
  /\ pc = "await"
  /\ connected
  /\ pc' = "drain"
  /\ backoffIdx' = 0
  /\ UNCHANGED <<outboxVars, linkVars, batch, sentIds, current, confirmed, faults>>

\* wait_for times out after 15 s; the network thread is not waited for, so
\* the event may just have been set.
AwaitTimeout ==
  /\ pc = "await"
  /\ Fault
  /\ CloseClient
  /\ Backoff
  /\ UNCHANGED outboxVars

-----------------------------------------------------------------------------
(* _drain_loop                                                             *)

DrainEnds ==
  /\ pc = "drain"
  /\ ~connected
  /\ CloseClient
  /\ Backoff
  /\ UNCHANGED <<outboxVars, faults>>

DrainIdle ==
  /\ pc = "drain"
  /\ connected
  /\ PeekBatch = {}
  /\ pc' = "idle"
  /\ UNCHANGED <<outboxVars, linkVars, batch, sentIds, current, confirmed, backoffIdx, faults>>

DrainBatch ==
  /\ pc = "drain"
  /\ connected
  /\ PeekBatch # {}
  /\ batch' = PeekBatch
  /\ sentIds' = {}
  /\ pc' = "publish"
  /\ UNCHANGED <<outboxVars, linkVars, current, confirmed, backoffIdx, faults>>

\* A sleep ends: the second after an empty peek, or the back-off.
Wake ==
  /\ \/ pc = "idle" /\ pc' = "drain"
     \/ pc = "retry" /\ pc' = "dial"
  /\ UNCHANGED <<outboxVars, linkVars, batch, sentIds, current, confirmed, backoffIdx, faults>>

\* The row the for loop is at: rows come from peek_batch in the order of id.
IsNext(i) == i \in batch /\ \A j \in batch : i <= j

PublishRow(i) ==
  LET m == [mid |-> nextMid, row |-> i]
  IN /\ pc = "publish"
     /\ IsNext(i)
     /\ connected
     /\ session = "up"
     /\ ClientPublish(m)
     /\ current' = m
     /\ confirmed' = FALSE
     /\ pc' = "wait"
     /\ UNCHANGED <<outboxVars, batch, sentIds, backoffIdx, faults>>

\* The connection is gone but _on_disconnect has not run: publish keeps the
\* message and returns MQTT_ERR_NO_CONN, wait_for_publish raises on it, and
\* the exception leaves _drain_loop without delete_ids.
PublishRaises(i) ==
  /\ pc = "publish"
  /\ IsNext(i)
  /\ connected
  /\ session = "none"
  /\ out' = out \cup {[mid |-> nextMid, row |-> i]}
  /\ nextMid' = nextMid + 1
  /\ LoseSession
  /\ connected' = FALSE
  /\ Backoff
  /\ UNCHANGED <<outboxVars, broker, faults>>

Confirmed ==
  /\ pc = "wait"
  /\ confirmed
  /\ sentIds' = sentIds \cup {current.row}
  /\ batch' = batch \ {current.row}
  /\ current' = NoMessage
  /\ confirmed' = FALSE
  /\ pc' = "pause"
  /\ UNCHANGED <<outboxVars, linkVars, backoffIdx, faults>>

\* Mutant: no break, the loop goes on with the next row.
Mutant_SkipsUnconfirmed ==
  /\ pc = "wait"
  /\ ~confirmed
  /\ IF session = "up" THEN Fault ELSE UNCHANGED faults
  /\ batch' = batch \ {current.row}
  /\ current' = NoMessage
  /\ pc' = "publish"
  /\ UNCHANGED <<outboxVars, linkVars, sentIds, confirmed, backoffIdx>>

\* Mutant: sent_ids.append before the test of is_published.
Mutant_DeletesUnconfirmed ==
  /\ pc = "wait"
  /\ ~confirmed
  /\ IF session = "up" THEN Fault ELSE UNCHANGED faults
  /\ DeleteIds(sentIds \cup {current.row})
  /\ batch' = {}
  /\ sentIds' = {}
  /\ current' = NoMessage
  /\ pc' = "drain"
  /\ UNCHANGED <<linkVars, confirmed, backoffIdx>>

\* wait_for_publish gives up after 5 s: break, then delete_ids(sent_ids).
\* With the session up this is a late acknowledgement, counted as a failure.
Unconfirmed ==
  /\ pc = "wait"
  /\ ~confirmed
  /\ IF session = "up" THEN Fault ELSE UNCHANGED faults
  /\ DeleteIds(sentIds)
  /\ batch' = {}
  /\ sentIds' = {}
  /\ current' = NoMessage
  /\ pc' = "drain"
  /\ UNCHANGED <<linkVars, confirmed, backoffIdx>>

Resume ==
  /\ pc = "pause"
  /\ pc' = "publish"
  /\ UNCHANGED <<outboxVars, linkVars, batch, sentIds, current, confirmed, backoffIdx, faults>>

\* Mutant: the whole batch is deleted, also when the connection cut it short.
Mutant_DeletesBatch ==
  /\ pc = "publish"
  /\ batch = {} \/ ~connected
  /\ DeleteIds(sentIds \cup batch)
  /\ batch' = {}
  /\ sentIds' = {}
  /\ pc' = "drain"
  /\ UNCHANGED <<linkVars, current, confirmed, backoffIdx, faults>>

\* Mutant: delete_ids is not called, what was sent stays in the table.
Mutant_NeverDeletes ==
  /\ pc = "publish"
  /\ batch = {} \/ ~connected
  /\ batch' = {}
  /\ sentIds' = {}
  /\ pc' = "drain"
  /\ UNCHANGED <<outboxVars, linkVars, current, confirmed, backoffIdx, faults>>

\* The batch is through, or the connection was lost: delete_ids(sent_ids).
FinishBatch ==
  /\ pc = "publish"
  /\ batch = {} \/ ~connected
  /\ DeleteIds(sentIds)
  /\ batch' = {}
  /\ sentIds' = {}
  /\ pc' = "drain"
  /\ UNCHANGED <<linkVars, current, confirmed, backoffIdx, faults>>

-----------------------------------------------------------------------------
(* The rest of the process, the network thread and the world.              *)

\* A polling group writes a payload.
GroupEnqueues ==
  /\ LoopFree
  /\ Enqueue
  /\ UNCHANGED <<linkVars, publisherVars>>

\* The process ends: killed, an unhandled error, or SIGTERM at
\* an await (the cancelled drain loop does not reach delete_ids either).
Die ==
  /\ Fault
  /\ LoseClient
  /\ pc' = "down"
  /\ batch' = {}
  /\ sentIds' = {}
  /\ current' = NoMessage
  /\ confirmed' = FALSE
  /\ backoffIdx' = 0

Crash ==
  /\ pc # "down"
  /\ Die
  /\ UNCHANGED outboxVars

CrashInEnqueue ==
  /\ LoopFree
  /\ EnqueueUntrimmed
  /\ Die

\* The power of the router fails, whether or not the process is alive.
PowerLoss ==
  /\ LosePower
  /\ Die

\* Model bound: not when no power loss can follow.
Synced ==
  /\ FaultAllowed
  /\ Flush
  /\ UNCHANGED <<linkVars, publisherVars>>

\* The trim of an enqueue raises: the group gets an exception for a row that
\* is written.
TrimRaises ==
  /\ LoopFree
  /\ EnqueueUntrimmed
  /\ Fault
  /\ UNCHANGED <<linkVars, pc, batch, sentIds, current, confirmed, backoffIdx>>

\* peek_batch or delete_ids raises: the exception leaves _drain_loop, and what
\* was sent stays in the table.
BufferRaises ==
  /\ \/ pc = "drain" /\ connected
     \/ pc = "publish" /\ (batch = {} \/ ~connected) /\ sentIds # {}
     \/ pc = "wait" /\ ~confirmed /\ sentIds # {}
  /\ Fault
  /\ CloseClient
  /\ Backoff
  /\ UNCHANGED outboxVars

\* procd respawns the collector, which finds the table as it was left.
Respawn ==
  /\ pc = "down"
  /\ pc' = "retry"
  /\ UNCHANGED <<outboxVars, linkVars, batch, sentIds, current, confirmed, backoffIdx, faults>>

\* The network thread reconnects by itself after a drop it has reported.
Reconnect ==
  /\ NetThread
  /\ ~connected
  /\ OpenSession
  /\ UNCHANGED <<outboxVars, publisherVars>>

ConnectionDrops ==
  /\ Fault
  /\ Drop
  /\ UNCHANGED <<outboxVars, pc, batch, sentIds, current, confirmed, backoffIdx>>

ConnectionRefused ==
  /\ Fault
  /\ OnConnectRefused
  /\ UNCHANGED <<outboxVars, pc, batch, sentIds, current, confirmed, backoffIdx>>

ConnectionAccepted ==
  /\ OnConnect
  /\ UNCHANGED <<outboxVars, publisherVars>>

DropReported ==
  /\ NetThread
  /\ OnDisconnect
  /\ UNCHANGED <<outboxVars, publisherVars>>

ResendNext(m) == Resend(m) /\ UNCHANGED <<outboxVars, publisherVars>>

ArriveNext == BrokerReceive /\ UNCHANGED <<outboxVars, publisherVars>>

\* Mutant: any PUBACK counts as the one that is waited for.
Mutant_AnyAck(m) ==
  /\ PubAck(m)
  /\ confirmed' = (confirmed \/ pc = "wait")
  /\ UNCHANGED <<outboxVars, pc, batch, sentIds, current, backoffIdx, faults>>

Acknowledge(m) ==
  /\ PubAck(m)
  /\ confirmed' = (confirmed \/ (pc = "wait" /\ m = current))
  /\ UNCHANGED <<outboxVars, pc, batch, sentIds, current, backoffIdx, faults>>

-----------------------------------------------------------------------------
PublisherStep ==
  \/ Connect \/ AwaitConnected
  \/ DrainEnds \/ DrainIdle \/ DrainBatch \/ Wake
  \/ \E i \in batch : PublishRow(i) \/ PublishRaises(i)
  \/ Confirmed \/ Unconfirmed
  \/ Resume \/ FinishBatch

NetworkStep ==
  \/ Reconnect \/ ConnectionAccepted \/ DropReported
  \/ \E m \in resend : ResendNext(m)
  \/ ArriveNext
  \/ \E m \in acks : Acknowledge(m)

FaultStep ==
  \/ ConnectFails \/ AwaitTimeout \/ ConnectionDrops \/ ConnectionRefused
  \/ Crash \/ CrashInEnqueue \/ PowerLoss
  \/ TrimRaises \/ BufferRaises

Next ==
  \/ PublisherStep \/ NetworkStep \/ FaultStep
  \/ GroupEnqueues \/ Synced \/ Respawn

Spec == Init /\ [][Next]_vars

\* asyncio runs every ready task, paho's thread keeps running, procd respawns,
\* and a session that is up delivers.  Timers that only cut a wait short
\* (Unconfirmed among PublisherStep) compete with what they wait for, so an
\* acknowledgement that has arrived must be able to win: it is fair by itself.
Fairness ==
  /\ WF_vars(PublisherStep)
  /\ WF_vars(Reconnect) /\ WF_vars(ConnectionAccepted) /\ WF_vars(DropReported)
  /\ WF_vars(\E m \in resend : ResendNext(m))
  /\ WF_vars(ArriveNext)
  /\ WF_vars(\E m \in acks : Acknowledge(m))
  /\ WF_vars(Respawn)

FairSpec == Spec /\ Fairness

-----------------------------------------------------------------------------
(* What must hold.                                                         *)

PublisherTypeOK ==
  /\ pc \in {"retry", "dial", "await", "drain", "idle", "publish", "wait", "pause", "down"}
  /\ batch \subseteq 1 .. MaxId
  /\ sentIds \subseteq 1 .. MaxId
  /\ current \in Message
  /\ backoffIdx \in Nat
  /\ faults \in 0 .. MaxFaults

FlagsOK == connected \in BOOLEAN /\ confirmed \in BOOLEAN

\* The type invariant of the three parts together.
TypeOK == OutboxTypeOK /\ LinkTypeOK /\ PublisherTypeOK /\ FlagsOK

\* A row that was written and is no longer in the table has reached the
\* broker, unless the ring dropped it or a power loss came before it was on
\* the storage: delete_ids never takes a row whose PUBACK did not come,
\* whatever crash, drop, time-out or failing transaction hit the batch
\* (buffer_manager.py 6-13).
NoLoss ==
  \A i \in 1 .. nextId - 1 : i \in rows \/ i \in Delivered \/ i \in dropped \/ i \in lost

\* Rows leave the table from its old end only, but for a power loss: the ring
\* and delete_ids race for the same rows, and never leave a gap of younger
\* ones behind an older.
FrontOnly ==
  [][\A i \in (rows \ rows') \ lost', j \in rows' : i < j]_rows

\* A row that neither the ring nor a power loss took arrives for the first time before any younger
\* row does: the batch stops at the first row without a PUBACK.
FirstArrivalInOrder ==
  \A k \in DOMAIN broker : \A i \in 1 .. broker[k] - 1 :
    i \in dropped \cup lost \/ \E l \in 1 .. k - 1 : broker[l] = i

\* The ring drops a row only when max_rows younger ones are there, so a row
\* is never dropped while the table has room.
DropsOnlyWhenFull ==
  [][\A i \in dropped' \ dropped :
       Cardinality({j \in Inserted : j > i}) >= MaxRows]_dropped

\* The surplus that a crash or an error between the insert and the trim leaves
\* in the table, or a power loss brings back, is gone after the next enqueue
\* that is not cut short, whatever it is.
RingRepaired ==
  [][nextId' # nextId /\ faults' = faults => Cardinality(rows') <= MaxRows]_vars

\* However often the broker sees a row, it is no more than the square of one
\* plus the failures so far: a failure makes the publisher publish the row
\* once more, and makes paho send every copy it still holds once more.
CopiesBounded ==
  \A i \in 1 .. MaxId :
    Cardinality({k \in DOMAIN broker : broker[k] = i}) <= (faults + 1) * (faults + 1)

\* When failures stop, every row leaves the table (with NoLoss: it arrives or
\* is dropped by the ring); the publisher never gets stuck on one it has.
OutboxDrains == \A i \in 1 .. MaxId : i \in rows ~> i \notin rows

\* Ids handed out so far.
Accepted == 1 .. nextId - 1

\* The publisher and its link do what StoreAndForward promises.
Promise == INSTANCE StoreAndForward WITH
  Ids       <- 1 .. MaxId,
  accepted  <- Accepted,
  kept      <- rows,
  delivered <- Delivered,
  evicted   <- dropped,
  lost      <- lost

\* MQTTPublisher over BufferManager and paho implements that promise: kept
\* until delivered, or given up as the oldest of a full ring; a power loss takes
\* none that was on the storage.
PromiseKept == Promise!Spec

-----------------------------------------------------------------------------
(* Why it holds: the inductive invariant.                                  *)

\* Whatever is held, sent or received is a row that was written.
OnlyAccepted ==
  /\ rows \cup dropped \cup batch \cup sentIds \subseteq Accepted
  /\ disk \cup lost \subseteq Accepted
  /\ \A m \in out \cup resend \cup acks : m.row \in Accepted
  /\ \A k \in DOMAIN wire : wire[k].row \in Accepted
  /\ \A k \in DOMAIN broker : broker[k] \in Accepted

\* A PUBACK, and all that was concluded from one, speaks of a row the broker
\* has.
AckMeansDelivered ==
  /\ \A m \in acks : m.row \in Delivered
  /\ confirmed => current.row \in Delivered
  /\ sentIds \subseteq Delivered

\* The batch is at the old end of the table whatever the ring takes away in
\* the meantime, and is gone through from its old end.
BatchAtFront ==
  /\ \A s \in sentIds, i \in rows \ sentIds : s < i
  /\ \A b \in batch, i \in rows \ (batch \cup sentIds) : b < i
  /\ pc = "wait" => IsNext(current.row)

\* The storage lags behind the table at both ends: what is not on it yet is
\* younger than all that is, and what it still has was done with.
DiskLags ==
  /\ \A i \in rows \ disk, j \in disk : j < i
  /\ disk \ rows \subseteq Delivered \cup dropped

\* Rows that nobody waits for any more.
Settled == Delivered \cup dropped \cup lost

\* A row is published, the first time and any later time, when all older ones
\* are settled; what the client still holds or has sent is no exception.
OldersSettled ==
  \A m \in out \cup resend \cup {wire[k] : k \in DOMAIN wire} :
    \A i \in 1 .. m.row - 1 : i \in Settled

\* What the rows are known to have gone through.
Ledger ==
  /\ TypeOK /\ OnlyAccepted /\ AckMeansDelivered /\ BatchAtFront /\ DiskLags
  /\ OldersSettled
  /\ NoLoss /\ FirstArrivalInOrder

\* What a session carries goes with it, and what a batch was goes with it.
SessionState ==
  /\ session = "up" => connected
  /\ session = "connecting" => ~connected
  /\ session # "up" => wire = <<>> /\ resend = {}
  /\ ~NetThread => session = "none" /\ ~connected
  /\ pc \notin {"publish", "wait", "pause"} => batch = {} /\ sentIds = {}
  /\ batch \cap sentIds = {}
  /\ IsFiniteSet(out) /\ IsFiniteSet(resend)

\* Copies of a row: those the broker got, those the session will still carry,
\* and the messages the client holds for it.
Received(i) == {k \in DOMAIN broker : broker[k] = i}
OnWire(i) == {k \in DOMAIN wire : wire[k].row = i}
ToResend(i) == {m \in resend : m.row = i}
Held(i) == {m \in out : m.row = i}
Copies(i) ==
  Cardinality(Received(i)) + Cardinality(OnWire(i)) + Cardinality(ToResend(i))

\* The publisher will not publish the row again before another failure.
Closed(i) ==
  \/ i \notin rows \cup batch
  \/ i \in sentIds
  \/ pc = "wait" /\ current.row = i

\* A session sends what the client holds of a row, two messages for each failure
\* so far (one that was sent, one that the client took while it did not know of
\* the drop), and one more; the odd numbers add up to the square.
Budget(i) ==
  IF session = "up"
    THEN /\ Copies(i) <= (faults + 1) * (faults + 1)
         /\ Cardinality(Held(i)) <= 2 * faults + 1
         /\ ~Closed(i) => /\ Copies(i) < (faults + 1) * (faults + 1)
                          /\ Cardinality(Held(i)) <= 2 * faults
    ELSE /\ Cardinality(Received(i)) <= faults * faults
         /\ Cardinality(Held(i)) <= 2 * faults
         /\ connected => Cardinality(Held(i)) < 2 * faults

CopyBudget == \A i \in 1 .. MaxId : Budget(i)

\* The inductive invariant, with the safety properties it is there for.
IInv == Ledger /\ SessionState /\ CopyBudget

=============================================================================
