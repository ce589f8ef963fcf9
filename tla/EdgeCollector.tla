---------------------------- MODULE EdgeCollector ----------------------------
(***************************************************************************)
(* The whole process of edge-gateway/edge_collector.py: the Publisher with *)
(* its Outbox and MqttLink, and the polling groups that fill the Outbox,   *)
(* on one event loop.  This module replaces GroupEnqueues by what a group  *)
(* does: poll, compare with what it last marked as sent, mark, enqueue.    *)
(*                                                                         *)
(* One tag per group, and of PollGroup's timing only what decides who may  *)
(* run: a poll is answered by the PLC at any time, the rest of the cycle   *)
(* needs the event loop.  A row's payload is kept as history.              *)
(***************************************************************************)
EXTENDS Publisher

CONSTANTS Groups,      \* the enabled polling_groups
          PlcValues,   \* what a tag may read as, each a deadband apart
          NoValue,     \* no value yet
          MaxChanges,  \* model bound: changes of the values in the PLCs
          MaxGroupFaults \* model bound: failures of polls and of enqueue

ASSUME CollectorConstants ==
  /\ NoValue \notin PlcValues
  /\ MaxChanges \in Nat
  /\ MaxGroupFaults \in Nat

VARIABLES plc,         \* the value in the PLC
          cycle,       \* where the group's task is
          reading,     \* raw_metrics of this cycle
          marked,      \* TagState.last_value
          payload,     \* history: what was written as the row of an id
          changes,     \* history: changes of plc so far
          groupFaults  \* history: failures of polls and of enqueue so far

groupVars == <<plc, cycle, reading, marked, payload, changes, groupFaults>>
allVars == <<vars, groupVars>>

\* No row yet.
NoRow == [group |-> NoValue, value |-> NoValue]

CInit ==
  /\ Init
  /\ plc \in [Groups -> PlcValues]
  /\ cycle = [g \in Groups |-> "asleep"]
  /\ reading = [g \in Groups |-> NoValue]
  /\ marked = [g \in Groups |-> NoValue]
  /\ payload = [i \in 1 .. MaxId |-> NoRow]
  /\ changes = 0
  /\ groupFaults = 0

-----------------------------------------------------------------------------
(* A polling group.                                                        *)

GroupFault == groupFaults < MaxGroupFaults /\ groupFaults' = groupFaults + 1

\* The sleep ends and driver.poll sends its request.
GroupWakes(g) ==
  /\ LoopFree
  /\ cycle[g] = "asleep"
  /\ cycle' = [cycle EXCEPT ![g] = "polling"]
  /\ UNCHANGED <<vars, plc, reading, marked, payload, changes, groupFaults>>

\* The PLC answers; the group's task is ready and waits for the loop.
PlcAnswers(g) ==
  /\ cycle[g] = "polling"
  /\ cycle' = [cycle EXCEPT ![g] = "answered"]
  /\ reading' = [reading EXCEPT ![g] = plc[g]]
  /\ UNCHANGED <<vars, plc, marked, payload, changes, groupFaults>>

\* The PLC does not answer and poll raises.
PlcSilent(g) ==
  /\ cycle[g] = "polling"
  /\ GroupFault
  /\ cycle' = [cycle EXCEPT ![g] = "failed"]
  /\ UNCHANGED <<vars, plc, reading, marked, payload, changes>>

\* Mutant: the exception ends the group's task.
Mutant_GroupGivesUp(g) ==
  /\ LoopFree
  /\ cycle[g] = "failed"
  /\ UNCHANGED allVars

\* disconnect, and the sleep of the back-off begins.
GroupBacksOff(g) ==
  /\ LoopFree
  /\ cycle[g] = "failed"
  /\ cycle' = [cycle EXCEPT ![g] = "asleep"]
  /\ UNCHANGED <<vars, plc, reading, marked, payload, changes, groupFaults>>

\* Mutant: the group runs in a thread of its own and does not need the loop.
Mutant_OwnThread(g) == cycle[g] = "answered"

\* The task has the loop and the answer in hand.
Ready(g) == LoopFree /\ cycle[g] = "answered"

Changed(g) == marked[g] = NoValue \/ reading[g] # marked[g]

WriteRow(g) ==
  payload' = [payload EXCEPT ![nextId] = [group |-> g, value |-> reading[g]]]

EndCycle(g, how) ==
  /\ cycle' = [cycle EXCEPT ![g] = how]
  /\ marked' = [marked EXCEPT ![g] = reading[g]]
  /\ UNCHANGED <<plc, reading, changes>>

\* The value has changed: marked as sent and enqueued, without an await.
ReportChange(g) ==
  /\ Ready(g)
  /\ Changed(g)
  /\ Enqueue
  /\ WriteRow(g)
  /\ EndCycle(g, "asleep")
  /\ UNCHANGED <<linkVars, publisherVars, groupFaults>>

\* The rows of a group that neither the ring nor a power loss has taken.
RowsOf(g) == {i \in Accepted \ (dropped \cup lost) : payload[i].group = g}

\* The last value of the group that is on its way or has arrived.
Carried(g) ==
  IF RowsOf(g) = {} THEN NoValue
  ELSE payload[CHOOSE i \in RowsOf(g) : \A j \in RowsOf(g) : j <= i].value

\* The heartbeat of an unchanged value.  Model bound: one that repeats what is
\* on its way or has arrived is left out.
ReportHeartbeat(g) ==
  /\ Ready(g)
  /\ ~Changed(g)
  /\ Carried(g) # reading[g]
  /\ Enqueue
  /\ WriteRow(g)
  /\ EndCycle(g, "asleep")
  /\ UNCHANGED <<linkVars, publisherVars, groupFaults>>

NothingToReport(g) ==
  /\ Ready(g)
  /\ ~Changed(g)
  /\ EndCycle(g, "asleep")
  /\ UNCHANGED <<vars, payload, groupFaults>>

\* enqueue raises on its first commit, on a change or a heartbeat: the value
\* stays marked as sent.
EnqueueRaises(g) ==
  /\ Ready(g)
  /\ GroupFault
  /\ EndCycle(g, "failed")
  /\ UNCHANGED <<vars, payload>>

\* It raises on the trim: the cycle fails all the same, the row is there.
EnqueueHalfRaises(g) ==
  /\ Ready(g)
  /\ Changed(g) \/ Carried(g) # reading[g]
  /\ TrimRaises
  /\ WriteRow(g)
  /\ EndCycle(g, "failed")
  /\ UNCHANGED groupFaults

-----------------------------------------------------------------------------
(* The world.                                                              *)

PlcChanges(g) ==
  /\ changes < MaxChanges
  /\ changes' = changes + 1
  /\ \E v \in PlcValues \ {plc[g]} : plc' = [plc EXCEPT ![g] = v]
  /\ UNCHANGED <<vars, cycle, reading, marked, payload, groupFaults>>

\* TagState is memory: it goes with the process.
LoseGroups ==
  /\ cycle' = [g \in Groups |-> "asleep"]
  /\ reading' = [g \in Groups |-> NoValue]
  /\ marked' = [g \in Groups |-> NoValue]
  /\ UNCHANGED <<plc, changes, groupFaults>>

\* The process ends at any moment but between the commits of an enqueue.
ProcessDies == Crash /\ LoseGroups /\ UNCHANGED payload

PowerFails == PowerLoss /\ LoseGroups /\ UNCHANGED payload

\* Between the two commits of an enqueue, of a change or of a heartbeat.
ProcessDiesInEnqueue(g) ==
  /\ Ready(g)
  /\ Changed(g) \/ Carried(g) # reading[g]
  /\ CrashInEnqueue
  /\ WriteRow(g)
  /\ LoseGroups

GroupStep(g) ==
  \/ GroupWakes(g) \/ GroupBacksOff(g)
  \/ ReportChange(g) \/ NothingToReport(g)

\* Every step of the Publisher's that is not the death of the process or an
\* enqueue.
PublisherOnly ==
  /\ PublisherStep \/ NetworkStep \/ Respawn \/ Synced \/ BufferRaises
     \/ ConnectFails \/ AwaitTimeout \/ ConnectionDrops \/ ConnectionRefused
  /\ UNCHANGED groupVars

CNext ==
  \/ PublisherOnly
  \/ \E g \in Groups :
       \/ GroupStep(g) \/ ReportHeartbeat(g) \/ EnqueueRaises(g) \/ EnqueueHalfRaises(g)
       \/ PlcAnswers(g) \/ PlcSilent(g) \/ PlcChanges(g)
       \/ ProcessDiesInEnqueue(g)
  \/ ProcessDies \/ PowerFails

CSpec == CInit /\ [][CNext]_allVars

\* Besides the Publisher's fairness: asyncio runs a group that is ready, a PLC
\* answers unless it is counted as a fault, and a heartbeat does not stay due
\* for ever while cycles go on (PollGroup, SilenceBounded).
CFairness ==
  /\ WF_allVars(PublisherStep /\ UNCHANGED groupVars)
  /\ WF_allVars(Reconnect /\ UNCHANGED groupVars)
  /\ WF_allVars(ConnectionAccepted /\ UNCHANGED groupVars)
  /\ WF_allVars(DropReported /\ UNCHANGED groupVars)
  /\ WF_allVars((\E m \in resend : ResendNext(m)) /\ UNCHANGED groupVars)
  /\ WF_allVars(ArriveNext /\ UNCHANGED groupVars)
  /\ WF_allVars((\E m \in acks : Acknowledge(m)) /\ UNCHANGED groupVars)
  /\ WF_allVars(Respawn /\ UNCHANGED groupVars)
  /\ \A g \in Groups :
       /\ SF_allVars(GroupStep(g))
       /\ WF_allVars(PlcAnswers(g))
       /\ SF_allVars(ReportHeartbeat(g))

CFairSpec == CSpec /\ CFairness

-----------------------------------------------------------------------------
(* What must hold.                                                         *)

\* The newest row of a group that the broker has.
Arrived(g) == {i \in Delivered : payload[i].group = g}
Newest(g) ==
  IF Arrived(g) = {} THEN NoValue
  ELSE payload[CHOOSE i \in Arrived(g) : \A j \in Arrived(g) : j <= i].value

\* When the PLCs and the faults come to rest, the newest row of every group in
\* the cloud carries the value that is in the PLC: report by exception, state
\* that a crash forgets, marks set before the enqueue, the ring, redelivery and
\* reconnection together never leave the cloud with an old value for good.
CloudFollowsPlc == \A g \in Groups : <>[](Newest(g) = plc[g])

\* The whole process behaves as the Publisher does, whatever its groups do: a
\* group touches the outbox only while the publisher is at an await, and only
\* by enqueue.
GroupsRespectPublisher == Spec

=============================================================================
