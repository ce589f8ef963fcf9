---------------------------- MODULE DriverSession ----------------------------
(***************************************************************************)
(* The session between one polling group and its PLC: connect, poll and    *)
(* disconnect of edge-gateway/drivers/*_driver.py as PollingGroupRunner    *)
(* calls them.  The five drivers share one shape (base_driver.py) and      *)
(* differ in which exceptions of a read poll passes on to the engine, which*)
(* then disconnects, and which it takes for a single bad tag; in what a    *)
(* connect that fails leaves behind; and in what of a PLC that is off they *)
(* notice.  A value is left out: a read succeeds or it raises.             *)
(***************************************************************************)
EXTENDS Naturals

CONSTANTS Protocols,    \* keys of DRIVER_FACTORY
          Libraries,    \* sets of kinds, see library
          SessionTags,  \* the group's tags
          MaxFaults     \* model bound: losses, and connects, disconnects and
                        \* enqueues that raise

\* Exceptions, as the except clauses tell them apart: a time-out, a
\* ConnectionError, another OSError, anything else (the protocol library's own,
\* ValueError, IncompleteReadError, a reply that says it is an error).
Kinds == {"timeout", "connection", "os", "own"}

ASSUME SessionConstants ==
  /\ Protocols \subseteq {"modbus", "s7", "opcua", "mc", "bacnet"}
  /\ Libraries \subseteq (SUBSET Kinds) \ {{}}
  /\ MaxFaults \in Nat

VARIABLES protocol,   \* the group's driver
          library,    \* what a read over a lost connection raises, one or another
          rejected,   \* tags the PLC, or the decoding, refuses
          silent,     \* tags that are never answered
          phase,      \* idle, connecting, reading, done, failed
          connected,  \* self.connected
          held,       \* self.client, writer, udp or app is an open transport
          leaked,     \* open transports the driver has replaced by another
          alive,      \* the one it holds reaches the PLC
          plcUp,
          todo,       \* tags of this poll not yet read
          results,    \* keys of the dict poll will return
          faults,     \* history: faults so far
          raised      \* history: those that were a disconnect that raised

group == <<protocol, library, rejected, silent>>
transports == <<held, leaked>>

sessionVars ==
  <<group, phase, connected, transports, alive, plcUp, todo, results, faults, raised>>

Fault == faults < MaxFaults /\ faults' = faults + 1

SessionInit ==
  /\ protocol \in Protocols
  /\ library \in Libraries
  /\ rejected \in SUBSET SessionTags
  /\ silent \in SUBSET (SessionTags \ rejected)
  /\ phase = "idle"
  /\ connected = FALSE
  /\ held = FALSE
  /\ leaked = 0
  /\ alive = FALSE
  /\ plcUp \in BOOLEAN
  /\ todo = {}
  /\ results = {}
  /\ faults = 0
  /\ raised = 0

-----------------------------------------------------------------------------
(* The driver.                                                             *)

\* Mutant: "except Exception" takes every failure for a bad tag.
Mutant_CatchesNothing == {}

\* What the except clause before "except Exception" in poll names; in the
\* Pythons the gateway runs (3.11 on) asyncio.TimeoutError is an OSError.
TransportLevel ==
  CASE protocol = "modbus" -> {"timeout", "connection"}
    [] protocol \in {"s7", "mc"} -> {"timeout", "connection", "os"}
    [] protocol \in {"opcua", "bacnet"} -> {"timeout"}

StartReading ==
  /\ phase' = "reading"
  /\ todo' = SessionTags
  /\ results' = {}

PollConnected ==
  /\ phase = "idle"
  /\ connected
  /\ StartReading
  /\ UNCHANGED <<group, connected, transports, alive, plcUp, faults, raised>>

PollUnconnected ==
  /\ phase = "idle"
  /\ ~connected
  /\ phase' = "connecting"
  /\ UNCHANGED <<group, connected, transports, alive, plcUp, todo, results, faults, raised>>

\* Nothing closes a transport that is still held when another takes its place.
Replace ==
  leaked' = IF held THEN leaked + 1 ELSE leaked

\* A socket for datagrams (BACnet's, MC's over UDP) opens whether or not there
\* is a PLC.
NeedsNoPlc == protocol \in {"mc", "bacnet"}

ConnectOk ==
  /\ phase = "connecting"
  /\ plcUp \/ NeedsNoPlc
  /\ connected' = TRUE
  /\ held' = TRUE
  /\ Replace
  /\ alive' = plcUp
  /\ StartReading
  /\ UNCHANGED <<group, plcUp, faults, raised>>

\* Modbus, S7 and OPC UA have a new client by the time it does not connect; MC
\* and BACnet are left with what they had.
NothingOpened ==
  IF protocol \in {"modbus", "s7", "opcua"}
  THEN held' = FALSE /\ Replace
  ELSE UNCHANGED transports

ConnectFails ==
  /\ phase = "connecting"
  /\ ~plcUp
  /\ protocol # "bacnet"
  /\ phase' = "failed"
  /\ alive' = FALSE
  /\ NothingOpened
  /\ UNCHANGED <<group, connected, plcUp, todo, results, faults, raised>>

\* connect raises for a reason of its own: the port is taken, or, with the
\* transport open, the handshake fails, BACnet's device_ip is missing, or OPC
\* UA's get_node raises, which comes after "connected = True".
ConnectRaises ==
  /\ phase = "connecting"
  /\ Fault
  /\ phase' = "failed"
  /\ \/ /\ NothingOpened
        /\ alive' = FALSE
        /\ UNCHANGED connected
     \/ /\ plcUp \/ NeedsNoPlc
        /\ held' = TRUE
        /\ Replace
        /\ alive' = plcUp
        /\ connected' = (protocol = "opcua")
  /\ UNCHANGED <<group, plcUp, todo, results, raised>>

\* What reading a tag raises now, one or another; nothing if it is answered.
\* MC, OPC UA and BACnet wait for an answer so long and no longer, what a client
\* of Modbus or S7 does is its library's affair.
Raised(t) ==
  IF ~alive THEN library
  ELSE IF t \in silent
  THEN IF protocol \in {"modbus", "s7"} THEN library ELSE {"timeout"}
  ELSE IF t \in rejected THEN {"own"}
  ELSE {}

ReadTag(t) ==
  /\ phase = "reading"
  /\ t \in todo
  /\ Raised(t) = {}
  /\ todo' = todo \ {t}
  /\ results' = results \cup {t}
  /\ UNCHANGED <<group, phase, connected, transports, alive, plcUp, faults, raised>>

\* Logged and skipped: the tag is missing from the dict.
SkipTag(t) ==
  /\ phase = "reading"
  /\ t \in todo
  /\ Raised(t) \ TransportLevel # {}
  /\ todo' = todo \ {t}
  /\ UNCHANGED <<group, phase, connected, transports, alive, plcUp, results, faults, raised>>

\* connected = False; raise.
ReadRaises(t) ==
  /\ phase = "reading"
  /\ t \in todo
  /\ Raised(t) \cap TransportLevel # {}
  /\ connected' = FALSE
  /\ phase' = "failed"
  /\ UNCHANGED <<group, transports, alive, plcUp, todo, results, faults, raised>>

PollReturns ==
  /\ phase = "reading"
  /\ todo = {}
  /\ phase' = "done"
  /\ UNCHANGED <<group, connected, transports, alive, plcUp, todo, results, faults, raised>>

-----------------------------------------------------------------------------
(* The engine and the world.                                               *)

\* The cycle is complete; the sleep ends.
NextCycle ==
  /\ phase = "done"
  /\ phase' = "idle"
  /\ UNCHANGED <<group, connected, transports, alive, plcUp, todo, results, faults, raised>>

\* buffer.enqueue raises, in the engine's try as well.
EnqueueRaises ==
  /\ phase = "done"
  /\ Fault
  /\ phase' = "failed"
  /\ UNCHANGED <<group, connected, transports, alive, plcUp, todo, results, raised>>

\* Mutant: the engine does not disconnect after a failed cycle.
Mutant_NoDisconnect ==
  /\ phase = "failed"
  /\ phase' = "idle"
  /\ UNCHANGED <<group, connected, transports, alive, plcUp, todo, results, faults, raised>>

\* driver.disconnect, and the sleep of the back-off.
Disconnect ==
  /\ phase = "failed"
  /\ phase' = "idle"
  /\ connected' = FALSE
  /\ held' = FALSE
  /\ alive' = FALSE
  /\ UNCHANGED <<group, leaked, plcUp, todo, results, faults, raised>>

\* Closing raises, the transport is closed or not.  OPC UA's driver ignores it;
\* out of the others it ends disconnect before "connected" is reset, and the
\* engine ignores it.
DisconnectRaises ==
  /\ phase = "failed"
  /\ Fault
  /\ raised' = raised + 1
  /\ phase' = "idle"
  /\ connected' = (connected /\ protocol # "opcua")
  /\ \/ held' = FALSE /\ alive' = FALSE
     \/ UNCHANGED <<held, alive>>
  /\ UNCHANGED <<group, leaked, plcUp, todo, results>>

\* The connection is lost, with the PLC or alone; it does not come back.
LinkLost ==
  /\ Fault
  /\ alive' = FALSE
  /\ plcUp' \in BOOLEAN
  /\ UNCHANGED <<group, phase, connected, transports, todo, results, raised>>

\* A socket for datagrams reaches the PLC again.
PlcComesUp ==
  /\ ~plcUp
  /\ plcUp' = TRUE
  /\ alive' \in {FALSE, held /\ NeedsNoPlc}
  /\ UNCHANGED <<group, phase, connected, transports, todo, results, faults, raised>>

SomeReadRaises == \E t \in SessionTags : ReadRaises(t)

DriverStep ==
  \/ PollConnected \/ PollUnconnected \/ ConnectOk \/ ConnectFails
  \/ \E t \in SessionTags : ReadTag(t) \/ SkipTag(t)
  \/ SomeReadRaises \/ PollReturns \/ NextCycle \/ Disconnect

SessionNext ==
  \/ DriverStep
  \/ ConnectRaises \/ EnqueueRaises \/ DisconnectRaises \/ LinkLost \/ PlcComesUp

SessionSpec == SessionInit /\ [][SessionNext]_sessionVars

\* asyncio runs the group's task, the PLC comes up again, and a connection
\* that is lost is not reported as something else for ever.
FairSpec ==
  SessionSpec /\ WF_sessionVars(DriverStep) /\ WF_sessionVars(PlcComesUp)
              /\ SF_sessionVars(SomeReadRaises)

-----------------------------------------------------------------------------
(* What must hold.                                                         *)

GoodTags == SessionTags \ (rejected \cup silent)

\* Types; a poll returns nothing for a tag that cannot be read, and a
\* connection that is alive is one the driver holds to a PLC that is up.
SessionTypeOK ==
  /\ protocol \in Protocols
  /\ library \in Libraries
  /\ rejected \subseteq SessionTags /\ silent \subseteq SessionTags
  /\ phase \in {"idle", "connecting", "reading", "done", "failed"}
  /\ connected \in BOOLEAN /\ held \in BOOLEAN
  /\ alive \in BOOLEAN /\ plcUp \in BOOLEAN
  /\ alive => plcUp /\ held
  /\ todo \subseteq SessionTags
  /\ results \subseteq GoodTags
  /\ faults \in 0 .. MaxFaults
  /\ raised \in 0 .. faults
  /\ leaked \in 0 .. MaxFaults

\* A driver that reconnects has let go of the transport it had: over any
\* sequence of losses and failing connects no more transports are left open
\* than disconnects raised, beside the one in use.
TransportsBounded == leaked <= raised

\* A poll is under way over a connection, and a driver that has none and is
\* about to connect holds only what a disconnect that raised left open.
LetGo ==
  /\ phase \in {"reading", "done"} => connected
  /\ phase = "connecting" => ~connected
  /\ phase \in {"idle", "connecting"} /\ ~connected /\ held => leaked < raised

\* The inductive invariant: the session, whatever is lost.
SessionInv == SessionTypeOK /\ TransportsBounded /\ LetGo

\* "poll() must never raise for a single bad tag ... It MAY raise for ... timeout
\* on the whole exchange" (base_driver.py 25-27): what ends a poll is a lost
\* connection or a tag that is not answered, never one that is rejected.
BadTagsAreSkipped ==
  [][phase = "reading" /\ phase' = "failed" => ~alive \/ todo \cap silent # {}]_sessionVars

\* When the PLC and the network are back, so is the group: after any losses,
\* cycles keep returning every tag that can be read ("the engine catches that,
\* marks the group unhealthy, and retries on the next cycle", base_driver.py
\* 26-28), if a lost connection shows as a time-out now and then, which is
\* what all five drivers take for one, and no tag is silent, which ends every
\* poll.
GroupRecovers ==
  silent = {} /\ "timeout" \in library => []<>(phase = "done" /\ results = GoodTags)

=============================================================================
