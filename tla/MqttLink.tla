------------------------------ MODULE MqttLink ------------------------------
(***************************************************************************)
(* The paho-mqtt client (1.6, as edge-gateway/SETUP.md pins it), the       *)
(* session it keeps with the broker and the broker itself, modelled from   *)
(* how MQTTPublisher uses them, together with the two callbacks            *)
(* MQTTPublisher installs, which run in paho's network thread.             *)
(*                                                                         *)
(* A QoS 1 message stays in the client until its PUBACK arrives; what is   *)
(* left there when a session ends is sent again, in the order of the       *)
(* message ids, once the next session is accepted.  One TCP connection     *)
(* carries packets in order and loses what it still holds when it drops.   *)
(***************************************************************************)
EXTENDS Naturals, Sequences

VARIABLES session,    \* "none", "connecting" (no CONNACK yet) or "up"
          connected,  \* MQTTPublisher._connected, the asyncio.Event
          out,        \* messages the client holds: published, not acknowledged
          resend,     \* of those, the ones still to be sent on this session
          wire,       \* packets on their way to the broker
          acks,       \* messages whose PUBACK is on its way back
          nextMid,    \* the message id the client hands out next
          broker      \* history: row ids in the order the broker received them

linkVars == <<session, connected, out, resend, wire, acks, nextMid, broker>>

Message == [mid : Nat, row : Nat]

\* Row ids the broker has received at least once.
Delivered == {broker[k] : k \in DOMAIN broker}

LinkTypeOK ==
  /\ session \in {"none", "connecting", "up"}
  /\ out \subseteq Message
  /\ resend \subseteq Message
  /\ wire \in Seq(Message)
  /\ acks \subseteq Message
  /\ nextMid \in Nat \ {0}
  /\ broker \in Seq(Nat)

LinkInit ==
  /\ session = "none"
  /\ connected = FALSE
  /\ out = {}
  /\ resend = {}
  /\ wire = <<>>
  /\ acks = {}
  /\ nextMid = 1
  /\ broker = <<>>

-----------------------------------------------------------------------------
\* What a session carried is gone with it.
LoseSession ==
  /\ session' = "none"
  /\ resend' = {}
  /\ wire' = <<>>
  /\ acks' = {}

\* The TCP connection is made and CONNECT sent.
OpenSession ==
  /\ session = "none"
  /\ session' = "connecting"
  /\ UNCHANGED <<connected, out, resend, wire, acks, nextMid, broker>>

\* CONNACK with rc 0: _on_connect sets the event; only then does the client
\* start sending what earlier sessions left unacknowledged.
OnConnect ==
  /\ session = "connecting"
  /\ session' = "up"
  /\ connected' = TRUE
  /\ resend' = out
  /\ UNCHANGED <<out, wire, acks, nextMid, broker>>

\* CONNACK with another rc: _on_connect only logs, the broker hangs up.
OnConnectRefused ==
  /\ session = "connecting"
  /\ LoseSession
  /\ UNCHANGED <<connected, out, nextMid, broker>>

\* The network thread sends a message of an earlier session again, the one
\* with the smallest message id first.
Resend(m) ==
  /\ session = "up"
  /\ m \in resend
  /\ \A n \in resend : m.mid <= n.mid
  /\ wire' = Append(wire, m)
  /\ resend' = resend \ {m}
  /\ UNCHANGED <<session, connected, out, acks, nextMid, broker>>

\* The broker receives the next packet and acknowledges it.
BrokerReceive ==
  /\ session = "up"
  /\ wire # <<>>
  /\ broker' = Append(broker, Head(wire).row)
  /\ acks' = acks \cup {Head(wire)}
  /\ wire' = Tail(wire)
  /\ UNCHANGED <<session, connected, out, resend, nextMid>>

\* A PUBACK arrives: the client forgets the message.
PubAck(m) ==
  /\ session = "up"
  /\ m \in acks
  /\ acks' = acks \ {m}
  /\ out' = out \ {m}
  /\ UNCHANGED <<session, connected, resend, wire, nextMid, broker>>

\* The connection drops; the client notices, by an error or its keepalive.
Drop ==
  /\ session # "none"
  /\ LoseSession
  /\ UNCHANGED <<connected, out, nextMid, broker>>

\* _on_disconnect, which the network thread calls some time after the drop.
OnDisconnect ==
  /\ session = "none"
  /\ connected
  /\ connected' = FALSE
  /\ UNCHANGED <<session, out, resend, wire, acks, nextMid, broker>>

\* client.publish(qos=1): held by the client, sent if there is a socket.
ClientPublish(m) ==
  /\ out' = out \cup {m}
  /\ nextMid' = nextMid + 1
  /\ wire' = IF session = "up" THEN Append(wire, m) ELSE wire
  /\ UNCHANGED <<session, connected, resend, acks, broker>>

\* loop_stop, disconnect and _connected.clear of the finally clause.
CloseClient ==
  /\ LoseSession
  /\ connected' = FALSE
  /\ UNCHANGED <<out, nextMid, broker>>

\* The process dies: the client's memory goes with it.
LoseClient ==
  /\ LoseSession
  /\ connected' = FALSE
  /\ out' = {}
  /\ UNCHANGED <<nextMid, broker>>

=============================================================================
