-------------------------------- MODULE McUdp --------------------------------
(***************************************************************************)
(* MCProtocolDriver over UDP (edge-gateway/drivers/mc_driver.py) as the    *)
(* polling loop of PollingGroupRunner drives it: poll reads the tags one   *)
(* after the other, each by one exchange of datagrams; a cycle that fails  *)
(* is followed by disconnect.                                              *)
(*                                                                         *)
(* A 3E frame carries no serial number: a reply says nothing of the        *)
(* request it answers.  Here every datagram remembers it, as history: the  *)
(* tag it was sent for, which copy of that request or reply it is, and its *)
(* age, the number of exchanges begun since.  The network may delay,       *)
(* reorder, lose and double datagrams; one sent to a socket that is closed *)
(* since is never received.                                                *)
(***************************************************************************)
EXTENDS Integers, Sequences

CONSTANTS TagCount,     \* tags of the group
          Wide,         \* those of a 32-bit data type: two registers, not one
          Retries,      \* iface retries, 1 where the config has none
          MaxAge,       \* model bounds: older datagrams are lost, and the
          MaxCopies     \*   network doubles this many on one socket

ASSUME McUdpConstants ==
  /\ TagCount \in Nat \ {0}
  /\ Wide \subseteq 1 .. TagCount
  /\ Retries \in Nat
  /\ {MaxAge, MaxCopies} \subseteq Nat

Tags == 1 .. TagCount

\* words_needed
Words(i) == IF i \in Wide THEN 2 ELSE 1

\* A "useless" reply has an end code or is not a 3E frame.
Kinds == {"request", "words", "useless"}

\* Copy 0 of a request is the first, then come those sent again, then those
\* the network made.
Packet == [kind : Kinds, tag : Tags, copy : 0 .. Retries + MaxCopies, age : 0 .. MaxAge]

VARIABLES pc,          \* "sleep", "connect", "next", "wait" or "failed"
          tag,         \* the tag poll is at
          attempt,     \* attempt of _exchange_udp
          connected,   \* BaseDriver.connected
          udp,         \* self.udp is not None
          open,        \* sockets of this driver that are open
          queue,       \* _UdpEndpoint.replies
          net,         \* datagrams on their way
          results,     \* results: per tag the reply its value is from
          resent,      \* history: on this socket a request was sent again,
          doubled,     \* history: and the network doubled this many datagrams
          haunted      \* history: tags of this poll for which the request went
                       \* out while older datagrams were on their way

vars == <<pc, tag, attempt, connected, udp, open, queue, net, results, resent, doubled, haunted>>

\* error_received puts the exception where a reply would be.
Refused == [kind |-> "refused"]
Nothing == [kind |-> "none"]

Init ==
  /\ pc = "sleep"
  /\ tag = 1
  /\ attempt = 0
  /\ connected = FALSE
  /\ udp = FALSE
  /\ open = 0
  /\ queue = <<>>
  /\ net = {}
  /\ results = [i \in Tags |-> Nothing]
  /\ resent = FALSE
  /\ doubled = 0
  /\ haunted = {}

-----------------------------------------------------------------------------
(* The driver and the loop around it.                                      *)

\* The group's next cycle calls poll.
StartPoll ==
  /\ pc = "sleep"
  /\ pc' = IF connected THEN "next" ELSE "connect"
  /\ tag' = 1
  /\ results' = [i \in Tags |-> Nothing]
  /\ haunted' = {}
  /\ UNCHANGED <<attempt, connected, udp, open, queue, net, resent, doubled>>

\* connect: a new endpoint with an empty queue, on a new port, which what is
\* still on its way to the old one does not reach.
Connect ==
  /\ pc = "connect"
  /\ pc' = "next"
  /\ connected' = TRUE
  /\ udp' = TRUE
  /\ open' = open + 1
  /\ queue' = <<>>
  /\ net' = {}
  /\ resent' = FALSE
  /\ doubled' = 0
  /\ UNCHANGED <<tag, attempt, results, haunted>>

\* create_datagram_endpoint raises: no such adapter, no route.
ConnectFails ==
  /\ pc = "connect"
  /\ pc' = "failed"
  /\ UNCHANGED <<tag, attempt, connected, udp, open, queue, net, results, resent, doubled, haunted>>

Request(k) == [kind |-> "request", tag |-> tag, copy |-> k, age |-> 0]

\* Another exchange has begun.
Aged == {[p EXCEPT !.age = @ + 1] : p \in {q \in net : q.age < MaxAge}}

\* Mutant: what has arrived so far is not thrown away.
Mutant_NoDrain ==
  /\ pc = "next"
  /\ tag \in Tags
  /\ net' = Aged \cup {Request(0)}
  /\ haunted' = IF Aged = {} THEN haunted ELSE haunted \cup {tag}
  /\ attempt' = 0
  /\ pc' = "wait"
  /\ UNCHANGED <<tag, connected, udp, open, queue, results, resent, doubled>>

\* _exchange_udp begins: what has arrived so far is thrown away.
BeginExchange ==
  /\ pc = "next"
  /\ tag \in Tags
  /\ queue' = <<>>
  /\ net' = Aged \cup {Request(0)}
  /\ haunted' = IF Aged = {} THEN haunted ELSE haunted \cup {tag}
  /\ attempt' = 0
  /\ pc' = "wait"
  /\ UNCHANGED <<tag, connected, udp, open, results, resent, doubled>>

\* Mutant: the attempt is not counted.
Mutant_SendForever ==
  /\ pc = "wait"
  /\ queue = <<>>
  /\ attempt < Retries
  /\ net' = net \cup {Request(attempt + 1)}
  /\ resent' = TRUE
  /\ UNCHANGED <<pc, tag, attempt, connected, udp, open, queue, results, doubled, haunted>>

\* No reply within timeout_s: the request is sent once more.
SendAgain ==
  /\ pc = "wait"
  /\ queue = <<>>
  /\ attempt < Retries
  /\ attempt' = attempt + 1
  /\ net' = net \cup {Request(attempt + 1)}
  /\ resent' = TRUE
  /\ UNCHANGED <<pc, tag, connected, udp, open, queue, results, doubled, haunted>>

\* poll gives up on the whole cycle: connected is cleared, the error raised,
\* and what was read so far is gone with the call.
Raise ==
  /\ connected' = FALSE
  /\ results' = [i \in Tags |-> Nothing]
  /\ pc' = "failed"

TimedOut ==
  /\ pc = "wait"
  /\ queue = <<>>
  /\ attempt = Retries
  /\ Raise
  /\ UNCHANGED <<tag, attempt, udp, open, queue, net, resent, doubled, haunted>>

SocketError ==
  /\ pc = "wait"
  /\ queue # <<>>
  /\ Head(queue) = Refused
  /\ Raise
  /\ queue' = Tail(queue)
  /\ UNCHANGED <<tag, attempt, udp, open, net, resent, doubled, haunted>>

\* The reply is not a 3E frame, has an end code or too few words for the data
\* type: this tag is skipped.
Usable(r) == r.kind = "words" /\ Words(r.tag) >= Words(tag)

TakeReply ==
  /\ pc = "wait"
  /\ queue # <<>>
  /\ Head(queue) # Refused
  /\ queue' = Tail(queue)
  /\ results' = IF Usable(Head(queue)) THEN [results EXCEPT ![tag] = Head(queue)] ELSE results
  /\ tag' = tag + 1
  /\ pc' = "next"
  /\ UNCHANGED <<attempt, connected, udp, open, net, resent, doubled, haunted>>

PollReturns ==
  /\ pc = "next"
  /\ tag \notin Tags
  /\ pc' = "sleep"
  /\ UNCHANGED <<tag, attempt, connected, udp, open, queue, net, results, resent, doubled, haunted>>

\* Mutant: self.udp is forgotten but its transport not closed.
Mutant_NotClosed ==
  /\ pc = "failed"
  /\ pc' = "sleep"
  /\ connected' = FALSE
  /\ udp' = FALSE
  /\ queue' = <<>>
  /\ UNCHANGED <<tag, attempt, open, net, results, resent, doubled, haunted>>

\* The cycle failed: the loop disconnects and sleeps.
Disconnect ==
  /\ pc = "failed"
  /\ pc' = "sleep"
  /\ connected' = FALSE
  /\ udp' = FALSE
  /\ open' = IF udp THEN open - 1 ELSE open
  /\ queue' = <<>>
  /\ UNCHANGED <<tag, attempt, net, results, resent, doubled, haunted>>

-----------------------------------------------------------------------------
(* The network and the PLC.                                                *)

networkVars == <<pc, tag, attempt, connected, udp, open, results, haunted>>

\* The PLC answers a request, with the words or an end code, or something
\* that is no MC protocol answers in its place.
Answer(p, kind) ==
  /\ p.kind = "request"
  /\ net' = (net \ {p}) \cup {[p EXCEPT !.kind = kind]}
  /\ UNCHANGED <<networkVars, queue, resent, doubled>>

\* datagram_received.
Arrive(p) ==
  /\ udp
  /\ p.kind # "request"
  /\ net' = net \ {p}
  /\ queue' = Append(queue, p)
  /\ UNCHANGED <<networkVars, resent, doubled>>

\* Nothing listens on the port: error_received, from the ICMP message.
Unreachable(p) ==
  /\ udp
  /\ p.kind = "request"
  /\ net' = net \ {p}
  /\ queue' = Append(queue, Refused)
  /\ UNCHANGED <<networkVars, resent, doubled>>

Lose(p) ==
  /\ net' = net \ {p}
  /\ UNCHANGED <<networkVars, queue, resent, doubled>>

\* UDP may deliver a datagram twice: "a late or duplicate datagram" (44).
Double(p) ==
  /\ doubled < MaxCopies
  /\ doubled' = doubled + 1
  /\ net' = net \cup {[p EXCEPT !.copy = Retries + doubled + 1]}
  /\ UNCHANGED <<networkVars, queue, resent>>

-----------------------------------------------------------------------------
DriverStep ==
  \/ StartPoll \/ Connect \/ ConnectFails
  \/ BeginExchange \/ SendAgain \/ TimedOut \/ SocketError \/ TakeReply
  \/ PollReturns \/ Disconnect

NetworkStep ==
  \E p \in net :
    \/ \E kind \in {"words", "useless"} : Answer(p, kind)
    \/ Arrive(p) \/ Unreachable(p) \/ Lose(p) \/ Double(p)

Next == DriverStep \/ NetworkStep

Spec == Init /\ [][Next]_vars

\* The event loop runs the driver's task; the network owes it nothing.
FairSpec == Spec /\ WF_vars(DriverStep)

-----------------------------------------------------------------------------
(* What must hold.                                                         *)

\* A second copy of something was sent over this socket.
Copied == resent \/ doubled > 0

FlagsOK == {connected, udp, resent} \subseteq BOOLEAN

\* Types; attempts stay within the retries, and a poll that fails keeps nothing.
TypeOK ==
  /\ pc \in {"sleep", "connect", "next", "wait", "failed"}
  /\ tag \in 1 .. TagCount + 1
  /\ pc = "wait" => tag \in Tags
  /\ attempt \in 0 .. Retries
  /\ FlagsOK
  /\ doubled \in 0 .. MaxCopies
  /\ open \in Nat
  /\ queue \in Seq(Packet \cup {Refused})
  /\ net \subseteq Packet
  /\ results \in [Tags -> Packet \cup {Nothing}]
  /\ pc \in {"connect", "failed"} => \A i \in Tags : results[i] = Nothing

\* A tag's value is from a reply to its own request: "an old answer is never
\* taken for this one" (mc_driver.py 132-133).
OwnAnswer ==
  \A i \in Tags : results[i] # Nothing => results[i].tag = i /\ results[i].age = 0

\* Only what was still on its way when the request went out can be taken for
\* its answer: whatever has arrived by then, late or double, is thrown away; and
\* nothing is on its way then but copies, of requests sent again or of datagrams
\* doubled on this socket.
OwnAnswerUnlessHaunted ==
  \A i \in Tags : results[i] # Nothing =>
    \/ results[i].tag = i /\ results[i].age = 0
    \/ i \in haunted /\ Copied

\* The driver never has more than the socket it uses open, and none when the
\* cycle that failed has been cleaned up: connect does not close, disconnect
\* does, and the two alternate whatever fails.
OneSocket ==
  /\ open = IF udp THEN 1 ELSE 0
  /\ connected => udp
  /\ pc \in {"next", "wait"} => connected
  /\ pc = "connect" \/ (pc = "sleep" /\ ~connected) => ~udp

\* Why no answer is mixed up: in an exchange that began with nothing else on its
\* way, all that is or was on its way is of this exchange; and without a second
\* copy of anything that is one datagram, gone when the next exchange begins.
Fresh(p) == p.tag = tag /\ p.age = 0

OnlyThisExchange ==
  pc = "wait" /\ tag \notin haunted =>
    /\ \A p \in net : Fresh(p)
    /\ \A k \in DOMAIN queue : queue[k] = Refused \/ Fresh(queue[k])

OneDatagram ==
  ~Copied =>
    /\ haunted = {}
    /\ pc = "next" \/ (pc = "sleep" /\ connected) => net = {} /\ queue = <<>>
    /\ pc = "wait" =>
         \/ queue = <<>> /\ \A p, q \in net : p = q
         \/ net = {} /\ Len(queue) = 1

\* A tag is haunted only if it was asked for, and a poll that has not begun to
\* read has none.
HauntedWereRead ==
  /\ haunted \subseteq 1 .. tag /\ haunted \subseteq Tags
  /\ pc = "connect" => haunted = {}
  /\ pc = "next" => tag \notin haunted

\* The inductive invariant: the driver's own state, whatever the network does
\* to it, and what is under way.
IInv ==
  /\ TypeOK /\ OneSocket /\ HauntedWereRead /\ OnlyThisExchange /\ OneDatagram
  /\ OwnAnswerUnlessHaunted

\* Every poll comes to an end, whatever the network does.
PollEnds == pc # "sleep" ~> pc = "sleep"

=============================================================================
