----------------------------- MODULE McUdpProofs -----------------------------
(***************************************************************************)
(* Theorems about McUdp, for every list of tags and number of retries: the *)
(* driver's one socket, and answers that belong to their requests.         *)
(***************************************************************************)
EXTENDS McUdp, SequenceTheorems, TLAPS

-----------------------------------------------------------------------------
(* Datagrams.                                                              *)

\* What the driver sends is a datagram (mc_driver.py 139).
LEMMA RequestsArePackets ==
  ASSUME TypeOK, tag \in Tags, NEW k \in 0 .. Retries
  PROVE  Request(k) \in Packet /\ Fresh(Request(k))
  BY McUdpConstants DEF Request, Packet, Kinds, Fresh

\* A datagram stays one as others are sent (history only).
LEMMA AgedArePackets ==
  ASSUME TypeOK
  PROVE  Aged \subseteq Packet
<1> SUFFICES ASSUME NEW q \in net, q.age < MaxAge
             PROVE  [q EXCEPT !.age = @ + 1] \in Packet
  BY DEF Aged
<1>1. q \in Packet
  BY DEF TypeOK, FlagsOK
<1>2. q.age + 1 \in 0 .. MaxAge
  BY <1>1, McUdpConstants DEF Packet
<1> QED
  BY <1>1, <1>2 DEF Packet

\* The queue without its head, and with one more entry, holds what it may.
LEMMA HeadAndTail ==
  ASSUME NEW S, NEW s \in Seq(S), s # <<>>
  PROVE  Head(s) \in S /\ Tail(s) \in Seq(S) /\ Head(s) = s[1]
  OBVIOUS

LEMMA AppendedIs ==
  ASSUME NEW S, NEW s \in Seq(S), NEW e \in S
  PROVE  /\ Append(s, e) \in Seq(S)
         /\ s = <<>> => Len(Append(s, e)) = 1 /\ Append(s, e)[1] = e
  OBVIOUS

\* A queue of one is empty when that one is taken.
LEMMA TailOfOne ==
  ASSUME NEW S, NEW s \in Seq(S), Len(s) = 1
  PROVE  Tail(s) = <<>> /\ s # <<>>
<1>1. s # <<>>
  OBVIOUS
<1>2. Tail(s) \in Seq(S) /\ Len(Tail(s)) = 0
  BY <1>1
<1> QED
  BY <1>1, <1>2, EmptySeq

\* The queue a socket begins with.
LEMMA EmptyQueue ==
  ASSUME NEW S
  PROVE  <<>> \in Seq(S)
  OBVIOUS

-----------------------------------------------------------------------------
(* The driver's steps, one lemma each where there is something to say.     *)

\* Nothing is sent, received or taken: the exchange is where it was.
LEMMA Connecting ==
  ASSUME IInv, StartPoll \/ Connect \/ ConnectFails
  PROVE  IInv'
<1> USE McUdpConstants DEF IInv
<1>1. CASE StartPoll
  <2>1. TypeOK'
    BY <1>1 DEF StartPoll, TypeOK, FlagsOK, Tags
  <2>2. OneSocket' /\ HauntedWereRead'
    BY <1>1 DEF StartPoll, TypeOK, FlagsOK, OneSocket, HauntedWereRead, Tags
  <2>3. OnlyThisExchange' /\ OwnAnswerUnlessHaunted'
    BY <1>1 DEF StartPoll, OnlyThisExchange, OwnAnswerUnlessHaunted
  <2>4. OneDatagram'
    BY <1>1 DEF StartPoll, TypeOK, FlagsOK, OneDatagram, Copied
  <2> QED
    BY <2>1, <2>2, <2>3, <2>4
<1>2. CASE Connect
  <2>1. TypeOK'
    <3>1. queue' \in Seq(Packet \cup {Refused}) /\ net' \subseteq Packet
      BY <1>2, EmptyQueue DEF Connect
    <3>2. /\ pc' = "next" /\ connected' = TRUE /\ udp' = TRUE /\ open' = open + 1
          /\ resent' = FALSE /\ doubled' = 0 /\ UNCHANGED <<tag, attempt, results>>
      BY <1>2 DEF Connect
    <3>3. FlagsOK'
      BY <3>2, Zenon DEF FlagsOK, TypeOK
    <3> QED
      BY <3>1, <3>2, <3>3 DEF TypeOK
  <2>2. OneSocket' /\ HauntedWereRead'
    BY <1>2 DEF Connect, TypeOK, FlagsOK, OneSocket, HauntedWereRead
  <2>3. OnlyThisExchange' /\ OneDatagram'
    BY <1>2 DEF Connect, OnlyThisExchange, OneDatagram, HauntedWereRead
  <2>4. OwnAnswerUnlessHaunted'
    BY <1>2 DEF Connect, TypeOK, OwnAnswerUnlessHaunted
  <2> QED
    BY <2>1, <2>2, <2>3, <2>4
<1>3. CASE ConnectFails
  <2>1. TypeOK'
    BY <1>3 DEF ConnectFails, TypeOK, FlagsOK
  <2>2. OneSocket' /\ HauntedWereRead'
    BY <1>3 DEF ConnectFails, TypeOK, FlagsOK, OneSocket, HauntedWereRead
  <2>3. OnlyThisExchange' /\ OneDatagram' /\ OwnAnswerUnlessHaunted'
    BY <1>3 DEF ConnectFails, OnlyThisExchange, OneDatagram, OwnAnswerUnlessHaunted, Copied
  <2> QED
    BY <2>1, <2>2, <2>3
<1> QED
  BY <1>1, <1>2, <1>3

\* Either nothing else is on its way and the request is alone, or the tag is
\* haunted; and without copies nothing is.
LEMMA Beginning ==
  ASSUME IInv, BeginExchange
  PROVE  IInv'
<1> USE McUdpConstants DEF IInv
<1>0. tag \in Tags /\ 0 \in 0 .. Retries
  BY DEF BeginExchange
<1>1. Request(0) \in Packet /\ Fresh(Request(0))
  BY <1>0, RequestsArePackets
<1>2. TypeOK'
  BY <1>0, <1>1, AgedArePackets DEF BeginExchange, TypeOK, FlagsOK
<1>3. OneSocket' /\ HauntedWereRead'
  BY <1>0 DEF BeginExchange, OneSocket, HauntedWereRead, TypeOK
<1>4. OnlyThisExchange'
  <2>1. tag \notin haunted'  => net' = {Request(0)}
    BY <1>0 DEF BeginExchange
  <2>2. Fresh(Request(0))'
    BY <1>1 DEF BeginExchange, Fresh, Request
  <2>3. queue' = <<>> /\ tag' = tag
    BY DEF BeginExchange
  <2>4. ASSUME tag' \notin haunted' PROVE \A p \in net' : Fresh(p)'
    BY <2>1, <2>2, <2>3, <2>4 DEF Fresh, Request
  <2> QED
    BY <2>3, <2>4 DEF OnlyThisExchange, Fresh
<1>5. OneDatagram'
  <2>1. ~Copied => Aged = {}
    BY DEF BeginExchange, OneDatagram, Aged
  <2> QED
    BY <2>1 DEF BeginExchange, OneDatagram, Copied
<1>6. OwnAnswerUnlessHaunted'
  BY DEF BeginExchange, OwnAnswerUnlessHaunted, Copied
<1> QED
  BY <1>2, <1>3, <1>4, <1>5, <1>6

\* The copy is of this exchange too.
LEMMA Retrying ==
  ASSUME IInv, SendAgain
  PROVE  IInv'
<1> USE McUdpConstants DEF IInv
<1>1. tag \in Tags /\ attempt + 1 \in 0 .. Retries
  BY DEF SendAgain, TypeOK, FlagsOK
<1>2. Request(attempt + 1) \in Packet /\ Fresh(Request(attempt + 1))
  BY <1>1, RequestsArePackets
<1>3. TypeOK'
  BY <1>1, <1>2 DEF SendAgain, TypeOK, FlagsOK
<1>4. OneSocket' /\ HauntedWereRead'
  BY DEF SendAgain, OneSocket, HauntedWereRead
<1>5. OnlyThisExchange'
  BY <1>2 DEF SendAgain, OnlyThisExchange, Fresh
<1>6. OneDatagram' /\ OwnAnswerUnlessHaunted'
  BY DEF SendAgain, OneDatagram, OwnAnswerUnlessHaunted, Copied
<1> QED
  BY <1>3, <1>4, <1>5, <1>6

\* A poll that gives up keeps nothing, so no answer can be another's.
LEMMA GivingUp ==
  ASSUME IInv, TimedOut \/ SocketError
  PROVE  IInv'
<1> USE DEF IInv
<1>1. queue' \in Seq(Packet \cup {Refused})
  BY HeadAndTail DEF TimedOut, SocketError, TypeOK, FlagsOK
<1>2. /\ pc' = "failed" /\ connected' = FALSE
      /\ results' = [i \in Tags |-> Nothing]
      /\ UNCHANGED <<tag, attempt, udp, open, net, resent, doubled, haunted>>
  BY DEF TimedOut, SocketError, Raise
<1>3. TypeOK'
  BY <1>1, <1>2 DEF TypeOK, FlagsOK
<1>4. OneSocket' /\ HauntedWereRead'
  BY <1>2 DEF OneSocket, HauntedWereRead
<1>5. OnlyThisExchange' /\ OneDatagram'
  BY <1>2 DEF OnlyThisExchange, OneDatagram, Copied
<1>6. OwnAnswerUnlessHaunted'
  BY <1>2 DEF OwnAnswerUnlessHaunted
<1> QED
  BY <1>3, <1>4, <1>5, <1>6

\* What is taken is of this exchange, unless the tag is haunted.
LEMMA Taking ==
  ASSUME IInv, TakeReply
  PROVE  IInv'
<1> USE McUdpConstants DEF IInv
<1>1. /\ Head(queue) \in Packet /\ Head(queue) = queue[1]
      /\ Tail(queue) \in Seq(Packet \cup {Refused})
      /\ 1 \in DOMAIN queue
  BY HeadAndTail DEF TakeReply, TypeOK, FlagsOK
<1>2. results' \in [Tags -> Packet \cup {Nothing}]
  BY <1>1 DEF TakeReply, TypeOK, FlagsOK
<1>3. TypeOK'
  BY <1>1, <1>2 DEF TakeReply, TypeOK, FlagsOK, Tags
<1>4. OneSocket' /\ HauntedWereRead' /\ OnlyThisExchange'
  <2>1. tag + 1 \notin haunted
    BY DEF HauntedWereRead, TypeOK
  <2> QED
    BY <2>1 DEF TakeReply, OneSocket, HauntedWereRead, OnlyThisExchange, TypeOK
<1>5. OneDatagram'
  <2>1. ~Copied => net = {} /\ Len(queue) = 1
    BY DEF TakeReply, OneDatagram
  <2>2. ~Copied => Tail(queue) = <<>>
    BY <2>1, TailOfOne DEF TypeOK, FlagsOK
  <2> QED
    BY <2>1, <2>2 DEF TakeReply, OneDatagram, Copied
<1>6. OwnAnswerUnlessHaunted'
  <2>1. tag \in haunted => Copied
    BY DEF OneDatagram
  <2>2. tag \notin haunted => Fresh(Head(queue))
    BY <1>1 DEF TakeReply, OnlyThisExchange
  <2> SUFFICES ASSUME NEW i \in Tags, results'[i] # Nothing
               PROVE  \/ results'[i].tag = i /\ results'[i].age = 0
                      \/ i \in haunted /\ Copied
    BY DEF TakeReply, OwnAnswerUnlessHaunted, Copied
  <2>3. CASE i = tag /\ Usable(Head(queue))
    BY <2>1, <2>2, <2>3 DEF TakeReply, TypeOK, FlagsOK, Fresh
  <2>4. CASE ~(i = tag /\ Usable(Head(queue)))
    <3>1. results'[i] = results[i]
      BY <2>4 DEF TakeReply, TypeOK, FlagsOK
    <3> QED
      BY <3>1 DEF OwnAnswerUnlessHaunted
  <2> QED
    BY <2>3, <2>4
<1> QED
  BY <1>3, <1>4, <1>5, <1>6

\* A poll returns, or what failed is cleaned up.
LEMMA Ending ==
  ASSUME IInv, PollReturns \/ Disconnect
  PROVE  IInv'
<1> USE DEF IInv
<1>1. CASE PollReturns
  <2>1. TypeOK' /\ OneSocket' /\ HauntedWereRead'
    BY <1>1 DEF PollReturns, TypeOK, FlagsOK, OneSocket, HauntedWereRead
  <2>2. OnlyThisExchange' /\ OneDatagram' /\ OwnAnswerUnlessHaunted'
    BY <1>1 DEF PollReturns, OnlyThisExchange, OneDatagram, OwnAnswerUnlessHaunted, Copied
  <2> QED
    BY <2>1, <2>2
<1>2. CASE Disconnect
  <2>1. TypeOK'
    <3>1. queue' \in Seq(Packet \cup {Refused})
      BY <1>2, EmptyQueue DEF Disconnect
    <3>2. /\ pc' = "sleep" /\ connected' = FALSE /\ udp' = FALSE
          /\ open' \in {0, open}
          /\ UNCHANGED <<tag, attempt, net, resent, doubled, results>>
      BY <1>2 DEF Disconnect, TypeOK, FlagsOK, OneSocket
    <3>3. FlagsOK'
      BY <3>2, Zenon DEF FlagsOK, TypeOK
    <3> QED
      BY <3>1, <3>2, <3>3 DEF TypeOK
  <2>2. OneSocket' /\ HauntedWereRead'
    BY <1>2 DEF Disconnect, OneSocket, HauntedWereRead
  <2>3. OnlyThisExchange' /\ OneDatagram' /\ OwnAnswerUnlessHaunted'
    BY <1>2 DEF Disconnect, OnlyThisExchange, OneDatagram, OwnAnswerUnlessHaunted, Copied
  <2> QED
    BY <2>1, <2>2, <2>3
<1> QED
  BY <1>1, <1>2

-----------------------------------------------------------------------------
(* The network: it replaces a datagram, takes it, doubles it, or moves it  *)
(* to the queue.                                                           *)

LEMMA Network ==
  ASSUME IInv, NetworkStep
  PROVE  IInv'
<1> USE DEF IInv
<1> PICK p \in net : \/ \E kind \in {"words", "useless"} : Answer(p, kind)
                     \/ Arrive(p) \/ Unreachable(p) \/ Lose(p) \/ Double(p)
  BY DEF NetworkStep
<1>1. p \in Packet
  BY DEF TypeOK, FlagsOK
<1>2. UNCHANGED networkVars /\ UNCHANGED resent
  BY DEF Answer, Arrive, Unreachable, Lose, Double
<1>3. OneSocket' /\ HauntedWereRead'
  BY <1>2 DEF networkVars, OneSocket, HauntedWereRead
<1>4. ASSUME UNCHANGED doubled PROVE OwnAnswerUnlessHaunted'
  BY <1>2, <1>4 DEF networkVars, OwnAnswerUnlessHaunted, Copied
<1>5. ASSUME NEW kind \in {"words", "useless"}, Answer(p, kind)
      PROVE  TypeOK' /\ OnlyThisExchange' /\ OneDatagram'
  <2> DEFINE a == [p EXCEPT !.kind = kind]
  <2>1. a \in Packet /\ a.tag = p.tag /\ a.age = p.age
    BY <1>1 DEF Packet, Kinds
  <2>2. net' = (net \ {p}) \cup {a} /\ queue' = queue /\ doubled' = doubled
    BY <1>5 DEF Answer
  <2> HIDE DEF a
  <2>3. TypeOK'
    BY <1>2, <2>1, <2>2 DEF networkVars, TypeOK, FlagsOK
  <2>4. OnlyThisExchange'
    BY <1>2, <2>1, <2>2 DEF networkVars, OnlyThisExchange, Fresh
  <2>5. OneDatagram'
    BY <1>2, <2>2 DEF networkVars, OneDatagram, Copied
  <2> QED
    BY <2>3, <2>4, <2>5
<1>6. ASSUME NEW e \in Packet \cup {Refused}, net' = net \ {p}, queue' = Append(queue, e),
             e = p \/ e = Refused, UNCHANGED doubled
      PROVE  TypeOK' /\ OnlyThisExchange' /\ OneDatagram'
  <2>1. /\ queue' \in Seq(Packet \cup {Refused})
        /\ queue = <<>> => Len(queue') = 1 /\ queue'[1] = e
    BY <1>6, AppendedIs DEF TypeOK, FlagsOK
  <2>2. TypeOK'
    BY <1>2, <1>6, <2>1 DEF networkVars, TypeOK, FlagsOK
  <2>3. \A k \in DOMAIN queue' : queue'[k] = e \/ (k \in DOMAIN queue /\ queue'[k] = queue[k])
    BY <1>6 DEF TypeOK
  <2>4. OnlyThisExchange'
    <3> SUFFICES ASSUME pc = "wait", tag \notin haunted
                 PROVE  /\ \A q \in net' : Fresh(q)
                        /\ \A k \in DOMAIN queue' : queue'[k] = Refused \/ Fresh(queue'[k])
      BY <1>2 DEF networkVars, OnlyThisExchange, Fresh
    <3> QED
      BY <1>6, <2>3 DEF OnlyThisExchange
  <2>5. OneDatagram'
    BY <1>2, <1>6, <2>1 DEF networkVars, OneDatagram, Copied
  <2> QED
    BY <2>2, <2>4, <2>5
<1>7. CASE Arrive(p) \/ Unreachable(p)
  BY <1>1, <1>3, <1>4, <1>6, <1>7 DEF Arrive, Unreachable
<1>8. CASE Lose(p)
  <2>1. TypeOK'
    BY <1>2, <1>8 DEF Lose, networkVars, TypeOK, FlagsOK
  <2>2. OnlyThisExchange' /\ OneDatagram' /\ doubled' = doubled
    BY <1>2, <1>8 DEF Lose, networkVars, OnlyThisExchange, OneDatagram, Copied, Fresh
  <2> QED
    BY <1>3, <1>4, <2>1, <2>2
<1>9. CASE Double(p)
  <2> DEFINE a == [p EXCEPT !.copy = Retries + doubled + 1]
  <2>1. doubled \in 0 .. MaxCopies /\ doubled + 1 \in 0 .. MaxCopies
    BY <1>9, McUdpConstants DEF Double, TypeOK
  <2>2. a \in Packet /\ a.tag = p.tag /\ a.age = p.age
    <3>1. Retries + doubled + 1 \in 0 .. Retries + MaxCopies
      BY <2>1, McUdpConstants
    <3> QED
      BY <1>1, <3>1 DEF Packet
  <2>3. net' = net \cup {a} /\ queue' = queue /\ doubled' = doubled + 1
    BY <1>9 DEF Double
  <2> HIDE DEF a
  <2>4. TypeOK'
    BY <1>2, <2>1, <2>2, <2>3 DEF networkVars, TypeOK, FlagsOK
  <2>5. OnlyThisExchange'
    BY <1>2, <2>2, <2>3 DEF networkVars, OnlyThisExchange, Fresh
  <2>6. Copied'
    BY <2>1, <2>3 DEF Copied
  <2>7. OneDatagram' /\ OwnAnswerUnlessHaunted'
    BY <1>2, <2>6 DEF networkVars, OneDatagram, OwnAnswerUnlessHaunted
  <2> QED
    BY <1>3, <2>4, <2>5, <2>7
<1> QED
  <2>1. Answer(p, "words") \/ Answer(p, "useless") => UNCHANGED doubled
    BY DEF Answer
  <2> QED
    BY <1>3, <1>4, <1>5, <1>7, <1>8, <1>9, <2>1

-----------------------------------------------------------------------------
(* The theorems.                                                           *)

\* The inductive invariant: one socket, and in an exchange that began with
\* nothing older on its way only datagrams of that exchange, whatever the network
\* loses, delays or doubles (mc_driver.py 67-160).
THEOREM InductiveInvariant == Spec => []IInv
<1>1. Init => IInv
  <2> SUFFICES ASSUME Init PROVE IInv
    OBVIOUS
  <2> USE McUdpConstants DEF Init
  <2>1. TypeOK
    <3>1. queue \in Seq(Packet \cup {Refused})
      BY EmptyQueue
    <3>2. /\ pc = "sleep" /\ tag = 1 /\ attempt = 0 /\ open = 0 /\ net = {}
          /\ connected = FALSE /\ udp = FALSE /\ resent = FALSE /\ doubled = 0
          /\ results = [i \in Tags |-> Nothing]
      OBVIOUS
    <3> HIDE DEF Init
    <3>3. FlagsOK
      BY <3>2, Zenon DEF FlagsOK, TypeOK
    <3> QED
      BY <3>1, <3>2, <3>3 DEF TypeOK, Tags
  <2>2. OneSocket /\ HauntedWereRead /\ OnlyThisExchange /\ OneDatagram
    BY DEF OneSocket, HauntedWereRead, OnlyThisExchange, OneDatagram
  <2>3. OwnAnswerUnlessHaunted
    BY DEF OwnAnswerUnlessHaunted
  <2> QED
    BY <2>1, <2>2, <2>3 DEF IInv
<1>2. IInv /\ [Next]_vars => IInv'
  <2> SUFFICES ASSUME IInv, [Next]_vars PROVE IInv'
    OBVIOUS
  <2>1. CASE DriverStep
    BY <2>1, Connecting, Beginning, Retrying, GivingUp, Taking, Ending DEF DriverStep
  <2>2. CASE NetworkStep
    BY <2>2, Network
  <2>3. CASE UNCHANGED vars
    BY <2>3 DEF vars, IInv, TypeOK, FlagsOK, OneSocket, HauntedWereRead, OnlyThisExchange,
                OneDatagram, Fresh, Copied, OwnAnswerUnlessHaunted
  <2> QED
    BY <2>1, <2>2, <2>3 DEF Next
<1> QED
  BY <1>1, <1>2, PTL DEF Spec

\* A value is from the answer to the tag's own request of this poll, unless the
\* request went out while older datagrams were on their way, and such there are
\* only on a socket over which something went twice: a request sent again, or a
\* datagram the network doubled (mc_driver.py 132-142).
THEOREM AnswersAreOwn == Spec => []OwnAnswerUnlessHaunted
<1>1. IInv => OwnAnswerUnlessHaunted
  BY DEF IInv
<1> QED
  BY <1>1, InductiveInvariant, PTL

-----------------------------------------------------------------------------
(* A poll ends.                                                            *)

\* How many steps of the driver a poll takes at most from here on: for every tag
\* a request, the retries and what ends the exchange.
Left == (TagCount + 1 - tag) * (Retries + 3)

Work ==
  CASE pc = "sleep"   -> 0
    [] pc = "failed"  -> 1
    [] pc = "next"    -> Left + 1
    [] pc = "connect" -> Left + 2
    [] pc = "wait"    -> Left - attempt

LEMMA LeftIs ==
  ASSUME TypeOK
  PROVE  /\ Left \in Nat
         /\ tag \in Tags => Left >= Retries + 3
         /\ tag \in Tags /\ tag' = tag + 1 => Left' = Left - (Retries + 3)
         /\ tag' = tag => Left' = Left
<1> DEFINE P == Retries + 3
<1>1. P \in Nat /\ TagCount \in Nat /\ tag \in 1 .. TagCount + 1
  BY McUdpConstants DEF TypeOK
<1> DEFINE n == TagCount + 1 - tag
<1>2. n \in Nat /\ Left = n * P
  BY <1>1 DEF Left
<1>3. n * P \in Nat
  <2> HIDE DEF n, P
  <2> QED BY <1>1, <1>2
<1>4. ASSUME n # 0 PROVE n * P = (n - 1) * P + P /\ (n - 1) * P \in Nat
  <2>1. n - 1 \in Nat
    BY <1>2, <1>4
  <2> DEFINE m == n - 1
  <2>2. n = m + 1
    BY <1>2
  <2> HIDE DEF m, n, P
  <2>3. m \in Nat
    BY <2>1 DEF m
  <2>4. (m + 1) * P = m * P + P /\ m * P \in Nat
    BY <1>1, <2>3
  <2> QED BY <2>2, <2>4 DEF m
<1>5. ASSUME tag \in Tags, tag' = tag + 1 PROVE Left' = (n - 1) * P
  <2>1. TagCount + 1 - tag' = n - 1
    BY <1>1, <1>5
  <2> QED BY <2>1 DEF Left
<1>6. tag \in Tags => n # 0
  BY <1>1 DEF Tags
<1>7. tag' = tag => Left' = Left
  BY DEF Left
<1> HIDE DEF n
<1> QED BY <1>1, <1>2, <1>3, <1>4, <1>5, <1>6, <1>7

\* Every step of the driver in a poll leaves less to do, no step of the network
\* leaves more, and a poll begins with at most TagCount * (Retries + 3) + 2 steps
\* to go: whatever arrives, is late, doubled, lost or refused.
THEOREM PollShrinks ==
  Spec => [][/\ Work \in Nat
             /\ DriverStep /\ pc # "sleep" => Work' < Work
             /\ NetworkStep => Work' = Work
             /\ StartPoll => Work' <= TagCount * (Retries + 3) + 2]_vars
<1> SUFFICES ASSUME IInv, [Next]_vars
             PROVE  /\ Work \in Nat
                    /\ DriverStep /\ pc # "sleep" => Work' < Work
                    /\ NetworkStep => Work' = Work
                    /\ StartPoll => Work' <= TagCount * (Retries + 3) + 2
  BY InductiveInvariant, PTL DEF Spec
<1>1. TypeOK
  BY DEF IInv
<1>2. Retries \in Nat /\ attempt \in 0 .. Retries
  BY <1>1, McUdpConstants DEF TypeOK
<1>3. Left \in Nat /\ (tag \in Tags => Left >= Retries + 3)
  BY <1>1, LeftIs
<1>4. pc \in {"sleep", "connect", "next", "wait", "failed"} /\ (pc = "wait" => tag \in Tags)
  BY <1>1 DEF TypeOK
<1>5. Work \in Nat
  BY <1>2, <1>3, <1>4 DEF Work
<1>6. ASSUME StartPoll PROVE Work' <= TagCount * (Retries + 3) + 2
  <2>1. Left' = TagCount * (Retries + 3)
    <3>1. TagCount + 1 - tag' = TagCount
      BY <1>6, McUdpConstants DEF StartPoll
    <3> QED BY <3>1 DEF Left
  <2>2. TagCount * (Retries + 3) \in Nat
    BY McUdpConstants
  <2>3. Work' = Left' + 1 \/ Work' = Left' + 2
    BY <1>6 DEF StartPoll, Work
  <2> QED BY <2>1, <2>2, <2>3
<1>7. ASSUME DriverStep, pc # "sleep" PROVE Work' < Work
  <2>1. CASE Connect
    <3>1. Left' = Left
      BY <1>1, <2>1, LeftIs DEF Connect
    <3> QED BY <1>3, <2>1, <3>1 DEF Connect, Work
  <2>2. CASE ConnectFails
    BY <1>3, <2>2 DEF ConnectFails, Work
  <2>3. CASE BeginExchange
    <3>1. Left' = Left
      BY <1>1, <2>3, LeftIs DEF BeginExchange
    <3> QED BY <1>3, <2>3, <3>1 DEF BeginExchange, Work
  <2>4. CASE SendAgain
    <3>1. Left' = Left
      BY <1>1, <2>4, LeftIs DEF SendAgain
    <3> QED BY <1>2, <1>3, <2>4, <3>1 DEF SendAgain, Work
  <2>5. CASE TimedOut
    BY <1>2, <1>3, <1>4, <2>5 DEF TimedOut, Raise, Work
  <2>6. CASE SocketError
    BY <1>2, <1>3, <1>4, <2>6 DEF SocketError, Raise, Work
  <2>7. CASE TakeReply
    <3>1. Left' = Left - (Retries + 3)
      BY <1>1, <1>4, <2>7, LeftIs DEF TakeReply
    <3> QED BY <1>2, <1>3, <1>4, <2>7, <3>1 DEF TakeReply, Work
  <2>8. CASE PollReturns
    BY <1>3, <2>8 DEF PollReturns, Work
  <2>9. CASE Disconnect
    BY <2>9 DEF Disconnect, Work
  <2> QED BY <1>7, <2>1, <2>2, <2>3, <2>4, <2>5, <2>6, <2>7, <2>8, <2>9 DEF DriverStep, StartPoll
<1>8. ASSUME NetworkStep PROVE Work' = Work
  <2>1. UNCHANGED <<pc, tag, attempt>>
    BY <1>8 DEF NetworkStep, Answer, Arrive, Unreachable, Lose, Double, networkVars
  <2> QED BY <2>1 DEF Work, Left
<1> QED BY <1>5, <1>6, <1>7, <1>8

=============================================================================
