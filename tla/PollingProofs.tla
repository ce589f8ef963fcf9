---------------------------- MODULE PollingProofs ----------------------------
(***************************************************************************)
(* What live polling guarantees for any number of connections, presses of  *)
(* Start All and messages under way.                                       *)
(***************************************************************************)
EXTENDS Polling, SequenceTheorems, TLAPS

\* The bounds.
LEMMA Bounds ==
  /\ MaxStarts \in Nat \ {0} /\ MaxGen \in Nat \ {0} /\ MaxQueue \in Nat \ {0}
BY PollingConstants

Message == [name : Names, kind : Status \cup {"values"}]

\* A connection that was just made.
LEMMA ConnectionMade ==
  ASSUME NEW n \in Names, NEW t \in BOOLEAN, gen[n] \in 0 .. MaxGen, gen[n] < MaxGen
  PROVE  /\ Connection(n, t) \in Connections
         /\ Connection(n, t) # Nothing
         /\ Connection(n, t).id = gen[n] + 1
         /\ Connection(n, t).status = "idle"
         /\ gen[n] + 1 \in 0 .. MaxGen
<1>1. gen[n] + 1 \in 1 .. MaxGen /\ 0 \in 0 .. MaxStarts
  BY Bounds
<1>2. Connection(n, t) \in Connections
  BY <1>1 DEF Connection, Connections, Status
<1> QED BY <1>1, <1>2, NothingIsNoConnection DEF Connection

\* A connection that is listed, and the numbers of a state.
LEMMA Typed ==
  ASSUME TypeOK, NEW n \in Names
  PROVE  /\ n \in Listed => conns[n] \in Connections
         /\ n \in Listed => conns[n].id \in Nat /\ conns[n].thread \in 0 .. MaxStarts
         /\ gen[n] \in Nat /\ gen[n] \in 0 .. MaxGen
         /\ starts \in Nat /\ starts <= MaxStarts /\ ticks \in Nat /\ ticks <= starts
         /\ \A k \in 1 .. MaxStarts : thr[n][k] \in Threads /\ thr[n][k].obj \in Nat
<1>1. n \in Listed => conns[n] \in Connections
  BY DEF TypeOK, Listed
<1>2. n \in Listed => conns[n].id \in Nat /\ conns[n].thread \in 0 .. MaxStarts
  BY <1>1, Bounds DEF Connections
<1>3. gen[n] \in 0 .. MaxGen /\ starts \in 0 .. MaxStarts /\ ticks \in 0 .. starts
  BY DEF TypeOK
<1>4. gen[n] \in Nat /\ starts \in Nat /\ starts <= MaxStarts /\ ticks \in Nat /\ ticks <= starts
  BY <1>3, Bounds
<1>5. \A k \in 1 .. MaxStarts : thr[n][k] \in Threads
  BY DEF TypeOK
<1>6. \A k \in 1 .. MaxStarts : thr[n][k].obj \in Nat
  BY <1>5, Bounds DEF Threads
<1> QED BY <1>1, <1>2, <1>3, <1>4, <1>5, <1>6

-----------------------------------------------------------------------------
(* What the steps do.                                                      *)

\* A new or changed list: a connection is as it was, or a new one of its name.
LEMMA ListingHolds ==
  ASSUME IInv,
         UNCHANGED <<thr, starts, started, queue, draining, tickVars>>,
         conns' \in [Names -> {Nothing} \cup Connections],
         gen' \in [Names -> 0 .. MaxGen],
         \A n \in Names : gen'[n] >= gen[n],
         \A n \in Names : conns'[n] # Nothing =>
            \/ /\ n \in Listed
               /\ conns'[n].id = conns[n].id
               /\ conns'[n].thread = conns[n].thread
               /\ conns'[n].status = conns[n].status
            \/ /\ gen'[n] = gen[n] + 1
               /\ conns'[n].id = gen[n] + 1
               /\ conns'[n].status = "idle"
  PROVE  IInv'
<1>1. TypeOK /\ TypeOK'
  BY DEF IInv, TypeOK, tickVars
<1>2. merging' = started' /\ SendsWhileStarted'
  BY DEF IInv, SendsWhileStarted, tickVars
<1>3. \A n \in Names : /\ gen[n] \in Nat /\ gen'[n] \in Nat
                       /\ n \in Listed => conns[n].id \in Nat /\ conns[n].id <= gen[n]
                       /\ \A k \in 1 .. MaxStarts : thr[n][k].obj \in Nat
  <2>1. \A n \in Names : gen'[n] \in Nat
    BY Bounds
  <2> QED BY <1>1, <2>1, Typed DEF IInv, OfThePast
<1>4. OfThePast'
  <2>1. ASSUME NEW n \in Names
        PROVE  /\ n \in Listed' => conns'[n].id <= gen'[n]
               /\ \A k \in 1 .. MaxStarts :
                    thr[n][k].pc # "none" => k <= starts /\ thr[n][k].obj <= gen'[n]
    BY <1>3 DEF IInv, OfThePast, Listed
  <2> QED BY <2>1 DEF OfThePast
<1>5. StopReachesListed'
  <2> SUFFICES ASSUME NEW n \in Listed', NEW k \in 1 .. MaxStarts,
                      Polls(n, k)', thr[n][k].obj = conns'[n].id
               PROVE  started /\ conns'[n].thread = k
    BY DEF StopReachesListed
  <2>1. n \in Names /\ conns'[n] # Nothing /\ Polls(n, k)
    BY DEF Listed, Polls, Alive
  <2>2. thr[n][k].obj <= gen[n]
    BY <2>1 DEF IInv, OfThePast, Polls, Alive
  <2>3. conns'[n].id # gen[n] + 1
    BY <1>3, <2>1, <2>2
  <2>4. n \in Listed /\ conns'[n].id = conns[n].id /\ conns'[n].thread = conns[n].thread
    BY <2>1, <2>3
  <2> QED BY <2>1, <2>4 DEF IInv, StopReachesListed
<1>6. ASSUME NEW n \in Listed', conns'[n].status = "connected"
      PROVE  n \in Listed /\ conns[n].status = "connected"
  BY <1>6 DEF Listed
<1>7. ConnectedIsAlive'
  BY <1>6 DEF IInv, ConnectedIsAlive, AtWork
<1>8. LastWordIsTrue'
  BY <1>6 DEF IInv, LastWordIsTrue, AtWork, SaidAfter
<1> QED BY <1>1, <1>2, <1>4, <1>5, <1>7, <1>8 DEF IInv

\* Connections are added, changed, removed and loaded.
LEMMA ListHolds ==
  ASSUME IInv,
         \/ \E n \in Names : AddConnection(n) \/ AddTags(n) \/ RemoveConnection(n)
         \/ \E ns \in SUBSET Names : LoadConfig(ns)
  PROVE  IInv'
<1>1. /\ conns \in [Names -> {Nothing} \cup Connections]
      /\ gen \in [Names -> 0 .. MaxGen] /\ TypeOK
  BY DEF IInv, TypeOK
<1>2. \A n \in Names : gen[n] \in Nat /\ gen[n] <= gen[n] /\ gen[n] + 1 >= gen[n]
  BY <1>1, Typed
<1>3. ASSUME NEW n \in Names, AddConnection(n) PROVE IInv'
  <2>1. UNCHANGED <<thr, starts, started, queue, draining, tickVars>>
    BY <1>3 DEF AddConnection, Callback
  <2> DEFINE new == Connection(n, FALSE)
  <2>2. /\ new \in Connections /\ new # Nothing /\ new.id = gen[n] + 1
        /\ new.status = "idle" /\ gen[n] + 1 \in 0 .. MaxGen
    <3>1. gen[n] < MaxGen /\ FALSE \in BOOLEAN
      BY <1>3 DEF AddConnection
    <3> QED BY <1>1, <3>1, ConnectionMade
  <2>3. conns' = [conns EXCEPT ![n] = new] /\ gen' = [gen EXCEPT ![n] = gen[n] + 1]
    BY <1>3 DEF AddConnection
  <2> HIDE DEF new
  <2>4. conns' \in [Names -> {Nothing} \cup Connections] /\ gen' \in [Names -> 0 .. MaxGen]
    BY <1>1, <2>2, <2>3
  <2>5. \A m \in Names : gen'[m] >= gen[m]
    BY <1>1, <1>2, <2>3
  <2>6. \A m \in Names : conns'[m] # Nothing =>
            \/ /\ m \in Listed
               /\ conns'[m].id = conns[m].id
               /\ conns'[m].thread = conns[m].thread
               /\ conns'[m].status = conns[m].status
            \/ /\ gen'[m] = gen[m] + 1
               /\ conns'[m].id = gen[m] + 1
               /\ conns'[m].status = "idle"
    BY <1>1, <2>2, <2>3 DEF Listed
  <2> QED BY <2>1, <2>4, <2>5, <2>6, ListingHolds
<1>4. ASSUME NEW n \in Names, AddTags(n) PROVE IInv'
  <2>1. UNCHANGED <<thr, starts, started, queue, draining, tickVars>> /\ gen' = gen
    BY <1>4 DEF AddTags, Callback
  <2>2. conns' = [conns EXCEPT ![n].tags = TRUE] /\ n \in Listed
    BY <1>4 DEF AddTags
  <2> DEFINE new == [conns[n] EXCEPT !.tags = TRUE]
  <2>3. conns[n] \in Connections
    BY <1>1, <2>2, Typed
  <2>4. /\ new \in Connections /\ new.id = conns[n].id
        /\ new.thread = conns[n].thread /\ new.status = conns[n].status
    BY <2>3 DEF Connections
  <2>5. conns' = [conns EXCEPT ![n] = new]
    BY <1>1, <2>2
  <2> HIDE DEF new
  <2>6. conns' \in [Names -> {Nothing} \cup Connections] /\ gen' \in [Names -> 0 .. MaxGen]
    BY <1>1, <2>1, <2>4, <2>5
  <2>7. \A m \in Names : conns'[m] # Nothing =>
            /\ m \in Listed
            /\ conns'[m].id = conns[m].id
            /\ conns'[m].thread = conns[m].thread
            /\ conns'[m].status = conns[m].status
    BY <1>1, <2>2, <2>4, <2>5 DEF Listed
  <2>8. \A m \in Names : gen'[m] >= gen[m]
    BY <1>2, <2>1
  <2> QED BY <2>1, <2>6, <2>7, <2>8, ListingHolds
<1>5. ASSUME NEW n \in Names, RemoveConnection(n) PROVE IInv'
  <2>1. UNCHANGED <<thr, starts, started, queue, draining, tickVars>> /\ gen' = gen
    BY <1>5 DEF RemoveConnection, Callback
  <2>2. conns' = [conns EXCEPT ![n] = Nothing]
    BY <1>5 DEF RemoveConnection
  <2>3. conns' \in [Names -> {Nothing} \cup Connections] /\ gen' \in [Names -> 0 .. MaxGen]
    BY <1>1, <2>1, <2>2
  <2>4. \A m \in Names : conns'[m] # Nothing => m \in Listed /\ conns'[m] = conns[m]
    BY <1>1, <2>2 DEF Listed
  <2>5. \A m \in Names : gen'[m] >= gen[m]
    BY <1>2, <2>1
  <2> QED BY <2>1, <2>3, <2>4, <2>5, ListingHolds
<1>6. ASSUME NEW ns \in SUBSET Names, LoadConfig(ns) PROVE IInv'
  <2>1. UNCHANGED <<thr, starts, started, queue, draining, tickVars>>
    BY <1>6 DEF LoadConfig, Callback
  <2>2. /\ conns' = [n \in Names |-> IF n \in ns THEN Connection(n, TRUE) ELSE Nothing]
        /\ gen' = [n \in Names |-> IF n \in ns THEN gen[n] + 1 ELSE gen[n]]
    BY <1>6 DEF LoadConfig
  <2>3. ASSUME NEW n \in ns
        PROVE  /\ Connection(n, TRUE) \in Connections
               /\ Connection(n, TRUE).id = gen[n] + 1
               /\ Connection(n, TRUE).status = "idle"
               /\ gen[n] + 1 \in 0 .. MaxGen
    <3>1. gen[n] < MaxGen /\ TRUE \in BOOLEAN /\ n \in Names
      BY <1>6 DEF LoadConfig
    <3> QED BY <1>1, <3>1, ConnectionMade
  <2>4. conns' \in [Names -> {Nothing} \cup Connections] /\ gen' \in [Names -> 0 .. MaxGen]
    BY <1>1, <2>2, <2>3
  <2>5. \A m \in Names : gen'[m] >= gen[m]
    BY <1>2, <2>2
  <2>6. \A m \in Names : conns'[m] # Nothing =>
            /\ gen'[m] = gen[m] + 1
            /\ conns'[m].id = gen[m] + 1
            /\ conns'[m].status = "idle"
    BY <2>2, <2>3
  <2> QED BY <2>1, <2>4, <2>5, <2>6, ListingHolds
<1> QED BY <1>3, <1>4, <1>5, <1>6

\* Start All is pressed: a thread of its own for every connection with tags.
LEMMA StartHolds ==
  ASSUME IInv, StartAll
  PROVE  IInv'
<1> DEFINE ready == {n \in Listed : conns[n].tags}
           s == starts + 1
           new(n) == [pc |-> "new", obj |-> conns[n].id, stop |-> FALSE]
<1>1. TypeOK /\ ready \subseteq Names /\ ready \subseteq Listed
  BY DEF IInv, Listed
<1>2. /\ ~started /\ starts < MaxStarts /\ starts' = s
      /\ UNCHANGED <<gen, queue, entry, draining>>
      /\ raised' \in BOOLEAN /\ ticks' = IF raised' THEN ticks ELSE ticks + 1
      /\ thr' = [n \in Names |-> IF n \in ready THEN [thr[n] EXCEPT ![s] = new(n)] ELSE thr[n]]
      /\ conns' = [n \in Names |-> IF n \in ready THEN [conns[n] EXCEPT !.thread = s] ELSE conns[n]]
  BY DEF StartAll, Callback
<1>3. started' = TRUE /\ merging' = TRUE
  BY DEF StartAll
<1> HIDE DEF ready
<1>4. starts \in Nat /\ starts \in 0 .. MaxStarts /\ ticks \in 0 .. starts
  BY <1>1 DEF TypeOK
<1>5. s \in 1 .. MaxStarts /\ s \in 0 .. MaxStarts /\ ticks' \in 0 .. s /\ (raised' \/ ticks' > 0) /\ s > starts
  BY <1>2, <1>4, Bounds
<1>6. ASSUME NEW n \in ready
      PROVE  /\ conns'[n] \in Connections
             /\ conns'[n].thread = s /\ conns'[n].id = conns[n].id
             /\ conns'[n].status = conns[n].status
             /\ new(n) \in Threads
             /\ thr'[n] = [thr[n] EXCEPT ![s] = new(n)]
  <2>1. conns[n] \in Connections /\ n \in Names
    BY <1>1, Typed
  <2>2. conns'[n] = [conns[n] EXCEPT !.thread = s]
    BY <1>2, <2>1
  <2>3. conns'[n] \in Connections
    BY <1>5, <2>1, <2>2 DEF Connections
  <2>4. conns[n].id \in 0 .. MaxGen
    BY <2>1, Bounds DEF Connections
  <2>5. new(n) \in Threads
    BY <2>4 DEF Threads
  <2> QED BY <1>2, <2>1, <2>2, <2>3, <2>5 DEF Connections
<1>7. ASSUME NEW n \in Names \ ready PROVE conns'[n] = conns[n] /\ thr'[n] = thr[n]
  BY <1>2
<1>8. conns' \in [Names -> {Nothing} \cup Connections]
  <2>1. \A n \in Names : conns'[n] \in {Nothing} \cup Connections
    BY <1>1, <1>6, <1>7 DEF TypeOK
  <2> QED BY <1>2, <2>1
<1>9. thr' \in [Names -> [1 .. MaxStarts -> Threads]]
  <2>1. \A n \in Names : thr'[n] \in [1 .. MaxStarts -> Threads]
    <3> SUFFICES ASSUME NEW n \in Names PROVE thr'[n] \in [1 .. MaxStarts -> Threads]
      OBVIOUS
    <3>1. thr[n] \in [1 .. MaxStarts -> Threads]
      BY <1>1 DEF TypeOK
    <3>2. CASE n \in ready
      <4>1. new(n) \in Threads /\ thr'[n] = [thr[n] EXCEPT ![s] = new(n)]
        BY <1>6, <3>2
      <4> HIDE DEF new, s
      <4> QED BY <1>5, <3>1, <4>1
    <3>3. CASE n \notin ready
      BY <1>7, <3>1, <3>3
    <3> QED BY <3>2, <3>3
  <2> QED BY <1>2, <2>1
<1>10. Listed' = Listed
  <2>1. \A n \in ready : conns'[n] # Nothing /\ n \in Listed
    BY <1>1, <1>6, NothingIsNoConnection
  <2> QED BY <1>1, <1>7, <2>1 DEF Listed
<1>11. TypeOK'
  <2>1. started' \in BOOLEAN /\ merging' \in BOOLEAN /\ raised' \in BOOLEAN
    BY <1>2, <1>3, Zenon
  <2>2. starts' \in 0 .. MaxStarts /\ ticks' \in 0 .. starts'
    BY <1>2, <1>5
  <2> QED BY <1>1, <1>2, <1>8, <1>9, <2>1, <2>2 DEF TypeOK
<1>12. merging' = started' /\ SendsWhileStarted'
  <2>1. merging' = started'
    BY <1>3
  <2>2. SendsWhileStarted'
    BY <1>5 DEF SendsWhileStarted
  <2> QED BY <2>1, <2>2
<1>13. \* The thread that is new is not one there was.
       ASSUME NEW n \in Names, NEW k \in 1 .. MaxStarts
       PROVE  \/ n \in ready /\ k = s /\ thr[n][k].pc = "none" /\ thr'[n][k] = new(n)
              \/ thr'[n][k] = thr[n][k]
  <2>1. thr[n][s].pc = "none"
    BY <1>4, <1>5 DEF IInv, OfThePast
  <2>2. thr[n] \in [1 .. MaxStarts -> Threads]
    BY <1>1 DEF TypeOK
  <2> QED BY <1>5, <1>6, <1>7, <2>1, <2>2
<1>14. OfThePast'
  <2> SUFFICES ASSUME NEW n \in Names
               PROVE  /\ n \in Listed' => conns'[n].id <= gen[n]
                      /\ \A k \in 1 .. MaxStarts :
                           thr'[n][k].pc # "none" => k <= s /\ thr'[n][k].obj <= gen[n]
    BY <1>2 DEF OfThePast
  <2>1. n \in Listed => conns[n].id <= gen[n]
    BY DEF IInv, OfThePast
  <2>2. n \in Listed' => conns'[n].id <= gen[n]
    BY <1>6, <1>7, <1>10, <2>1
  <2>3. ASSUME NEW k \in 1 .. MaxStarts, thr'[n][k].pc # "none"
        PROVE  k <= s /\ thr'[n][k].obj <= gen[n]
    <3>1. CASE n \in ready /\ k = s /\ thr'[n][k] = new(n)
      BY <1>1, <1>5, <2>1, <3>1
    <3>2. CASE thr'[n][k] = thr[n][k]
      <4>1. k <= starts /\ thr[n][k].obj <= gen[n]
        BY <2>3, <3>2 DEF IInv, OfThePast
      <4> QED BY <1>4, <3>2, <4>1
    <3> QED BY <1>13, <3>1, <3>2
  <2> QED BY <2>2, <2>3
<1>15. StopReachesListed'
  <2> SUFFICES ASSUME NEW n \in Listed, NEW k \in 1 .. MaxStarts,
                      Polls(n, k)', thr'[n][k].obj = conns'[n].id
               PROVE  conns'[n].thread = k
    BY <1>3, <1>10 DEF StopReachesListed
  <2>1. n \in Names /\ conns'[n].id = conns[n].id
    BY <1>1, <1>6, <1>7 DEF Listed
  <2>2. CASE thr'[n][k] = thr[n][k]
    <3>1. Polls(n, k) /\ thr[n][k].obj = conns[n].id
      BY <2>1, <2>2 DEF Polls, Alive
    <3>2. started
      BY <3>1 DEF IInv, StopReachesListed
    <3> QED BY <1>2, <3>2
  <2>3. CASE n \in ready /\ k = s
    BY <1>6, <2>3
  <2> QED BY <1>13, <2>1, <2>2, <2>3
<1>16. ASSUME NEW n \in Names, AtWork(n) PROVE AtWork(n)'
  <2>1. PICK k \in 1 .. MaxStarts : thr[n][k].pc \in {"loop", "poll", "close"}
    BY <1>16 DEF AtWork
  <2>2. thr'[n][k] = thr[n][k]
    BY <1>13, <2>1
  <2> QED BY <2>1, <2>2 DEF AtWork
<1>17. \A n \in Listed : conns'[n].status = conns[n].status /\ n \in Names
  BY <1>6, <1>7 DEF Listed
<1>18. ConnectedIsAlive'
  BY <1>2, <1>10, <1>16, <1>17 DEF IInv, ConnectedIsAlive
<1>19. LastWordIsTrue'
  BY <1>2, <1>10, <1>16, <1>17 DEF IInv, LastWordIsTrue, SaidAfter
<1> QED BY <1>11, <1>12, <1>14, <1>15, <1>18, <1>19 DEF IInv

\* Stop All is pressed.
LEMMA StopHolds ==
  ASSUME IInv, StopAll
  PROVE  IInv'
<1>1. /\ UNCHANGED <<conns, gen, starts, queue, ticks, entry, raised, draining>>
      /\ started' = FALSE /\ merging' = FALSE
      /\ thr' = [n \in Names |-> [k \in 1 .. MaxStarts |->
           IF n \in Listed /\ conns[n].thread = k THEN [thr[n][k] EXCEPT !.stop = TRUE] ELSE thr[n][k]]]
  BY DEF StopAll, Callback, conVars
<1>2. TypeOK
  BY DEF IInv
<1>3. Listed' = Listed
  BY <1>1 DEF Listed
<1>4. ASSUME NEW n \in Names, NEW k \in 1 .. MaxStarts
      PROVE  /\ thr'[n][k] \in Threads
             /\ thr'[n][k].pc = thr[n][k].pc /\ thr'[n][k].obj = thr[n][k].obj
             /\ n \in Listed /\ conns[n].thread = k => thr'[n][k].stop
             /\ thr[n][k].stop => thr'[n][k].stop
  <2>1. thr[n][k] \in Threads
    BY <1>2 DEF TypeOK
  <2>2. thr'[n][k] = IF n \in Listed /\ conns[n].thread = k
                     THEN [thr[n][k] EXCEPT !.stop = TRUE] ELSE thr[n][k]
    BY <1>1
  <2> QED BY <2>1, <2>2 DEF Threads
<1>5. TypeOK'
  <2>1. started' \in BOOLEAN /\ merging' \in BOOLEAN
    BY <1>1, Zenon
  <2>2. thr' \in [Names -> [1 .. MaxStarts -> Threads]]
    <3>1. \A n \in Names : thr'[n] \in [1 .. MaxStarts -> Threads]
      BY <1>1, <1>4
    <3> QED BY <1>1, <3>1
  <2>3. UNCHANGED <<conns, gen, starts, queue, ticks, entry, raised, draining>>
    BY <1>1
  <2> QED BY <1>2, <2>1, <2>2, <2>3 DEF TypeOK
<1>6. merging' = started' /\ SendsWhileStarted'
  BY <1>1 DEF SendsWhileStarted
<1>7. OfThePast'
  BY <1>1, <1>3, <1>4 DEF IInv, OfThePast
<1>8. StopReachesListed'
  <2> SUFFICES ASSUME NEW n \in Listed, NEW k \in 1 .. MaxStarts,
                      Polls(n, k)', thr'[n][k].obj = conns[n].id
               PROVE  FALSE
    BY <1>1, <1>3 DEF StopReachesListed
  <2>1. n \in Names
    BY DEF Listed
  <2>2. Polls(n, k) /\ thr[n][k].obj = conns[n].id
    BY <1>4, <2>1 DEF Polls, Alive
  <2>3. conns[n].thread = k
    BY <2>2 DEF IInv, StopReachesListed
  <2> QED BY <1>4, <2>1, <2>3 DEF Polls
<1>9. \A n \in Names : AtWork(n)' = AtWork(n)
  BY <1>4 DEF AtWork
<1>10. ConnectedIsAlive'
  BY <1>1, <1>3, <1>9 DEF IInv, ConnectedIsAlive, Listed
<1>11. LastWordIsTrue'
  BY <1>1, <1>3, <1>9 DEF IInv, LastWordIsTrue, SaidAfter, Listed
<1> QED BY <1>5, <1>6, <1>7, <1>8, <1>10, <1>11 DEF IInv

\* The timer chain, and its interval.
LEMMA TickHolds ==
  ASSUME IInv, EditEntry \/ MergeTick
  PROVE  IInv'
<1>1. UNCHANGED <<conns, gen, thr, starts, started, queue, draining, merging>>
  BY DEF EditEntry, MergeTick, Callback, conVars
<1>2. /\ starts \in Nat /\ ticks \in 0 .. starts
      /\ entry \in Entries /\ raised \in BOOLEAN /\ merging \in BOOLEAN
  BY DEF IInv, TypeOK
<1>3. /\ ticks' \in 0 .. starts /\ entry' \in Entries /\ raised' \in BOOLEAN
      /\ \/ ticks' = ticks /\ raised' = raised
         \/ ~merging \/ raised'
  <2>1. CASE EditEntry
    BY <1>2, <2>1 DEF EditEntry
  <2>2. CASE MergeTick
    <3>1. CASE merging /\ entry = "seconds"
      BY <1>2, <2>2, <3>1 DEF MergeTick
    <3>2. CASE ~(merging /\ entry = "seconds")
      <4>1. ticks' = ticks - 1 /\ ticks > 0 /\ entry' = entry
        BY <2>2, <3>2 DEF MergeTick
      <4>2. raised' = (raised \/ merging)
        BY <2>2, <3>2 DEF MergeTick
      <4>3. ticks' \in 0 .. starts
        BY <1>2, <4>1
      <4> QED BY <1>2, <4>1, <4>2, <4>3
    <3> QED BY <3>1, <3>2
  <2> QED BY <2>1, <2>2
<1>4. TypeOK'
  BY <1>1, <1>3 DEF IInv, TypeOK
<1>5. merging' = started' /\ SendsWhileStarted'
  BY <1>1, <1>3 DEF IInv, SendsWhileStarted
<1> QED BY <1>1, <1>4, <1>5 DEF IInv, OfThePast, StopReachesListed, ConnectedIsAlive, LastWordIsTrue,
           Listed, Polls, Alive, AtWork, SaidAfter

\* _poll_queue takes a message.
LEMMA DrainHolds ==
  ASSUME IInv, Drain
  PROVE  IInv'
<1> DEFINE m == Head(queue)
<1>1. /\ queue # <<>> /\ queue' = Tail(queue)
      /\ UNCHANGED <<gen, thr, starts, started, merging, ticks, entry, raised>>
      /\ conns' = IF m.name \in Listed /\ m.kind # "values"
                  THEN [conns EXCEPT ![m.name].status = m.kind] ELSE conns
  BY DEF Drain, tickVars
<1>2. /\ TypeOK /\ queue \in Seq(Message) /\ conns \in [Names -> {Nothing} \cup Connections]
  BY DEF IInv, TypeOK, Message
<1>3. /\ Len(queue) \in Nat \ {0} /\ 1 \in DOMAIN queue /\ m = queue[1] /\ m \in Message
      /\ queue' \in Seq(Message) /\ DOMAIN queue = 1 .. Len(queue) /\ DOMAIN queue' = 1 .. Len(queue) - 1
      /\ \A k \in DOMAIN queue' : queue'[k] = queue[k + 1]
  BY <1>1, <1>2
<1>4. draining' \in BOOLEAN
  BY DEF Drain
<1>5. m.name \in Names /\ (m.kind # "values" => m.kind \in Status)
  BY <1>3 DEF Message
<1> HIDE DEF m
<1>6. ASSUME NEW n \in Names
      PROVE  /\ conns'[n] # Nothing <=> conns[n] # Nothing
             /\ conns'[n] \in {Nothing} \cup Connections
             /\ conns[n] # Nothing => /\ conns'[n].id = conns[n].id
                                      /\ conns'[n].thread = conns[n].thread
                                      /\ conns'[n].status = IF m.name = n /\ m.kind # "values"
                                                            THEN m.kind ELSE conns[n].status
  <2>1. CASE n = m.name /\ conns[n] # Nothing /\ m.kind # "values"
    <3> DEFINE new == [conns[n] EXCEPT !.status = m.kind]
    <3>1. conns[n] \in Connections
      BY <1>2, <2>1
    <3>2. /\ new \in Connections /\ new.id = conns[n].id /\ new.thread = conns[n].thread
          /\ new.status = m.kind
      BY <1>5, <2>1, <3>1 DEF Connections
    <3>3. conns'[n] = new
      BY <1>1, <1>2, <2>1 DEF Listed
    <3> HIDE DEF new
    <3> QED BY <2>1, <3>2, <3>3, NothingIsNoConnection
  <2>2. CASE ~(n = m.name /\ conns[n] # Nothing /\ m.kind # "values")
    <3>1. conns'[n] = conns[n]
      BY <1>1, <1>2, <2>2 DEF Listed
    <3> QED BY <1>2, <2>2, <3>1
  <2> QED BY <2>1, <2>2
<1>7. Listed' = Listed
  BY <1>6 DEF Listed
<1>8. TypeOK'
  <2>1. conns' \in [Names -> {Nothing} \cup Connections]
    <3>1. DOMAIN conns' = Names
      BY <1>1, <1>2
    <3>2. conns' = [n \in Names |-> conns'[n]]
      BY <1>1, <1>2
    <3> QED BY <1>6, <3>2
  <2>2. queue' \in Seq([name : Names, kind : Status \cup {"values"}])
    BY <1>3 DEF Message
  <2>3. UNCHANGED <<gen, thr, starts, started, merging, ticks, entry, raised>>
    BY <1>1
  <2> QED BY <1>2, <1>4, <2>1, <2>2, <2>3 DEF TypeOK
<1>9. merging' = started' /\ SendsWhileStarted'
  BY <1>1 DEF IInv, SendsWhileStarted
<1>10. OfThePast'
  BY <1>1, <1>6, <1>7 DEF IInv, OfThePast, Listed
<1>11. StopReachesListed'
  BY <1>1, <1>6, <1>7 DEF IInv, StopReachesListed, Polls, Alive, Listed
<1>12. \* What is said after the message taken is said after nothing.
       ASSUME NEW n \in Names, NEW i \in Nat
       PROVE  SaidAfter(n, i + 1) <=> SaidAfter(n, i)'
  <2>1. ASSUME SaidAfter(n, i + 1) PROVE SaidAfter(n, i)'
    <3>1. PICK k \in DOMAIN queue : k > i + 1 /\ queue[k].name = n /\ queue[k].kind # "values"
      BY <2>1 DEF SaidAfter
    <3>2. k - 1 \in DOMAIN queue' /\ k - 1 > i /\ queue'[k - 1] = queue[k]
      BY <1>3, <3>1
    <3> QED BY <3>1, <3>2 DEF SaidAfter
  <2>2. ASSUME SaidAfter(n, i)' PROVE SaidAfter(n, i + 1)
    <3>1. PICK k \in DOMAIN queue' : k > i /\ queue'[k].name = n /\ queue'[k].kind # "values"
      BY <2>2 DEF SaidAfter
    <3>2. k + 1 \in DOMAIN queue /\ k + 1 > i + 1 /\ queue'[k] = queue[k + 1]
      BY <1>3, <3>1
    <3> QED BY <3>1, <3>2 DEF SaidAfter
  <2> QED BY <2>1, <2>2
<1>13. \A n \in Names : AtWork(n)' = AtWork(n)
  BY <1>1 DEF AtWork
<1>14. ASSUME NEW n \in Listed, conns'[n].status = "connected", ~SaidAfter(n, 0)'
       PROVE  AtWork(n)
  <2>1. n \in Names /\ conns[n] # Nothing
    BY DEF Listed
  <2>2. ~SaidAfter(n, 1)
    <3>1. 0 \in Nat /\ 0 + 1 = 1
      OBVIOUS
    <3> QED BY <1>12, <1>14, <2>1, <3>1
  <2>3. CASE m.name = n /\ m.kind # "values"
    <3>1. m.kind = "connected"
      BY <1>6, <1>14, <2>1, <2>3
    <3>2. queue[1] = [name |-> n, kind |-> "connected"]
      BY <1>3, <2>3, <3>1 DEF Message
    <3> QED BY <1>3, <2>1, <2>2, <3>2 DEF IInv, LastWordIsTrue
  <2>4. CASE ~(m.name = n /\ m.kind # "values")
    <3>1. conns[n].status = "connected"
      BY <1>6, <1>14, <2>1, <2>4
    <3>2. ~SaidAfter(n, 0)
      <4>1. ASSUME SaidAfter(n, 0) PROVE FALSE
        <5>1. PICK k \in DOMAIN queue : k > 0 /\ queue[k].name = n /\ queue[k].kind # "values"
          BY <4>1 DEF SaidAfter
        <5>2. k # 1
          BY <1>3, <2>4, <5>1
        <5>3. k > 1
          BY <1>3, <5>1, <5>2
        <5> QED BY <2>2, <5>1, <5>3 DEF SaidAfter
      <4> QED BY <4>1
    <3> QED BY <3>1, <3>2 DEF IInv, LastWordIsTrue
  <2> QED BY <2>3, <2>4
<1>15. LastWordIsTrue'
  <2>1. ASSUME NEW n \in Names, NEW i \in DOMAIN queue',
               queue'[i] = [name |-> n, kind |-> "connected"], ~SaidAfter(n, i)'
        PROVE  AtWork(n)
    <3>1. i \in Nat /\ i + 1 \in DOMAIN queue /\ queue[i + 1] = queue'[i]
      BY <1>3
    <3>2. ~SaidAfter(n, i + 1)
      BY <1>12, <2>1, <3>1
    <3> QED BY <2>1, <3>1, <3>2 DEF IInv, LastWordIsTrue
  <2>2. \A n \in Listed : n \in Names
    BY DEF Listed
  <2> QED BY <1>7, <1>13, <1>14, <2>1, <2>2 DEF LastWordIsTrue
<1>16. ConnectedIsAlive'
  <2> SUFFICES ASSUME NEW n \in Listed, queue' = <<>>, conns'[n].status = "connected"
               PROVE  AtWork(n)
    BY <1>7, <1>13 DEF ConnectedIsAlive, Listed
  <2>1. DOMAIN queue' = {}
    OBVIOUS
  <2>2. ~SaidAfter(n, 0)'
    BY <2>1 DEF SaidAfter
  <2> QED BY <1>14, <2>2
<1> QED BY <1>8, <1>9, <1>10, <1>11, <1>15, <1>16 DEF IInv

-----------------------------------------------------------------------------
(* A thread.                                                               *)

\* What a step of a thread does to it, and what it says.
LEMMA ThreadEffect ==
  ASSUME IInv, NEW n \in Names, NEW k \in 1 .. MaxStarts, ThreadStep(n, k)
  PROVE  /\ UNCHANGED <<conns, gen, starts, started, draining, merging, ticks, entry, raised>>
         /\ thr[n][k].pc # "none" /\ Alive(n, k)
         /\ \E pc2 \in {"connecting", "loop", "poll", "close", "ended"} :
              /\ thr' = [thr EXCEPT ![n][k].pc = pc2]
              /\ \/ /\ queue' = queue
                    /\ thr[n][k].pc = "loop" /\ pc2 \in {"poll", "close"}
                 \/ \E what \in Status \cup {"values"} :
                      /\ queue' = Append(queue, [name |-> n, kind |-> what])
                      /\ what = "connected" => pc2 = "loop"
                      /\ what = "values" => thr[n][k].pc = "poll" /\ pc2 = "loop"
<1> USE DEF Tk, conVars, tickVars, Alive, Status
<1>1. CASE Connecting(n, k)
  BY <1>1 DEF Connecting, Says
<1>2. CASE Connected(n, k)
  BY <1>2 DEF Connected, Says
<1>3. CASE ConnectFails(n, k)
  BY <1>3 DEF ConnectFails, Says
<1>4. CASE LoopTest(n, k)
  BY <1>4 DEF LoopTest
<1>5. CASE PollOk(n, k)
  BY <1>5 DEF PollOk, Says
<1>6. CASE PollFails(n, k)
  BY <1>6 DEF PollFails, Says
<1>7. CASE Stopped(n, k)
  BY <1>7 DEF Stopped, Says
<1> QED BY <1>1, <1>2, <1>3, <1>4, <1>5, <1>6, <1>7 DEF ThreadStep

\* A thread takes a step.
LEMMA ThreadHolds ==
  ASSUME IInv, NEW n \in Names, NEW k \in 1 .. MaxStarts, ThreadStep(n, k)
  PROVE  IInv'
<1>1. /\ UNCHANGED <<conns, gen, starts, started, draining, merging, ticks, entry, raised>>
      /\ thr[n][k].pc # "none" /\ Alive(n, k)
  BY ThreadEffect
<1>2. PICK pc2 \in {"connecting", "loop", "poll", "close", "ended"} :
              /\ thr' = [thr EXCEPT ![n][k].pc = pc2]
              /\ \/ /\ queue' = queue
                    /\ thr[n][k].pc = "loop" /\ pc2 \in {"poll", "close"}
                 \/ \E what \in Status \cup {"values"} :
                      /\ queue' = Append(queue, [name |-> n, kind |-> what])
                      /\ what = "connected" => pc2 = "loop"
                      /\ what = "values" => thr[n][k].pc = "poll" /\ pc2 = "loop"
  BY ThreadEffect
<1>3. /\ TypeOK /\ thr \in [Names -> [1 .. MaxStarts -> Threads]]
      /\ queue \in Seq(Message) /\ Len(queue) \in Nat
  BY DEF IInv, TypeOK, Message
<1>4. \A m \in Names, l \in 1 .. MaxStarts :
        /\ m # n \/ l # k => thr'[m][l] = thr[m][l]
        /\ thr'[m][l].obj = thr[m][l].obj /\ thr'[m][l].stop = thr[m][l].stop
  BY <1>2, <1>3 DEF Threads
<1>5. thr'[n][k].pc = pc2 /\ thr' \in [Names -> [1 .. MaxStarts -> Threads]]
  <2> DEFINE new == [thr[n][k] EXCEPT !.pc = pc2]
  <2>1. thr[n][k] \in Threads
    BY <1>3
  <2>2. new \in Threads /\ new.pc = pc2
    BY <2>1 DEF Threads
  <2>3. thr' = [thr EXCEPT ![n][k] = new]
    BY <1>2, <1>3
  <2> HIDE DEF new
  <2> QED BY <1>3, <2>2, <2>3
<1>6. queue' \in Seq(Message)
  <2>1. ASSUME NEW what \in Status \cup {"values"},
               queue' = Append(queue, [name |-> n, kind |-> what])
        PROVE  queue' \in Seq(Message)
    <3>1. [name |-> n, kind |-> what] \in Message
      BY DEF Message
    <3> QED BY <1>3, <2>1, <3>1
  <2>2. CASE queue' = queue
    BY <1>3, <2>2
  <2> QED BY <1>2, <2>1, <2>2
<1>7. TypeOK'
  BY <1>1, <1>3, <1>5, <1>6 DEF TypeOK, Message
<1>8. Listed' = Listed
  BY <1>1 DEF Listed
<1>9. merging' = started' /\ SendsWhileStarted'
  BY <1>1 DEF IInv, SendsWhileStarted
<1>10. OfThePast'
  <2>1. ASSUME NEW m \in Names, NEW l \in 1 .. MaxStarts, thr'[m][l].pc # "none"
        PROVE  l <= starts /\ thr'[m][l].obj <= gen[m]
    BY <1>1, <1>4, <2>1 DEF IInv, OfThePast
  <2> QED BY <1>1, <1>8, <2>1 DEF IInv, OfThePast
<1>11. StopReachesListed'
  <2>1. ASSUME NEW m \in Names, NEW l \in 1 .. MaxStarts, Polls(m, l)'
        PROVE  Polls(m, l)
    BY <1>1, <1>4, <2>1 DEF Polls, Alive
  <2>2. \A m \in Listed : m \in Names
    BY DEF Listed
  <2> QED BY <1>1, <1>4, <1>8, <2>1, <2>2 DEF IInv, StopReachesListed
<1>12. ASSUME NEW m \in Names, AtWork(m), m # n \/ pc2 \in {"loop", "poll", "close"}
       PROVE  AtWork(m)'
  <2>1. PICK l \in 1 .. MaxStarts : thr[m][l].pc \in {"loop", "poll", "close"}
    BY <1>12 DEF AtWork
  <2>2. thr'[m][l].pc \in {"loop", "poll", "close"}
    BY <1>4, <1>5, <1>12, <2>1
  <2> QED BY <2>2 DEF AtWork
<1>13. CASE queue' = queue /\ pc2 \in {"poll", "close"}
  <2>1. \A m \in Names : AtWork(m) => AtWork(m)'
    BY <1>12, <1>13
  <2>2. \A m \in Listed : m \in Names
    BY DEF Listed
  <2>3. ConnectedIsAlive'
    BY <1>1, <1>8, <1>13, <2>1, <2>2 DEF IInv, ConnectedIsAlive
  <2>4. LastWordIsTrue'
    BY <1>1, <1>8, <1>13, <2>1, <2>2 DEF IInv, LastWordIsTrue, SaidAfter
  <2> QED BY <1>7, <1>9, <1>10, <1>11, <2>3, <2>4 DEF IInv
<1>14. ASSUME NEW what \in Status \cup {"values"},
              queue' = Append(queue, [name |-> n, kind |-> what]),
              what = "connected" => pc2 = "loop",
              what = "values" => pc2 = "loop"
       PROVE  IInv'
  <2> DEFINE said == [name |-> n, kind |-> what]
  <2>1. said \in Message /\ said.name = n /\ said.kind = what
    BY DEF Message
  <2> HIDE DEF said
  <2>2. /\ DOMAIN queue = 1 .. Len(queue) /\ DOMAIN queue' = 1 .. Len(queue) + 1
        /\ Len(queue) + 1 \in DOMAIN queue' /\ queue'[Len(queue) + 1] = said
        /\ \A i \in DOMAIN queue : i \in DOMAIN queue' /\ queue'[i] = queue[i]
    BY <1>3, <1>14, <2>1 DEF said
  <2>3. ASSUME NEW m \in Names, NEW i \in Nat, i <= Len(queue), ~SaidAfter(m, i)'
        PROVE  ~SaidAfter(m, i) /\ (m # n \/ what = "values")
    <3>1. ~SaidAfter(m, i)
      BY <2>2, <2>3 DEF SaidAfter
    <3>2. m # n \/ what = "values"
      <4>1. Len(queue) + 1 > i
        BY <1>3, <2>3
      <4> QED BY <2>1, <2>2, <2>3, <4>1 DEF SaidAfter
    <3> QED BY <3>1, <3>2
  <2>4. ASSUME NEW m \in Names, AtWork(m), m # n \/ what = "values" PROVE AtWork(m)'
    BY <1>12, <1>14, <2>4
  <2>5. \A m \in Listed : m \in Names
    BY DEF Listed
  <2>6. LastWordIsTrue'
    <3>1. ASSUME NEW m \in Listed, conns[m].status = "connected", ~SaidAfter(m, 0)'
          PROVE  AtWork(m)'
      <4>1. 0 \in Nat /\ 0 <= Len(queue) /\ m \in Names
        BY <1>3, <2>5
      <4>2. ~SaidAfter(m, 0) /\ (m # n \/ what = "values")
        BY <2>3, <3>1, <4>1
      <4>3. AtWork(m)
        BY <3>1, <4>2 DEF IInv, LastWordIsTrue
      <4> QED BY <2>4, <4>1, <4>2, <4>3
    <3>2. ASSUME NEW m \in Names, NEW i \in DOMAIN queue',
                 queue'[i] = [name |-> m, kind |-> "connected"], ~SaidAfter(m, i)'
          PROVE  AtWork(m)'
      <4>1. CASE i \in DOMAIN queue
        <5>1. i \in Nat /\ i <= Len(queue) /\ queue[i] = [name |-> m, kind |-> "connected"]
          BY <1>3, <2>2, <3>2, <4>1
        <5>2. ~SaidAfter(m, i) /\ (m # n \/ what = "values")
          BY <2>3, <3>2, <5>1
        <5>3. AtWork(m)
          BY <4>1, <5>1, <5>2 DEF IInv, LastWordIsTrue
        <5> QED BY <2>4, <5>2, <5>3
      <4>2. CASE i \notin DOMAIN queue
        <5>1. i = Len(queue) + 1
          BY <1>3, <2>2, <4>2
        <5>2. said = [name |-> m, kind |-> "connected"]
          BY <2>2, <3>2, <5>1
        <5>3. m = n /\ pc2 = "loop"
          BY <1>14, <2>1, <5>2
        <5> QED BY <1>5, <5>3 DEF AtWork
      <4> QED BY <4>1, <4>2
    <3> QED BY <1>1, <1>8, <3>1, <3>2 DEF LastWordIsTrue
  <2>7. ConnectedIsAlive'
    <3>1. queue' # <<>>
      BY <2>2, EmptySeq
    <3> QED BY <3>1 DEF ConnectedIsAlive
  <2> QED BY <1>7, <1>9, <1>10, <1>11, <2>6, <2>7 DEF IInv
<1> QED BY <1>2, <1>13, <1>14

-----------------------------------------------------------------------------
\* When the application opens.
LEMMA InitHolds == Init => IInv
<1> SUFFICES ASSUME Init PROVE IInv
  OBVIOUS
<1>1. Listed = {} /\ DOMAIN queue = {} /\ \A n \in Names, k \in 1 .. MaxStarts : thr[n][k].pc = "none"
  BY DEF Init, Listed, NoThread
<1>2. NoThread \in Threads /\ 0 \in 0 .. MaxGen /\ 0 \in 0 .. MaxStarts /\ 0 \in 0 .. 0
  BY Bounds DEF NoThread, Threads
<1>3. /\ conns \in [Names -> {Nothing} \cup Connections]
      /\ gen \in [Names -> 0 .. MaxGen]
      /\ thr \in [Names -> [1 .. MaxStarts -> Threads]]
      /\ starts \in 0 .. MaxStarts /\ ticks \in 0 .. starts
      /\ queue \in Seq([name : Names, kind : Status \cup {"values"}])
  BY <1>2 DEF Init
<1>4. started \in BOOLEAN /\ merging \in BOOLEAN /\ entry \in Entries /\ raised \in BOOLEAN
      /\ draining \in BOOLEAN
  BY Zenon DEF Init, Entries
<1>5. TypeOK
  BY <1>3, <1>4 DEF TypeOK
<1>6. merging = started /\ SendsWhileStarted
  BY DEF Init, SendsWhileStarted
<1>7. OfThePast /\ StopReachesListed /\ ConnectedIsAlive /\ LastWordIsTrue
  BY <1>1 DEF OfThePast, StopReachesListed, ConnectedIsAlive, LastWordIsTrue
<1> QED BY <1>5, <1>6, <1>7 DEF IInv

\* The invariant is inductive.
THEOREM InductiveInvariant == Spec => []IInv
<1>1. IInv /\ [Next]_vars => IInv'
  <2> SUFFICES ASSUME IInv, [Next]_vars PROVE IInv'
    OBVIOUS
  <2>1. CASE UNCHANGED vars
    BY <2>1 DEF vars, IInv, TypeOK, SendsWhileStarted, OfThePast, StopReachesListed, ConnectedIsAlive,
                LastWordIsTrue, Listed, Polls, Alive, AtWork, SaidAfter
  <2>2. CASE \/ \E n \in Names : AddConnection(n) \/ AddTags(n) \/ RemoveConnection(n)
             \/ \E ns \in SUBSET Names : LoadConfig(ns)
    BY <2>2, ListHolds
  <2>3. CASE EditEntry \/ StartAll \/ StopAll \/ Drain \/ MergeTick
    BY <2>3, TickHolds, StartHolds, StopHolds, DrainHolds
  <2>4. ASSUME NEW n \in Names, NEW k \in 1 .. MaxStarts, ThreadStep(n, k) PROVE IInv'
    BY <2>4, ThreadHolds
  <2> QED BY <2>1, <2>2, <2>3, <2>4 DEF Next
<1> QED BY <1>1, InitHolds, PTL DEF Spec

\* However connections are added, removed and loaded between Start All and Stop
\* All, a listed connection has one thread that polls it at most, the one Stop
\* All tells to stop.
THEOREM StopReachesEveryListed == Spec => []StopReachesListed
<1>1. IInv => StopReachesListed
  BY DEF IInv
<1> QED BY <1>1, InductiveInvariant, PTL

\* However the words of several threads of one name mix in out_queue, what is
\* shown as connected is.
THEOREM ShownConnectedIsAlive == Spec => []ConnectedIsAlive
<1>1. IInv => ConnectedIsAlive
  BY DEF IInv
<1> QED BY <1>1, InductiveInvariant, PTL

\* The chain of _merge_tick does not break while polling is started.
THEOREM ChainOfTicksHolds == Spec => []SendsWhileStarted
<1>1. IInv => SendsWhileStarted
  BY DEF IInv
<1> QED BY <1>1, InductiveInvariant, PTL

=============================================================================
