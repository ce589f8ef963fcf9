--------------------------- MODULE NetScanProofs ---------------------------
(***************************************************************************)
(* What the network tools guarantee for any targets and any pool.          *)
(***************************************************************************)
EXTENDS NetScan, SequenceTheorems, FiniteSetTheorems, TLAPS

-----------------------------------------------------------------------------
(* Sequences in which everything is once.                                  *)

\* Something put at the end of a sequence.
LEMMA Appended ==
  ASSUME NEW S, NEW s \in Seq(S), NEW x \in S
  PROVE  /\ Append(s, x) \in Seq(S)
         /\ Len(Append(s, x)) = Len(s) + 1
         /\ Append(s, x)[Len(s) + 1] = x
         /\ \A k \in DOMAIN s : Append(s, x)[k] = s[k] /\ k < Len(s) + 1
         /\ DOMAIN Append(s, x) = DOMAIN s \cup {Len(s) + 1}
         /\ Range(Append(s, x)) = Range(s) \cup {x}
         /\ Once(s) /\ x \notin Range(s) => Once(Append(s, x))
<1> DEFINE more == Append(s, x)
<1>1. /\ more \in Seq(S)
      /\ Len(more) = Len(s) + 1
      /\ more[Len(s) + 1] = x
      /\ \A k \in 1 .. Len(s) : more[k] = s[k]
      /\ Len(s) \in Nat
      /\ DOMAIN s = 1 .. Len(s) /\ DOMAIN more = 1 .. Len(s) + 1
  OBVIOUS
<1> HIDE DEF more
<1>2. DOMAIN more = DOMAIN s \cup {Len(s) + 1}
  BY <1>1
<1>3. \A k \in DOMAIN s : more[k] = s[k] /\ k < Len(s) + 1
  BY <1>1
<1>4. Range(more) = Range(s) \cup {x}
  BY <1>1, <1>2, <1>3 DEF Range
<1>5. ASSUME Once(s), x \notin Range(s) PROVE Once(more)
  BY <1>1, <1>2, <1>3, <1>5 DEF Once, Range
<1> QED BY <1>1, <1>2, <1>3, <1>4, <1>5 DEF more

\* The first of a sequence taken away.
LEMMA Taken ==
  ASSUME NEW S, NEW s \in Seq(S), s # <<>>
  PROVE  /\ Head(s) \in S /\ Tail(s) \in Seq(S)
         /\ Len(s) \in Nat \ {0} /\ Len(Tail(s)) = Len(s) - 1
         /\ Head(s) = s[1] /\ 1 \in DOMAIN s
         /\ \A k \in DOMAIN Tail(s) : k + 1 \in DOMAIN s /\ Tail(s)[k] = s[k + 1] /\ k \in Nat
         /\ Range(s) = {Head(s)} \cup Range(Tail(s))
         /\ Once(s) => Head(s) \notin Range(Tail(s)) /\ Once(Tail(s))
<1> DEFINE rest == Tail(s)
<1>1. /\ Head(s) \in S /\ rest \in Seq(S)
      /\ Len(s) \in Nat \ {0} /\ Len(rest) = Len(s) - 1
      /\ Head(s) = s[1]
      /\ DOMAIN s = 1 .. Len(s) /\ DOMAIN rest = 1 .. Len(s) - 1
      /\ \A k \in 1 .. Len(s) - 1 : rest[k] = s[k + 1]
  OBVIOUS
<1> HIDE DEF rest
<1>2. 1 \in DOMAIN s /\ \A k \in DOMAIN rest : k + 1 \in DOMAIN s /\ rest[k] = s[k + 1] /\ k \in Nat
  BY <1>1
<1>3. \A l \in DOMAIN s : l = 1 \/ (l - 1 \in DOMAIN rest /\ s[l] = rest[l - 1])
  BY <1>1
<1>4. Range(s) = {Head(s)} \cup Range(rest)
  <2>1. Range(s) \subseteq {Head(s)} \cup Range(rest)
    BY <1>1, <1>3 DEF Range
  <2>2. {Head(s)} \cup Range(rest) \subseteq Range(s)
    BY <1>1, <1>2 DEF Range
  <2> QED BY <2>1, <2>2
<1>5. ASSUME Once(s) PROVE Head(s) \notin Range(rest) /\ Once(rest)
  <2>1. \A k \in DOMAIN rest : rest[k] # s[1]
    <3> SUFFICES ASSUME NEW k \in DOMAIN rest, s[k + 1] = s[1] PROVE FALSE
      BY <1>2
    <3> QED BY <1>2, <1>5 DEF Once
  <2>2. Once(rest)
    <3> SUFFICES ASSUME NEW i \in DOMAIN rest, NEW j \in DOMAIN rest, rest[i] = rest[j]
                 PROVE  i = j
      BY DEF Once
    <3>1. i + 1 = j + 1
      BY <1>2, <1>5 DEF Once
    <3> QED BY <1>2, <3>1
  <2> QED BY <1>1, <2>1, <2>2 DEF Range
<1> QED BY <1>1, <1>2, <1>4, <1>5 DEF rest

\* A sequence of some things is one of more things, and the empty one of any.
LEMMA Widened ==
  ASSUME NEW S, NEW T, S \subseteq T
  PROVE  /\ \A s \in Seq(S) : s \in Seq(T) /\ Range(s) \subseteq S
         /\ <<>> \in Seq(T) /\ Range(<<>>) = {} /\ Once(<<>>) /\ Len(<<>>) = 0
         /\ DOMAIN <<>> = {}
<1>1. ASSUME NEW s \in Seq(S) PROVE s \in Seq(T) /\ Range(s) \subseteq S
  <2>1. Len(s) \in Nat /\ DOMAIN s = 1 .. Len(s) /\ s \in [1 .. Len(s) -> S]
    OBVIOUS
  <2>2. s \in [1 .. Len(s) -> T]
    BY <2>1
  <2> QED BY <2>1, <2>2 DEF Range
<1>2. <<>> \in Seq(T) /\ Len(<<>>) = 0 /\ DOMAIN <<>> = {}
  OBVIOUS
<1>3. Range(<<>>) = {} /\ Once(<<>>)
  BY <1>2 DEF Range, Once
<1> QED BY <1>1, <1>2, <1>3

-----------------------------------------------------------------------------
(* The answers.                                                            *)

\* An answer of the scan says how its target ended, and is not the None.
LEMMA ReplyParts ==
  ASSUME TypeOK
  PROVE  /\ \A a \in Replies : /\ a.target \in DOMAIN truth /\ a = Said(a.target)
                               /\ a.what = truth[a.target] /\ a.what \in Endable
                               /\ a # None /\ a.what # "None"
         /\ \A a, b \in Replies : a.target = b.target => a = b
         /\ \A t \in DOMAIN truth : Said(t) \in Replies /\ Said(t).target = t /\ Said(t).what = truth[t]
<1>1. \A t \in DOMAIN truth : truth[t] \in Endable
  BY DEF TypeOK
<1>2. \A what \in Endable : what # "None"
  BY DEF Endable, Endings, ProbeEndings
<1>3. \A t \in DOMAIN truth : Said(t).target = t /\ Said(t).what = truth[t]
  BY DEF Said, Answer
<1>4. None.what = "None"
  BY DEF None
<1>5. ASSUME NEW a \in Replies
      PROVE  /\ a.target \in DOMAIN truth /\ a = Said(a.target)
             /\ a.what = truth[a.target] /\ a.what \in Endable
             /\ a # None /\ a.what # "None"
  <2>1. PICK t \in DOMAIN truth : a = Said(t)
    BY DEF Replies
  <2> QED BY <1>1, <1>2, <1>3, <1>4, <2>1
<1>6. \A a, b \in Replies : a.target = b.target => a = b
  BY <1>5
<1>7. \A t \in DOMAIN truth : Said(t) \in Replies
  BY DEF Replies
<1> QED BY <1>3, <1>5, <1>6, <1>7

\* While anything of a scan is under way the button is disabled.
LEMMA UnderWay ==
  ASSUME Stage,
         thread # "none" \/ waiting # {} \/ working # {} \/ answered # {} \/ queue # <<>>
  PROVE  scanning
BY DEF Stage, PoolDone

-----------------------------------------------------------------------------
(* The inductive invariant.                                                *)

\* It holds at the start.
LEMMA InitHolds == Init => IInv
<1> SUFFICES ASSUME Init PROVE IInv
  OBVIOUS
<1> USE ScanConstants
<1>1. truth = NoAnswer /\ DOMAIN truth = {} /\ Replies = {}
  BY DEF Init, NoAnswer, Replies
<1>2. /\ \A S : <<>> \in Seq(S)
      /\ Range(<<>>) = {} /\ Once(<<>>) /\ DOMAIN <<>> = {}
  BY Widened
<1>3. TypeOK
  <2>1. truth \in [DOMAIN truth -> Endable]
    BY <1>1 DEF NoAnswer
  <2>2. scanning \in BOOLEAN /\ died \in BOOLEAN
    BY DEF Init
  <2>3. out \in Seq(Replies) /\ queue \in Seq(Replies \cup {None}) /\ rows \in Seq(Replies)
    BY <1>2 DEF Init
  <2>4. /\ tool \in Tools /\ choice = 0 /\ former = 0 /\ asked = {} /\ scans = 0
        /\ thread = "none" /\ answered = {}
    BY DEF Init
  <2>5. pumps \in Nat /\ scans \in 0 .. MaxScans
    BY <2>4 DEF Init
  <2> QED BY <2>1, <2>2, <2>3, <2>4, <2>5 DEF TypeOK
<1>4. Pool
  <2>1. IsFiniteSet({}) /\ Cardinality({}) = 0
    BY FS_EmptySet
  <2> QED BY <1>1, <2>1 DEF Pool, Init
<1>5. OnePump
  BY DEF OnePump, Init
<1>6. Stage
  BY <1>2 DEF Stage, Init, PoolDone
<1>7. OnePlace
  BY <1>2 DEF OnePlace, Init
<1>8. NothingLost
  BY <1>1, <1>2 DEF NothingLost, Init
<1>9. QueueInOrder
  BY <1>2 DEF QueueInOrder, Init
<1>10. (scanning => choice = former) /\ BestIsChosen
  BY DEF BestIsChosen, Init
<1> QED BY <1>3, <1>4, <1>5, <1>6, <1>7, <1>8, <1>9, <1>10 DEF IInv

\* A handler that starts a scan keeps it.
LEMMA StartHolds ==
  ASSUME IInv, NEW ts \in SUBSET Targets, StartScan(ts) \/ test_connection(ts)
  PROVE  IInv'
<1> USE ScanConstants
<1>1. Started(ts) /\ ~scanning
  BY DEF StartScan, test_connection
<1>2. thread = "none" /\ queue = <<>> /\ waiting = {} /\ working = {} /\ answered = {}
  BY <1>1 DEF IInv, Stage, PoolDone
<1>3. truth' = NoAnswer /\ DOMAIN truth' = {} /\ Replies' = {}
  BY <1>1 DEF Started, NoAnswer, Replies
<1>4. /\ \A S : <<>> \in Seq(S)
      /\ Range(<<>>) = {} /\ Once(<<>>) /\ DOMAIN <<>> = {}
  BY Widened
<1>5. /\ queue' = <<>> /\ out' = <<>> /\ rows' = <<>>
      /\ answered' = {} /\ working' = {} /\ waiting' = ts /\ asked' = ts
  BY <1>1, <1>2 DEF Started
<1>6. scanning' /\ ~died' /\ thread' = "scan" /\ tool' = tool
  BY <1>1 DEF Started
<1>7. TypeOK'
  <2>1. truth' \in [DOMAIN truth' -> Endable']
    BY <1>3 DEF NoAnswer
  <2>2. scanning' \in BOOLEAN /\ died' \in BOOLEAN
    BY <1>1 DEF Started
  <2>3. out' \in Seq(Replies') /\ queue' \in Seq(Replies' \cup {None}) /\ rows' \in Seq(Replies')
    BY <1>4, <1>5
  <2>4. choice' = choice /\ former' = choice /\ scans' = scans + 1 /\ scans < MaxScans
    BY <1>1 DEF Started
  <2>5. /\ choice \in Targets \cup {0} /\ tool \in Tools
        /\ scans \in 0 .. MaxScans /\ pumps \in Nat
    BY DEF IInv, TypeOK
  <2>6. scans' \in 0 .. MaxScans
    BY <2>4, <2>5
  <2>7. pumps' \in Nat
    BY <2>5 DEF StartScan, test_connection
  <2> QED BY <1>3, <1>5, <1>6, <2>1, <2>2, <2>3, <2>4, <2>5, <2>6, <2>7 DEF TypeOK
<1>8. Pool'
  <2>1. IsFiniteSet({}) /\ Cardinality({}) = 0
    BY FS_EmptySet
  <2> QED BY <1>3, <1>5, <2>1 DEF Pool
<1>9. OnePump'
  BY <1>1, <1>6 DEF OnePump, IInv, StartScan, test_connection
<1>10. Stage'
  BY <1>4, <1>5, <1>6 DEF Stage
<1>11. OnePlace'
  BY <1>4, <1>5 DEF OnePlace
<1>12. NothingLost'
  BY <1>3, <1>4, <1>5 DEF NothingLost
<1>13. QueueInOrder'
  BY <1>4, <1>5 DEF QueueInOrder
<1>14. (scanning => choice = former)' /\ BestIsChosen'
  BY <1>1, <1>6 DEF BestIsChosen, Started
<1> QED BY <1>7, <1>8, <1>9, <1>10, <1>11, <1>12, <1>13, <1>14 DEF IInv

\* A worker that takes a target keeps it.
LEMMA AskHolds ==
  ASSUME IInv, NEW t \in Targets, Ask(t)
  PROVE  IInv'
<1> USE ScanConstants
<1>1. waiting # {} /\ scanning
  BY UnderWay DEF Ask, IInv
<1>2. /\ UNCHANGED <<tool, scanning, pumps, answered, out, thread, queue, rows, choice,
                     truth, died, scans, asked, former>>
      /\ Replies' = Replies /\ Endable' = Endable
  BY DEF Ask, history, Replies, Said, Answer, Endable, Endings, ProbeEndings
<1>3. TypeOK'
  BY <1>2 DEF IInv, TypeOK
<1>4. Pool'
  <2>1. /\ IsFiniteSet(working) /\ Cardinality(working) < Workers /\ t \notin working
        /\ waiting' = waiting \ {t} /\ working' = working \cup {t} /\ t \in waiting
    BY DEF IInv, Pool, Ask
  <2>2. Cardinality(working) \in Nat
    BY <2>1, FS_CardinalityType
  <2>3. IsFiniteSet(working') /\ Cardinality(working') = Cardinality(working) + 1
    BY <2>1, FS_AddElement
  <2>4. IsFiniteSet(working') /\ Cardinality(working') <= Workers
    BY <2>1, <2>2, <2>3
  <2> QED BY <1>2, <2>1, <2>4 DEF IInv, Pool
<1>5. OnePump' /\ OnePlace' /\ QueueInOrder'
  BY <1>2 DEF IInv, OnePump, OnePlace, Once, QueueInOrder
<1>6. Stage'
  <2>1. thread # "none"
    BY <1>1 DEF IInv, Stage, PoolDone
  <2> QED BY <1>2, <2>1 DEF IInv, Stage
<1>7. NothingLost'
  BY <1>2 DEF IInv, NothingLost, Said, Answer
<1>8. (scanning => choice = former)' /\ BestIsChosen'
  BY <1>1, <1>2 DEF IInv, BestIsChosen
<1> QED BY <1>3, <1>4, <1>5, <1>6, <1>7, <1>8 DEF IInv

\* A worker whose target ended keeps it.
LEMMA FinishHolds ==
  ASSUME IInv, NEW t \in Targets, NEW what \in Endable, Finish(t, what)
  PROVE  IInv'
<1> USE ScanConstants
<1>1. working # {} /\ scanning
  BY UnderWay DEF Finish, IInv
<1>2. /\ UNCHANGED <<tool, scanning, pumps, out, thread, queue, rows, choice,
                     died, scans, asked, former, waiting>>
      /\ Endable' = Endable
  BY DEF Finish, history, Endable, Endings, ProbeEndings
<1>3. t \in working /\ t \notin DOMAIN truth /\ t \notin waiting
  BY DEF Finish, IInv, Pool
<1>4. /\ DOMAIN truth' = DOMAIN truth \cup {t}
      /\ truth'[t] = what
      /\ \A u \in DOMAIN truth : truth'[u] = truth[u]
  BY <1>3 DEF Finish
<1> DEFINE a == Answer(t, what)
<1>5. answered' = answered \cup {a} /\ working' = working \ {t}
  BY DEF Finish
<1>6. a.target = t /\ a.what = what
  BY DEF Answer
<1>7. (\A u \in DOMAIN truth : Said(u)' = Said(u)) /\ Said(t)' = a
  BY <1>4 DEF Said
<1>8. Replies' = Replies \cup {a}
  BY <1>4, <1>7 DEF Replies
<1>9. a \notin Replies /\ a # None
  <2>1. what # "None"
    BY DEF Endable, Endings, ProbeEndings
  <2> QED BY <1>3, <1>6, <2>1, ReplyParts DEF IInv, None
<1> HIDE DEF a
<1>10. answered \subseteq Replies /\ Range(out) \subseteq Replies /\ Range(queue) \subseteq Replies \cup {None} /\ Range(rows) \subseteq Replies
  BY Widened DEF IInv, TypeOK
<1>11. TypeOK'
  <2>1. truth' \in [DOMAIN truth' -> Endable']
    <3>1. \A u \in DOMAIN truth : truth[u] \in Endable
      BY DEF IInv, TypeOK
    <3>2. truth' = [u \in DOMAIN truth' |-> truth'[u]]
      BY <1>4 DEF Finish
    <3> QED BY <1>2, <1>4, <3>1, <3>2
  <2>2. out' \in Seq(Replies') /\ queue' \in Seq(Replies' \cup {None}) /\ rows' \in Seq(Replies')
    BY <1>2, <1>8, Widened DEF IInv, TypeOK
  <2>3. answered' \subseteq Replies'
    BY <1>5, <1>8, <1>10
  <2> QED BY <1>2, <2>1, <2>2, <2>3 DEF IInv, TypeOK
<1>12. Pool'
  <2>1. IsFiniteSet(working) /\ Cardinality(working) <= Workers /\ Cardinality(working) \in Nat
    BY FS_CardinalityType DEF IInv, Pool
  <2>2. IsFiniteSet(working') /\ Cardinality(working') = Cardinality(working) - 1
    BY <1>3, <1>5, <2>1, FS_RemoveElement
  <2>3. Cardinality(working') <= Workers
    BY <2>1, <2>2
  <2> QED BY <1>2, <1>3, <1>4, <1>5, <2>2, <2>3 DEF IInv, Pool
<1>13. OnePump' /\ QueueInOrder'
  BY <1>2 DEF IInv, OnePump, QueueInOrder
<1>14. Stage'
  <2>1. thread # "none"
    BY <1>1 DEF IInv, Stage, PoolDone
  <2> QED BY <1>2, <2>1 DEF IInv, Stage
<1>15. OnePlace'
  <2>1. answered' \cap (Range(out) \cup Range(queue) \cup Range(rows)) = {}
    BY <1>5, <1>9, <1>10 DEF IInv, OnePlace
  <2> QED BY <1>2, <2>1 DEF IInv, OnePlace, Once
<1>16. NothingLost'
  BY <1>2, <1>4, <1>5, <1>7 DEF IInv, NothingLost
<1>17. (scanning => choice = former)' /\ BestIsChosen'
  BY <1>1, <1>2 DEF IInv, BestIsChosen
<1> QED BY <1>11, <1>12, <1>13, <1>14, <1>15, <1>16, <1>17 DEF IInv

\* A step of the scan thread or the pump that leaves the workers alone leaves
\* the pool as it is.
LEMMA PoolStays ==
  ASSUME Pool, UNCHANGED <<waiting, working, truth, asked>>
  PROVE  Pool' /\ Replies' = Replies /\ \A t : Said(t)' = Said(t)
BY DEF Pool, Replies, Said, Answer

\* The scan thread takes an answer, and queues or keeps it or leaves.
LEMMA ReportHolds ==
  ASSUME IInv, NEW a \in answered, Report(a) \/ Collect(a)
  PROVE  IInv'
<1> USE ScanConstants
<1>1. answered # {} /\ scanning /\ scanning' = scanning
  BY UnderWay DEF Report, Collect, IInv
<1>2. UNCHANGED <<tool, scanning, pumps, waiting, working, rows, choice, truth,
                  scans, asked, former>>
  BY DEF Report, Collect, history
<1>3. Pool' /\ Replies' = Replies /\ (\A t : Said(t)' = Said(t)) /\ Endable' = Endable
  BY <1>2, PoolStays DEF IInv, Endable, Endings, ProbeEndings
<1>4. thread = "scan" /\ ~died /\ None \notin Range(queue) /\ answered' = answered \ {a}
  BY DEF Report, Collect, IInv, Stage
<1>5. a \in Replies /\ a \in Replies \cup {None} /\ a # None
  BY ReplyParts DEF IInv, TypeOK
<1>6. a \notin Range(queue) /\ a \notin Range(out) /\ a \notin Range(rows)
  BY DEF IInv, OnePlace
<1>7. out \in Seq(Replies) /\ queue \in Seq(Replies \cup {None}) /\ rows \in Seq(Replies)
  BY DEF IInv, TypeOK
<1>8. CASE a.what = "raised"
  <2>1. thread' = "raised" /\ died' /\ died' \in BOOLEAN /\ UNCHANGED <<queue, out>>
    BY <1>8 DEF Report, Collect
  <2>2. TypeOK'
    BY <1>2, <1>3, <1>4, <2>1 DEF IInv, TypeOK
  <2>3. OnePump' /\ QueueInOrder' /\ OnePlace'
    BY <1>2, <1>4, <2>1 DEF IInv, OnePump, QueueInOrder, OnePlace, Once
  <2>4. Stage'
    BY <1>1, <1>2, <1>4, <2>1 DEF IInv, Stage
  <2>5. NothingLost'
    BY <1>2, <2>1 DEF IInv, NothingLost
  <2>6. (scanning => choice = former)' /\ BestIsChosen'
    BY <1>1, <1>2 DEF IInv, BestIsChosen
  <2> QED BY <1>3, <2>2, <2>3, <2>4, <2>5, <2>6 DEF IInv
<1>9. CASE a.what # "raised" /\ Report(a)
  <2>1. queue' = Append(queue, a) /\ UNCHANGED <<thread, died, out>> /\ tool # "probe"
    BY <1>9 DEF Report
  <2>2. /\ queue' \in Seq(Replies \cup {None})
        /\ Range(queue') = Range(queue) \cup {a} /\ Once(queue')
    BY <1>5, <1>6, <1>7, <2>1, Appended DEF IInv, OnePlace
  <2>3. TypeOK'
    BY <1>2, <1>3, <1>4, <2>1, <2>2 DEF IInv, TypeOK
  <2>4. OnePump' /\ QueueInOrder'
    BY <1>2, <2>1 DEF IInv, OnePump, QueueInOrder
  <2>5. OnePlace'
    <3>1. None \notin Range(queue')
      BY <1>4, <1>5, <2>2
    <3>2. \A i \in DOMAIN queue' : queue'[i] # None
      BY <3>1 DEF Range
    <3>3. UNCHANGED <<out, rows>>
      BY <1>2, <2>1
    <3>4. Once(out') /\ Once(rows')
      BY <3>3 DEF IInv, OnePlace
    <3>5. /\ answered' \cap (Range(out') \cup Range(queue') \cup Range(rows')) = {}
          /\ Range(queue') \cap Range(rows') = {}
      BY <1>4, <1>6, <2>2, <3>3 DEF IInv, OnePlace
    <3> QED BY <2>2, <3>2, <3>4, <3>5 DEF OnePlace
  <2>6. Stage'
    BY <1>1, <1>2, <1>4, <1>5, <2>1, <2>2 DEF IInv, Stage
  <2>7. NothingLost'
    <3>1. answered \subseteq answered' \cup Range(queue') /\ Range(queue) \subseteq Range(queue')
      BY <1>4, <2>2
    <3> QED BY <1>2, <1>3, <1>9, <2>1, <2>2, <3>1 DEF IInv, NothingLost
  <2>8. (scanning => choice = former)' /\ BestIsChosen'
    BY <1>1, <1>2 DEF IInv, BestIsChosen
  <2> QED BY <1>3, <2>3, <2>4, <2>5, <2>6, <2>7, <2>8 DEF IInv
<1>10. CASE a.what # "raised" /\ Collect(a)
  <2>1. out' = Append(out, a) /\ UNCHANGED <<thread, died, queue>> /\ tool = "probe"
    BY <1>10 DEF Collect
  <2>2. out' \in Seq(Replies) /\ Range(out') = Range(out) \cup {a} /\ Once(out')
    BY <1>5, <1>6, <1>7, <2>1, Appended DEF IInv, OnePlace
  <2>3. TypeOK'
    BY <1>2, <1>3, <1>4, <2>1, <2>2 DEF IInv, TypeOK
  <2>4. OnePump' /\ QueueInOrder'
    BY <1>2, <2>1 DEF IInv, OnePump, QueueInOrder
  <2>5. OnePlace'
    <3>1. UNCHANGED <<queue, rows>>
      BY <1>2, <2>1
    <3>2. answered' \cap (Range(out') \cup Range(queue') \cup Range(rows')) = {}
      BY <1>4, <2>2, <3>1 DEF IInv, OnePlace
    <3> QED BY <2>2, <3>1, <3>2 DEF IInv, OnePlace, Once
  <2>6. Stage'
    BY <1>1, <1>2, <1>4, <2>1 DEF IInv, Stage
  <2>7. NothingLost'
    <3>1. answered \subseteq answered' \cup Range(out') /\ Range(out) \subseteq Range(out')
      BY <1>4, <2>2
    <3> QED BY <1>2, <1>3, <1>4, <1>10, <2>1, <2>2, <3>1 DEF IInv, NothingLost
  <2>8. (scanning => choice = former)' /\ BestIsChosen'
    BY <1>1, <1>2 DEF IInv, BestIsChosen
  <2> QED BY <1>3, <2>3, <2>4, <2>5, <2>6, <2>7, <2>8 DEF IInv
<1> QED BY <1>8, <1>9, <1>10

\* The scan thread that queues the None, after the results of a test, or dies
\* keeps it.
LEMMA LeaveHolds ==
  ASSUME IInv, Sentinel \/ PutResults \/ ThreadDies
  PROVE  IInv'
<1> USE ScanConstants
<1>1. /\ thread # "none" /\ scanning /\ PoolDone
      /\ thread' = "none"
      /\ UNCHANGED <<tool, scanning, pumps, waiting, working, out, rows, choice,
                     truth, died, scans, asked, former>>
  BY UnderWay DEF Sentinel, PutResults, ThreadDies, history, IInv
<1>2. /\ Pool' /\ Replies' = Replies /\ (\A t : Said(t)' = Said(t)) /\ Endable' = Endable
      /\ PoolDone'
  BY <1>1, PoolStays DEF IInv, Endable, Endings, ProbeEndings, PoolDone
<1>3. out \in Seq(Replies) /\ queue \in Seq(Replies \cup {None}) /\ rows \in Seq(Replies)
  BY DEF IInv, TypeOK
<1>4. None \notin Range(out) /\ None \notin Range(rows)
  BY <1>3, ReplyParts, Widened DEF IInv
<1>5. OnePump' /\ (scanning => choice = former)' /\ BestIsChosen'
  BY <1>1 DEF IInv, OnePump, BestIsChosen
<1>6. CASE ThreadDies
  <2>1. thread = "raised" /\ died /\ answered' = {} /\ queue' = queue
    BY <1>6 DEF ThreadDies, IInv, Stage
  <2>2. TypeOK'
    BY <1>1, <1>2, <2>1 DEF IInv, TypeOK
  <2>3. OnePlace' /\ QueueInOrder'
    BY <1>1, <2>1 DEF IInv, OnePlace, Once, QueueInOrder
  <2>4. Stage'
    BY <1>1, <1>2, <2>1 DEF IInv, Stage
  <2>5. NothingLost'
    BY <1>1, <2>1 DEF IInv, NothingLost
  <2> QED BY <1>2, <1>5, <2>2, <2>3, <2>4, <2>5 DEF IInv
<1>7. ASSUME Sentinel \/ PutResults
      PROVE  thread = "scan" /\ ~died /\ ~died' /\ answered = {} /\ answered' = {} /\ None \notin Range(queue)
  BY <1>1, <1>7 DEF Sentinel, PutResults, IInv, Stage
<1>8. CASE Sentinel
  <2>1. tool # "probe" /\ queue' = Append(queue, None) /\ out = <<>>
    BY <1>8 DEF Sentinel, IInv, Stage
  <2>2. /\ queue' \in Seq(Replies \cup {None})
        /\ Range(queue') = Range(queue) \cup {None} /\ Once(queue')
        /\ DOMAIN queue' = DOMAIN queue \cup {Len(queue) + 1} /\ Len(queue') = Len(queue) + 1
        /\ \A i \in DOMAIN queue : queue'[i] = queue[i]
    BY <1>3, <1>7, <1>8, <2>1, Appended DEF IInv, OnePlace
  <2>3. TypeOK'
    BY <1>1, <1>2, <1>7, <1>8, <2>2 DEF IInv, TypeOK
  <2>4. OnePlace'
    <3>1. \A i \in DOMAIN queue' : queue'[i] = None => i = Len(queue')
      BY <1>7, <1>8, <2>2 DEF Range
    <3>2. UNCHANGED <<out, rows>> /\ answered' = {}
      BY <1>1, <1>7, <1>8
    <3>3. Range(queue') \cap Range(rows') = {}
      BY <1>4, <2>2, <3>2 DEF IInv, OnePlace
    <3>4. Once(out') /\ Once(rows')
      BY <3>2 DEF IInv, OnePlace
    <3> QED BY <2>2, <3>1, <3>2, <3>3, <3>4 DEF OnePlace
  <2>5. Stage'
    BY <1>1, <1>2, <1>7, <1>8, <2>1, <2>2 DEF Stage
  <2>6. NothingLost'
    <3>1. Range(out) = {} /\ Range(queue) \subseteq Range(queue')
      BY <2>1, <2>2, Widened
    <3>2. None.what # "raised"
      BY DEF None
    <3> QED BY <1>1, <1>2, <1>7, <1>8, <2>2, <3>1, <3>2 DEF IInv, NothingLost
  <2>7. QueueInOrder'
    BY <1>1, <2>1 DEF QueueInOrder
  <2> QED BY <1>2, <1>5, <2>3, <2>4, <2>5, <2>6, <2>7 DEF IInv
<1>9. CASE PutResults
  <2>1. tool = "probe" /\ queue = <<>> /\ rows = <<>>
    BY <1>1, <1>9 DEF PutResults, IInv, Stage
  <2>2. PICK s \in Sorted(out) : queue' = queue \o s \o <<None>>
    BY <1>9 DEF PutResults
  <2>3. /\ s \in UNION {[1 .. m -> Range(out)] : m \in 0 .. Len(out)}
        /\ InOrder(s) /\ Range(out) \subseteq Range(s)
    BY <2>2 DEF Sorted, ByTarget
  <2>4. Len(out) \in Nat
    BY <1>3
  <2>5. PICK m \in 0 .. Len(out) : s \in [1 .. m -> Range(out)]
    BY <2>3
  <2>6. m \in Nat
    BY <2>4
  <2>7. s \in Seq(Range(out)) /\ Len(s) = m /\ DOMAIN s = 1 .. m
    BY <2>5, <2>6
  <2>8. Range(out) \subseteq Replies
    BY <1>3, Widened
  <2>9. s \in Seq(Replies) /\ s \in Seq(Replies \cup {None}) /\ Range(s) = Range(out)
    BY <2>3, <2>7, <2>8, Widened
  <2>10. queue' = Append(s, None)
    <3>1. queue \o s = s
      BY <2>1, <2>9
    <3>2. s \o <<None>> = Append(s, None)
      BY <2>9
    <3> QED BY <2>2, <3>1, <3>2
  <2>11. \A i, j \in 1 .. m : i < j => s[i].target < s[j].target
    BY <2>3, <2>7 DEF InOrder
  <2>12. \A i \in 1 .. m : s[i] \in Replies /\ s[i].target \in Nat
    <3>1. \A i \in 1 .. m : s[i] \in Replies
      BY <2>5, <2>8
    <3>2. DOMAIN truth \subseteq Nat
      BY DEF IInv, Pool, TypeOK
    <3> QED BY <3>1, <3>2, ReplyParts DEF IInv
  <2>13. Once(s)
    <3> SUFFICES ASSUME NEW i \in 1 .. m, NEW j \in 1 .. m, s[i] = s[j]
                 PROVE  i = j
      BY <2>7 DEF Once
    <3>1. i \in Int /\ j \in Int
      OBVIOUS
    <3>2. ~(i < j) /\ ~(j < i)
      BY <2>11, <2>12
    <3> QED BY <3>1, <3>2
  <2>14. /\ queue' \in Seq(Replies \cup {None})
         /\ Range(queue') = Range(out) \cup {None} /\ Once(queue')
         /\ DOMAIN queue' = 1 .. m \cup {m + 1} /\ Len(queue') = m + 1 /\ queue'[m + 1] = None
         /\ \A i \in 1 .. m : queue'[i] = s[i] /\ i < m + 1
    BY <1>4, <2>7, <2>9, <2>10, <2>13, Appended
  <2>15. \A i \in 1 .. m : queue'[i] # None
    BY <1>4, <2>5, <2>14
  <2>16. TypeOK'
    BY <1>1, <1>2, <1>7, <1>9, <2>14 DEF IInv, TypeOK
  <2>17. OnePlace'
    <3>1. \A i \in DOMAIN queue' : queue'[i] = None => i = Len(queue')
      BY <2>14, <2>15
    <3>2. UNCHANGED <<out, rows>> /\ answered' = {}
      BY <1>1, <1>7, <1>9
    <3>3. Range(queue') \cap Range(rows') = {}
      BY <2>1, <3>2, Widened
    <3>4. Once(out') /\ Once(rows')
      BY <3>2 DEF IInv, OnePlace
    <3> QED BY <2>14, <3>1, <3>2, <3>3, <3>4 DEF OnePlace
  <2>18. Stage'
    BY <1>1, <1>2, <1>7, <1>9, <2>1, <2>14 DEF Stage
  <2>19. NothingLost'
    <3>1. Range(out) \subseteq Range(queue') /\ Range(queue) = {}
      BY <2>1, <2>14, Widened
    <3>2. None.what # "raised"
      BY DEF None
    <3> QED BY <1>1, <1>2, <1>7, <1>9, <2>14, <3>1, <3>2 DEF IInv, NothingLost
  <2>20. QueueInOrder'
    <3> SUFFICES ASSUME NEW i \in DOMAIN queue', NEW j \in DOMAIN queue',
                        i < j, queue'[j] # None
                 PROVE  queue'[i].target < queue'[j].target
      BY DEF QueueInOrder
    <3>1. j # m + 1
      BY <2>14
    <3>2. i \in 1 .. m /\ j \in 1 .. m
      BY <2>6, <2>14, <3>1
    <3> QED BY <2>11, <2>14, <3>2
  <2> QED BY <1>2, <1>5, <2>16, <2>17, <2>18, <2>19, <2>20 DEF IInv
<1> QED BY <1>6, <1>8, <1>9

\* The pump of a scan keeps it.
LEMMA PumpHolds ==
  ASSUME IInv, Pump
  PROVE  IInv'
<1> USE ScanConstants
<1>1. tool # "probe" /\ UNCHANGED <<tool, waiting, working, answered, out, thread, choice, truth,
                                     died, scans, asked, former>>
  BY DEF Pump, history
<1>2. /\ Pool' /\ Replies' = Replies /\ (\A t : Said(t)' = Said(t)) /\ Endable' = Endable
      /\ PoolDone' = PoolDone
  BY <1>1, PoolStays DEF IInv, Endable, Endings, ProbeEndings, PoolDone
<1>3. out \in Seq(Replies) /\ queue \in Seq(Replies \cup {None}) /\ rows \in Seq(Replies)
  BY DEF IInv, TypeOK
<1>4. BestIsChosen' /\ QueueInOrder'
  BY <1>1 DEF BestIsChosen, QueueInOrder
<1>5. pumps = IF scanning THEN 1 ELSE 0
  BY <1>1 DEF IInv, OnePump
<1>6. scanning /\ pumps = 1
  BY <1>5 DEF Pump
<1>7. CASE queue = <<>>
  <2>1. UNCHANGED <<queue, rows, scanning, pumps>>
    BY <1>6, <1>7 DEF Pump
  <2>2. UNCHANGED vars
    BY <1>1, <2>1 DEF vars, history
  <2> QED BY <1>2, <1>4, <2>2
    DEF vars, history, IInv, TypeOK, OnePump, Stage, OnePlace, Once, NothingLost
<1>8. CASE queue # <<>>
  <2> DEFINE m == Head(queue)
  <2>1. /\ m \in Replies \cup {None} /\ Tail(queue) \in Seq(Replies \cup {None})
        /\ Len(queue) \in Nat \ {0} /\ Len(Tail(queue)) = Len(queue) - 1
        /\ m = queue[1] /\ 1 \in DOMAIN queue
        /\ \A k \in DOMAIN Tail(queue) : k + 1 \in DOMAIN queue /\ Tail(queue)[k] = queue[k + 1] /\ k \in Nat
        /\ Range(queue) = {m} \cup Range(Tail(queue))
        /\ m \notin Range(Tail(queue)) /\ Once(Tail(queue))
    BY <1>3, <1>8, Taken DEF IInv, OnePlace
  <2>2. queue' = Tail(queue) /\ Take(m)
    BY <1>8 DEF Pump, Take
  <2>3. m \notin Range(rows) /\ answered \cap Range(queue) = {}
    BY <2>1 DEF IInv, OnePlace
  <2>4. None \notin Range(rows)
    BY <1>3, ReplyParts, Widened DEF IInv
  <2> HIDE DEF m
  <2>5. queue' \in Seq(Replies \cup {None})
    BY <2>1, <2>2
  <2>6. \A i \in DOMAIN queue' : queue'[i] = None => i = Len(queue')
    <3> SUFFICES ASSUME NEW i \in DOMAIN Tail(queue), Tail(queue)[i] = None
                 PROVE  i = Len(Tail(queue))
      BY <2>2
    <3>1. i + 1 = Len(queue)
      BY <2>1 DEF IInv, OnePlace
    <3> QED BY <2>1, <3>1
  <2>7. CASE m = None
    <3>1. scanning' = FALSE /\ scanning' \in BOOLEAN
      BY <2>2, <2>7 DEF Take
    <3>2. pumps' = pumps - 1 /\ rows' = rows
      BY <2>2, <2>7 DEF Take
    <3>3. thread = "none" /\ ~died
      BY <2>1, <2>7 DEF IInv, Stage, TypeOK
    <3>4. queue' = <<>>
      <4>1. 1 = Len(queue)
        BY <2>1, <2>7 DEF IInv, OnePlace
      <4>2. Len(Tail(queue)) = Len(queue) - 1
        BY <2>1
      <4>3. Len(Tail(queue)) = 0
        BY <4>1, <4>2
      <4> QED BY <2>1, <2>2, <4>3, EmptySeq
    <3>5. Range(queue') = {} /\ Range(queue) = {None}
      BY <2>1, <2>2, <2>7, <3>4, Widened
    <3>6. TypeOK'
      BY <1>1, <1>2, <1>6, <2>5, <3>1, <3>2 DEF IInv, TypeOK
    <3>7. OnePump'
      BY <1>1, <1>6, <3>1, <3>2 DEF OnePump
    <3>8. Stage'
      BY <1>1, <1>2, <3>1, <3>3, <3>4, <3>5 DEF IInv, Stage
    <3>9. OnePlace'
      <4>1. Once(queue')
        BY <2>1, <2>2
      <4>2. Once(out') /\ Once(rows')
        BY <1>1, <3>2 DEF IInv, OnePlace
      <4>3. answered' \cap (Range(out') \cup Range(queue') \cup Range(rows')) = {}
        BY <1>1, <3>2, <3>5 DEF IInv, OnePlace
      <4> QED BY <2>6, <3>5, <4>1, <4>2, <4>3 DEF OnePlace
    <3>10. NothingLost'
      <4>1. \A t \in DOMAIN truth : Said(t) # None
        BY ReplyParts DEF IInv
      <4> QED BY <1>1, <1>2, <3>2, <3>5, <4>1 DEF IInv, NothingLost
    <3>11. (scanning => choice = former)'
      BY <3>1
    <3> QED BY <1>2, <1>4, <3>6, <3>7, <3>8, <3>9, <3>10, <3>11 DEF IInv
  <2>8. CASE m # None
    <3>1. UNCHANGED <<scanning, pumps>> /\ rows' = IF m.what = "up" THEN Append(rows, m) ELSE rows
      BY <2>2, <2>8 DEF Take
    <3>2. m \in Replies
      BY <2>1, <2>8
    <3>3. /\ rows' \in Seq(Replies) /\ Once(rows')
          /\ Range(rows') = Range(rows) \cup (IF m.what = "up" THEN {m} ELSE {})
      BY <1>3, <2>3, <3>1, <3>2, Appended DEF IInv, OnePlace
    <3>4. Range(rows') \subseteq Range(rows) \cup {m} /\ Range(queue') \subseteq Range(queue)
          /\ m \notin Range(queue') /\ None \notin Range(rows')
      BY <2>1, <2>2, <2>4, <2>8, <3>3
    <3>5. TypeOK'
      BY <1>1, <1>2, <2>5, <3>1, <3>3 DEF IInv, TypeOK
    <3>6. OnePump' /\ (scanning => choice = former)'
      BY <1>1, <3>1 DEF IInv, OnePump
    <3>7. Stage'
      <4>1. None \in Range(queue') <=> None \in Range(queue)
        BY <2>1, <2>2, <2>8
      <4> QED BY <1>1, <1>2, <1>6, <3>1, <4>1 DEF IInv, Stage
    <3>8. OnePlace'
      <4>1. Range(queue) \cap Range(rows) = {} /\ answered \cap (Range(out) \cup Range(queue) \cup Range(rows)) = {}
        BY DEF IInv, OnePlace
      <4>2. Range(queue') \cap Range(rows') = {}
        BY <3>4, <4>1
      <4>3. answered' \cap (Range(out') \cup Range(queue') \cup Range(rows')) = {}
        <5>1. m \in Range(queue)
          BY <2>1
        <5> QED BY <1>1, <3>4, <4>1, <5>1
      <4>4. Once(queue') /\ Once(out')
        BY <1>1, <2>1, <2>2 DEF IInv, OnePlace
      <4> QED BY <2>6, <3>3, <4>2, <4>3, <4>4 DEF OnePlace
    <3>9. NothingLost'
      <4>1. m.what \in {"up", "down", "raised"} /\ m.what # "raised"
        <5>1. m.what \in Endable
          BY <3>2, ReplyParts DEF IInv
        <5>2. m.what # "raised"
          BY <2>1 DEF IInv, NothingLost
        <5> QED BY <1>1, <5>1, <5>2 DEF Endable, Endings
      <4>2. \A a \in Range(out') \cup Range(queue') : a.what # "raised"
        BY <1>1, <3>4 DEF IInv, NothingLost
      <4>3. \A a \in Range(rows') : a.what \notin {"raised", "down"}
        BY <3>3 DEF IInv, NothingLost
      <4>4. ASSUME ~died, NEW t \in DOMAIN truth, truth[t] # "down"
            PROVE  Said(t) \in answered \cup Range(queue') \cup Range(rows')
                                  \cup IF thread = "scan" THEN Range(out) ELSE {}
        <5>1. Said(t) \in answered \cup Range(queue) \cup Range(rows)
                              \cup IF thread = "scan" THEN Range(out) ELSE {}
          BY <4>4 DEF IInv, NothingLost
        <5>2. Said(t).what = truth[t]
          BY ReplyParts DEF IInv
        <5>3. CASE Said(t) = m
          <6>1. m.what = "up"
            BY <4>1, <4>4, <5>2, <5>3
          <6> QED BY <3>3, <5>3, <6>1
        <5>4. CASE Said(t) # m
          BY <2>1, <2>2, <3>3, <5>1, <5>4
        <5> QED BY <5>3, <5>4
      <4> QED BY <1>1, <1>2, <4>2, <4>3, <4>4 DEF NothingLost
    <3> QED BY <1>2, <1>4, <3>3, <3>5, <3>6, <3>7, <3>8, <3>9 DEF IInv
  <2> QED BY <2>7, <2>8
<1> QED BY <1>7, <1>8

\* A sequence by target holds what it is made of, once.
LEMMA ByTargetParts ==
  ASSUME NEW S, NEW n \in Nat, NEW s \in ByTarget(S, n), \A a \in S : a.target \in Nat
  PROVE  /\ s \in Seq(S) /\ Range(s) = S /\ Once(s)
         /\ \A i, j \in DOMAIN s : s[i].target = s[j].target => i = j
<1>1. /\ s \in UNION {[1 .. m -> S] : m \in 0 .. n}
      /\ InOrder(s) /\ S \subseteq Range(s)
  BY DEF ByTarget
<1>2. PICK m \in 0 .. n : s \in [1 .. m -> S]
  BY <1>1
<1>3. m \in Nat /\ DOMAIN s = 1 .. m
  BY <1>2
<1>4. s \in Seq(S) /\ \A i \in 1 .. m : s[i] \in S
  BY <1>2, <1>3
<1>5. Range(s) = S
  BY <1>1, <1>4, Widened
<1>6. ASSUME NEW i \in 1 .. m, NEW j \in 1 .. m, s[i].target = s[j].target
      PROVE  i = j
  <2>1. i \in Int /\ j \in Int /\ s[i].target \in Nat /\ s[j].target \in Nat
    BY <1>4
  <2>2. (i < j => s[i].target < s[j].target) /\ (j < i => s[j].target < s[i].target)
    BY <1>1, <1>3 DEF InOrder
  <2>3. ~(i < j) /\ ~(j < i)
    BY <1>6, <2>1, <2>2
  <2> QED BY <2>1, <2>3
<1> QED BY <1>3, <1>4, <1>5, <1>6 DEF Once

\* The wizard's pump, which lists the results of a test and chooses, keeps it.
LEMMA ProbeHolds ==
  ASSUME IInv, ProbeDone
  PROVE  IInv'
<1> USE ScanConstants
<1>1. /\ tool = "probe" /\ queue # <<>> /\ queue' = <<>>
      /\ UNCHANGED <<tool, pumps, waiting, working, answered, out, thread, truth, died,
                     scans, asked, former>>
      /\ ~scanning'
  BY DEF ProbeDone, history
<1>2. scanning' \in BOOLEAN
  BY DEF ProbeDone
<1>3. /\ scanning /\ thread = "none" /\ ~died /\ PoolDone /\ answered = {} /\ rows = <<>>
      /\ choice = former
  BY <1>1, UnderWay DEF IInv, Stage
<1>4. /\ Pool' /\ Replies' = Replies /\ (\A t : Said(t)' = Said(t)) /\ Endable' = Endable
      /\ PoolDone' = PoolDone
  BY <1>1, PoolStays DEF IInv, Endable, Endings, ProbeEndings, PoolDone
<1>5. /\ out \in Seq(Replies) /\ queue \in Seq(Replies \cup {None})
      /\ Range(queue) \subseteq Replies \cup {None}
  BY Widened DEF IInv, TypeOK
<1>6. Range(<<>>) = {} /\ Once(<<>>) /\ DOMAIN <<>> = {} /\ \A S : <<>> \in Seq(S)
  BY Widened
<1> DEFINE S == {a \in Range(queue) : a.what \in {"ok", "answered"}}
<1>7. S \subseteq Replies
  BY <1>5 DEF None
<1>8. DOMAIN truth = asked /\ asked \subseteq Targets /\ Targets \subseteq Nat
  BY <1>3 DEF IInv, Pool, PoolDone, TypeOK
<1>9. \A a \in S : a.target \in Nat
  BY <1>7, <1>8, ReplyParts DEF IInv
<1>10. rows' \in ByTarget(S, Len(queue)) /\ Len(queue) \in Nat
  BY <1>5 DEF ProbeDone, describe
<1>11. \A t \in asked : truth[t] # "down" => Said(t) \in Range(queue)
  BY <1>3, <1>6, <1>8 DEF IInv, NothingLost
<1> HIDE DEF S
<1>12. /\ rows' \in Seq(S) /\ Range(rows') = S /\ Once(rows')
       /\ \A i, j \in DOMAIN rows' : rows'[i].target = rows'[j].target => i = j
  BY <1>9, <1>10, ByTargetParts
<1>13. rows' \in Seq(Replies)
  BY <1>7, <1>12, Widened
<1> DEFINE those(what) == {i \in DOMAIN queue : queue[i].what = what}
<1>14. ASSUME NEW what \in {"ok", "answered"}
       PROVE  /\ \A t \in Spoke(what) : \E i \in those(what) : queue[i].target = t
              /\ \A i \in those(what) : queue[i].target \in Spoke(what) /\ queue[i] # None
                                        /\ queue[i] \in S
  <2>1. ASSUME NEW t \in Spoke(what) PROVE \E i \in those(what) : queue[i].target = t
    <3>1. t \in asked /\ truth[t] = what /\ truth[t] # "down"
      BY DEF Spoke
    <3>2. Said(t) \in Range(queue) /\ Said(t).what = what /\ Said(t).target = t
      BY <1>8, <1>11, <3>1, ReplyParts DEF IInv
    <3> QED BY <3>2 DEF Range
  <2>2. ASSUME NEW i \in those(what)
        PROVE  queue[i].target \in Spoke(what) /\ queue[i] # None /\ queue[i] \in S
    <3>1. queue[i] \in Range(queue) /\ queue[i].what = what
      BY DEF Range
    <3>2. queue[i] \in S
      BY <3>1 DEF S
    <3>3. queue[i] \in Replies
      BY <1>7, <3>2
    <3> QED BY <1>8, <3>1, <3>2, <3>3, ReplyParts DEF IInv, Spoke
  <2> QED BY <2>1, <2>2
<1>15. Spoke("ok")' = Spoke("ok") /\ Spoke("answered")' = Spoke("answered")
  BY <1>1 DEF Spoke
<1>16. \A i, j \in DOMAIN queue :
         i < j /\ queue[j] # None => queue[i].target < queue[j].target
  BY <1>1 DEF IInv, QueueInOrder
<1>17. DOMAIN queue \subseteq Int
  BY <1>5
<1>18. /\ choice' \in IF rows' = <<>> THEN {choice} ELSE {queue[i].target : i \in best(queue)}
       /\ best(queue) = LET wanted == IF those("ok") # {} THEN those("ok") ELSE those("answered")
                        IN {i \in wanted : \A j \in wanted : i <= j}
  BY DEF ProbeDone, best
<1> HIDE DEF those
<1>19. ASSUME NEW what \in {"ok", "answered"}, NEW i \in those(what),
              \A j \in those(what) : i <= j, choice' = queue[i].target
       PROVE  choice' \in Spoke(what) /\ \A t \in Spoke(what) : choice' <= t
  <2>1. choice' \in Spoke(what)
    BY <1>14, <1>19
  <2>2. ASSUME NEW t \in Spoke(what) PROVE choice' <= t
    <3>1. PICK j \in those(what) : queue[j].target = t
      BY <1>14
    <3>2. i \in DOMAIN queue /\ j \in DOMAIN queue /\ i \in Int /\ j \in Int /\ i <= j /\ queue[j] # None
      BY <1>14, <1>17, <1>19 DEF those
    <3>3. choice' \in Nat /\ t \in Nat
      BY <1>8, <2>1 DEF Spoke
    <3>4. CASE i = j
      BY <1>19, <3>1, <3>3, <3>4
    <3>5. CASE i < j
      BY <1>16, <1>19, <3>1, <3>2, <3>3, <3>5
    <3> QED BY <3>2, <3>4, <3>5
  <2> QED BY <2>1, <2>2
<1>20. /\ IF Spoke("ok") # {} THEN choice' \in Spoke("ok") /\ \A t \in Spoke("ok") : choice' <= t
          ELSE IF Spoke("answered") # {}
               THEN choice' \in Spoke("answered") /\ \A t \in Spoke("answered") : choice' <= t
               ELSE choice' = former'
       /\ choice' \in Targets \cup {0}
  <2>1. CASE rows' = <<>>
    <3>1. S = {} /\ choice' = choice
      BY <1>6, <1>12, <1>18, <2>1
    <3>2. Spoke("ok") = {} /\ Spoke("answered") = {}
      BY <1>14, <3>1
    <3>3. choice \in Targets \cup {0}
      BY DEF IInv, TypeOK
    <3> QED BY <1>1, <1>3, <3>1, <3>2, <3>3
  <2>2. CASE rows' # <<>>
    <3>1. PICK i \in best(queue) : choice' = queue[i].target
      BY <1>18, <2>2
    <3>2. Spoke("ok") \subseteq Targets /\ Spoke("answered") \subseteq Targets
      BY <1>8 DEF Spoke
    <3>3. CASE those("ok") # {}
      <4>1. i \in those("ok") /\ \A j \in those("ok") : i <= j
        BY <1>18, <3>3
      <4>2. choice' \in Spoke("ok") /\ \A t \in Spoke("ok") : choice' <= t
        BY <1>19, <3>1, <4>1
      <4> QED BY <3>2, <4>2
    <3>4. CASE those("ok") = {}
      <4>1. i \in those("answered") /\ \A j \in those("answered") : i <= j
        BY <1>18, <3>4
      <4>2. choice' \in Spoke("answered") /\ \A t \in Spoke("answered") : choice' <= t
        BY <1>19, <3>1, <4>1
      <4>3. Spoke("ok") = {}
        BY <1>14, <3>4
      <4> QED BY <3>2, <4>2, <4>3
    <3> QED BY <3>3, <3>4
  <2> QED BY <2>1, <2>2
<1>21. TypeOK'
  <2>1. choice' \in Targets \cup {0}
    BY <1>20
  <2>2. queue' \in Seq(Replies' \cup {None})
    BY <1>1, <1>6
  <2> QED BY <1>1, <1>2, <1>4, <1>13, <2>1, <2>2 DEF IInv, TypeOK
<1>22. OnePump' /\ QueueInOrder'
  BY <1>1, <1>6 DEF IInv, OnePump, QueueInOrder
<1>23. Stage'
  BY <1>1, <1>3, <1>4, <1>6 DEF Stage
<1>24. OnePlace'
  BY <1>1, <1>3, <1>6, <1>12 DEF IInv, OnePlace, Once
<1>25. NothingLost'
  <2>1. \A a \in Range(rows') : a.what \notin {"raised", "down"}
    BY <1>12 DEF S
  <2>2. \A a \in Range(out') \cup Range(queue') : a.what # "raised"
    BY <1>1, <1>6 DEF IInv, NothingLost
  <2>3. ASSUME NEW t \in DOMAIN truth, truth[t] # "down" PROVE Said(t) \in Range(rows')
    <3>1. Said(t) \in Range(queue) /\ Said(t) \in Replies /\ Said(t).what # "down"
      BY <1>8, <1>11, <2>3, ReplyParts DEF IInv
    <3>2. Said(t).what # "raised" /\ Said(t).what \in ProbeEndings
      BY <1>1, <3>1, ReplyParts DEF IInv, NothingLost, Endable
    <3> QED BY <1>12, <3>1, <3>2 DEF S, ProbeEndings
  <2> QED BY <1>1, <1>4, <2>1, <2>2, <2>3 DEF NothingLost
<1>26. (scanning => choice = former)' /\ BestIsChosen'
  BY <1>1, <1>15, <1>20 DEF BestIsChosen
<1> QED BY <1>4, <1>21, <1>22, <1>23, <1>24, <1>25, <1>26 DEF IInv

\* Every step keeps it, and it holds in every reachable state.
THEOREM InductiveInvariant == Spec => []IInv
<1>1. ASSUME IInv, [Next]_vars
      PROVE  IInv'
  <2>1. CASE UNCHANGED vars
    BY <1>1, <2>1
    DEF vars, history, IInv, TypeOK, Pool, OnePump, Stage, PoolDone, OnePlace, Once, NothingLost,
        QueueInOrder, BestIsChosen, Spoke, Replies, Said, Answer, Endable, Endings, ProbeEndings
  <2>2. CASE \E ts \in SUBSET Targets \ {{}} : StartScan(ts) \/ test_connection(ts)
    BY <1>1, <2>2, StartHolds
  <2>3. CASE PoolStep
    <3>1. PICK t \in Targets :
            \/ Ask(t)
            \/ \E what \in IF tool = "probe" THEN ProbeEndings ELSE Endings : Finish(t, what)
      BY <2>3 DEF PoolStep
    <3>2. CASE Ask(t)
      BY <1>1, <3>2, AskHolds
    <3>3. CASE \E what \in IF tool = "probe" THEN ProbeEndings ELSE Endings : Finish(t, what)
      BY <1>1, <3>3, FinishHolds DEF Endable
    <3> QED BY <3>1, <3>2, <3>3
  <2>4. CASE ThreadStep
    BY <1>1, <2>4, ReportHolds, LeaveHolds DEF ThreadStep
  <2>5. CASE TkStep
    BY <1>1, <2>5, PumpHolds, ProbeHolds DEF TkStep
  <2> QED BY <1>1, <2>1, <2>2, <2>3, <2>4, <2>5 DEF Next
<1> QED BY <1>1, InitHolds, PTL DEF Spec

-----------------------------------------------------------------------------
(* What the user sees.                                                     *)

\* The table of a scan that ended holds exactly the targets that were
\* reachable, each once, for any targets and any number of workers, however
\* the answers, the thread and the pump interleave.
THEOREM TableShowsTheScan == Spec => []TableIsTheScan
<1>1. IInv => TableIsTheScan
  <2> SUFFICES ASSUME IInv, ~scanning PROVE
        /\ ~died
        /\ DOMAIN truth = asked /\ thread = "none" /\ queue = <<>>
        /\ \A i, j \in DOMAIN rows : rows[i].target = rows[j].target => i = j
        /\ {rows[i].target : i \in DOMAIN rows} = {t \in asked : truth[t] # "down"}
    BY DEF TableIsTheScan
  <2>1. ~died /\ thread = "none" /\ queue = <<>> /\ PoolDone /\ answered = {}
    BY DEF IInv, Stage
  <2>2. DOMAIN truth = asked
    BY <2>1 DEF IInv, Pool, PoolDone
  <2>3. \A i \in DOMAIN rows : rows[i] \in Range(rows) /\ rows[i] \in Replies
    BY Widened DEF IInv, TypeOK, Range
  <2>4. \A i, j \in DOMAIN rows : rows[i].target = rows[j].target => i = j
    BY <2>3, ReplyParts DEF IInv, OnePlace, Once
  <2>5. \A i \in DOMAIN rows : rows[i].target \in asked /\ truth[rows[i].target] # "down"
    BY <2>2, <2>3, ReplyParts DEF IInv, NothingLost
  <2>6. ASSUME NEW t \in asked, truth[t] # "down"
        PROVE  \E i \in DOMAIN rows : rows[i].target = t
    <3>1. Range(queue) = {}
      BY <2>1, Widened
    <3>2. Said(t) \in Range(rows) /\ Said(t).target = t
      BY <2>1, <2>2, <2>6, <3>1, ReplyParts DEF IInv, NothingLost
    <3> QED BY <3>2 DEF Range
  <2> QED BY <2>1, <2>2, <2>4, <2>5, <2>6
<1> QED BY <1>1, InductiveInvariant, PTL

\* What a connection test chooses is a function of the answers alone: the
\* lowest target that gave a word, else the lowest that answered, else what was
\* typed.
THEOREM ChoiceIsOfTheAnswers == Spec => []BestIsChosen
<1>1. IInv => BestIsChosen
  BY DEF IInv
<1> QED BY <1>1, InductiveInvariant, PTL

\* While a scan is on exactly one pump is under way, and a scan whose thread is
\* gone without an exception has its None queued for that pump to find.
THEOREM PumpAndSentinel ==
  Spec => [](OnePump /\ (scanning /\ thread = "none" /\ ~died => None \in Range(queue)))
<1>1. IInv => OnePump /\ (scanning /\ thread = "none" /\ ~died => None \in Range(queue))
  BY DEF IInv, Stage
<1> QED BY <1>1, InductiveInvariant, PTL

=============================================================================
