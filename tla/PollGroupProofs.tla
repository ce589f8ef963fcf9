-------------------------- MODULE PollGroupProofs --------------------------
(***************************************************************************)
(* Theorems about the polling group, for every set of tags and readings    *)
(* and every choice of deadbands, intervals, back-offs and delays, and     *)
(* about its session with the PLC, for every protocol and set of faults.   *)
(***************************************************************************)
EXTENDS PollGroup, DriverSession, TLAPS

\* Later is the larger of two times, Sooner the smaller.
LEMMA LaterSooner ==
  ASSUME NEW t \in Int, NEW u \in Int
  PROVE  /\ Later(t, u) \in Int /\ Later(t, u) >= t /\ Later(t, u) >= u
         /\ Later(t, u) \in {t, u}
         /\ Sooner(t, u) \in Int /\ Sooner(t, u) <= t /\ Sooner(t, u) <= u
         /\ Sooner(t, u) \in {t, u}
  BY DEF Later, Sooner

\* The numbers among the constants.
LEMMA Numbers ==
  /\ Interval \in Nat /\ PollMax \in Nat /\ Lag \in Nat /\ MaxSteps \in Nat
  /\ Heartbeat \in Nat /\ Heartbeat >= 1
  /\ FirstBackoff \in Nat /\ FirstBackoff >= 1
  /\ MaxBackoff \in Nat /\ MaxBackoff >= 1 /\ FirstBackoff <= MaxBackoff
<1>1. /\ \A n \in {Interval, PollMax, Lag, MaxSteps} : n \in Nat
      /\ \A n \in {Heartbeat, FirstBackoff, MaxBackoff} : n \in Nat \ {0}
  BY PollGroupConstants
<1> QED
  BY <1>1, PollGroupConstants

\* Where the bound comes from, as inequalities.
LEMMA BoundFacts ==
  /\ SilenceBound \in Int
  /\ SilenceBound >= Lag + PollMax + MaxBackoff
  /\ SilenceBound >= Lag + PollMax + Heartbeat + Interval - 1
  /\ AgeCap \in Nat /\ AgeCap = Heartbeat + MaxSteps
<1> DEFINE h == Heartbeat + Interval - 1
<1>1. MaxBackoff \in Int /\ h \in Int
  BY Numbers
<1>2. Later(MaxBackoff, h) \in Int /\ Later(MaxBackoff, h) >= MaxBackoff /\ Later(MaxBackoff, h) >= h
  BY <1>1, LaterSooner
<1>3. SilenceBound = Lag + PollMax + Later(MaxBackoff, h)
  BY DEF SilenceBound
<1> QED
  BY <1>2, <1>3, Numbers DEF AgeCap

\* A sleep that was just begun is in the range of the type invariant.
LEMMA SleepRange ==
  /\ 0 \in -Lag .. Later(Interval, MaxBackoff)
  /\ \A t \in 0 .. Interval : t \in -Lag .. Later(Interval, MaxBackoff)
  /\ \A t \in 0 .. MaxBackoff : t \in -Lag .. Later(Interval, MaxBackoff)
<1>1. /\ Later(Interval, MaxBackoff) \in Int
      /\ Later(Interval, MaxBackoff) >= Interval
      /\ Later(Interval, MaxBackoff) >= MaxBackoff
  BY LaterSooner, Numbers
<1> QED
  BY <1>1, Numbers

\* A fresh process satisfies the invariant.
LEMMA InitIInv == Init => IInv
<1> SUFFICES ASSUME Init PROVE IInv
  OBVIOUS
<1>1. TypeOK
  BY BoundFacts, SleepRange, Numbers DEF Init, TypeOK
<1>2. AgesFollow
  <2> SUFFICES ASSUME NEW k \in Tags
               PROVE  age[k] >= -steps /\ age[k] >= AgeCap - steps
    BY DEF AgesFollow
  <2>1. age[k] = AgeCap /\ steps = 0
    BY DEF Init
  <2> QED
    BY <2>1, BoundFacts
<1>3. OnSchedule
  <2> SUFFICES ASSUME NEW k \in Tags
               PROVE  quietFor[k] + PollMax - elapsed <= SilenceBound + steps
    BY DEF OnSchedule, Init
  <2>1. quietFor[k] = 0 /\ elapsed = 0 /\ steps = 0
    BY DEF Init
  <2> QED
    BY <2>1, BoundFacts, Numbers
<1>4. MarksFollow
  BY PollGroupConstants DEF Init, MarksFollow
<1> QED
  BY <1>1, <1>2, <1>3, <1>4 DEF IInv

-----------------------------------------------------------------------------
(* Every step preserves the invariant.                                     *)

\* What an answer changes is a function on the tags again.
LEMMA PutResetType ==
  ASSUME NEW T, NEW f \in [Tags -> T], NEW S \in SUBSET Tags, NEW answer,
         \A k \in S : answer[k] \in T
  PROVE  Put(f, S, answer) \in [Tags -> T]
  BY DEF Put

\* An answer is a function from some of the tags to values; what is due of it
\* is part of it.
LEMMA AnswerType ==
  ASSUME NEW answer \in Answers
  PROVE  /\ DOMAIN answer \subseteq Tags
         /\ \A k \in DOMAIN answer : answer[k] \in Values
         /\ Due(answer) \subseteq DOMAIN answer
  BY DEF Answers, Due

\* The variables keep their types.
LEMMA NextTypeOK ==
  ASSUME TypeOK, AgesFollow, [Next]_vars
  PROVE  TypeOK'
<1> USE DEF TypeOK
<1>1. CASE StartCycle
  BY <1>1, SleepRange, Numbers DEF StartCycle
<1>2. ASSUME NEW answer \in Answers, CycleDone(answer) PROVE TypeOK'
  <2>1. lastValue' \in [Tags -> Values \cup {None}] /\ latest' \in [Tags -> Values \cup {None}]
        /\ written' \in [Tags -> Values \cup {None}]
    BY <1>2, AnswerType, PutResetType DEF CycleDone, Mark
  <2>2. age' \in [Tags -> -MaxSteps .. AgeCap] /\ quietFor' \in [Tags -> Nat]
    BY <1>2, BoundFacts, Numbers DEF CycleDone, Mark, Reset
  <2>3. sleepLeft' \in -Lag .. Later(Interval, MaxBackoff) /\ pc' = "sleep" /\ elapsed' = 0
    <3>0. 0 \in Int /\ Interval - elapsed \in Int /\ Interval - elapsed <= Interval
      BY Numbers
    <3>1. Later(0, Interval - elapsed) \in 0 .. Interval
      BY <3>0, Numbers DEF Later
    <3> QED
      BY <1>2, <3>1, SleepRange DEF CycleDone, Sleep
  <2>4. backoff' \in FirstBackoff .. MaxBackoff /\ steps' = steps /\ lost' \subseteq Tags
    BY <1>2, Numbers DEF CycleDone
  <2> QED
    BY <2>1, <2>2, <2>3, <2>4, Numbers
<1>3. ASSUME NEW answer \in Answers, EnqueueFails(answer) PROVE TypeOK'
  <2>1. lastValue' \in [Tags -> Values \cup {None}] /\ latest' \in [Tags -> Values \cup {None}]
    BY <1>3, AnswerType, PutResetType DEF EnqueueFails, Mark
  <2>2. age' \in [Tags -> -MaxSteps .. AgeCap] /\ quietFor' \in [Tags -> Nat]
    BY <1>3, BoundFacts, Numbers DEF EnqueueFails, Mark, Reset
  <2>3. sleepLeft' \in -Lag .. Later(Interval, MaxBackoff) /\ pc' = "sleep" /\ elapsed' = 0
    BY <1>3, SleepRange, Numbers DEF EnqueueFails, Sleep
  <2>4. backoff' \in FirstBackoff .. MaxBackoff
    <3>1. 2 * FirstBackoff \in Int /\ MaxBackoff \in Int /\ 2 * FirstBackoff >= FirstBackoff
      BY Numbers
    <3>2. backoff' = Sooner(2 * FirstBackoff, MaxBackoff)
      BY <1>3 DEF EnqueueFails
    <3>3. Sooner(2 * FirstBackoff, MaxBackoff) \in FirstBackoff .. MaxBackoff
      BY <3>1, Numbers DEF Sooner
    <3> QED
      BY <3>2, <3>3
  <2>5. steps' = steps /\ lost' \subseteq Tags /\ written' = written
    BY <1>3, AnswerType DEF EnqueueFails
  <2> QED
    BY <2>1, <2>2, <2>3, <2>4, <2>5, Numbers
<1>4. CASE CycleFails
  <2>1. backoff' \in FirstBackoff .. MaxBackoff
    <3>1. 2 * backoff \in Int /\ MaxBackoff \in Int /\ 2 * backoff >= FirstBackoff
      BY Numbers
    <3>2. backoff' = Sooner(2 * backoff, MaxBackoff)
      BY <1>4 DEF CycleFails
    <3>3. Sooner(2 * backoff, MaxBackoff) \in FirstBackoff .. MaxBackoff
      BY <3>1, Numbers DEF Sooner
    <3> QED
      BY <3>2, <3>3
  <2>2. sleepLeft' \in -Lag .. Later(Interval, MaxBackoff) /\ pc' = "sleep" /\ elapsed' = 0
    BY <1>4, SleepRange, Numbers DEF CycleFails, Sleep
  <2>3. quietFor' \in [Tags -> Nat]
    BY <1>4 DEF CycleFails, Reset
  <2> QED
    BY <1>4, <2>1, <2>2, <2>3, Numbers DEF CycleFails
<1>5. CASE Tick
  <2>1. age' \in [Tags -> -MaxSteps .. AgeCap]
    <3>1. ASSUME NEW k \in Tags PROVE Sooner(age[k] + 1, AgeCap) \in -MaxSteps .. AgeCap
      <4>1. age[k] + 1 \in Int /\ AgeCap \in Int /\ age[k] + 1 >= -MaxSteps
        BY BoundFacts, Numbers
      <4> QED
        BY <4>1, BoundFacts, Numbers DEF Sooner
    <3> QED
      BY <1>5, <3>1 DEF Tick
  <2>2. quietFor' \in [Tags -> Nat]
    BY <1>5 DEF Tick
  <2>3. elapsed' \in 0 .. PollMax /\ sleepLeft' \in -Lag .. Later(Interval, MaxBackoff)
    <3>1. Later(Interval, MaxBackoff) \in Int
      BY LaterSooner, Numbers
    <3> QED
      BY <1>5, <3>1, Numbers DEF Tick
  <2> QED
    BY <1>5, <2>1, <2>2, <2>3 DEF Tick
<1>6. CASE StepBack
  <2>1. ASSUME NEW k \in Tags PROVE age[k] - 1 >= -MaxSteps
    BY <1>6, Numbers DEF StepBack, AgesFollow
  <2> QED
    BY <1>6, <2>1, BoundFacts, Numbers DEF StepBack, timeVars
<1>7. CASE UNCHANGED vars
  BY <1>7 DEF vars, timeVars
<1> QED
  BY <1>1, <1>2, <1>3, <1>4, <1>5, <1>6, <1>7 DEF Next

\* A tag is marked no later than it becomes quiet, and a step of the wall clock
\* takes one off its age and adds one to steps.
LEMMA NextAgesFollow ==
  ASSUME TypeOK, AgesFollow, [Next]_vars
  PROVE  AgesFollow'
<1> SUFFICES ASSUME NEW k \in Tags
             PROVE  /\ age'[k] >= -steps'
                    /\ \/ age'[k] >= quietFor'[k] - steps'
                       \/ age'[k] >= AgeCap - steps'
  BY DEF AgesFollow
<1> DEFINE Goal == /\ age'[k] >= -steps'
                   /\ \/ age'[k] >= quietFor'[k] - steps'
                      \/ age'[k] >= AgeCap - steps'
<1>a. /\ age[k] \in Int /\ quietFor[k] \in Nat /\ steps \in Nat
      /\ age[k] >= -steps
      /\ age[k] >= quietFor[k] - steps \/ age[k] >= AgeCap - steps
      /\ age[k] <= AgeCap
  BY BoundFacts, Numbers DEF TypeOK, AgesFollow
<1>b. AgeCap \in Nat
  BY BoundFacts
<1>1. CASE StartCycle
  BY <1>1, <1>a DEF StartCycle
<1>2. ASSUME NEW answer \in Answers, CycleDone(answer) PROVE Goal
  <2>1. /\ age'[k] = IF k \in Due(answer) THEN 0 ELSE age[k]
        /\ quietFor'[k] = IF k \in Due(answer) \cup (Tags \ DOMAIN answer)
                          THEN 0 ELSE quietFor[k]
        /\ steps' = steps
    BY <1>2 DEF CycleDone, Mark, Reset
  <2> QED
    BY <2>1, <1>a
<1>3. ASSUME NEW answer \in Answers, EnqueueFails(answer) PROVE Goal
  <2>1. /\ age'[k] = IF k \in Due(answer) THEN 0 ELSE age[k]
        /\ quietFor'[k] = 0 /\ steps' = steps
    BY <1>3 DEF EnqueueFails, Mark, Reset
  <2> QED
    BY <2>1, <1>a
<1>4. CASE CycleFails
  <2>1. age' = age /\ quietFor'[k] = 0 /\ steps' = steps
    BY <1>4 DEF CycleFails, Reset
  <2> QED
    BY <2>1, <1>a
<1>5. CASE Tick
  <2>1. /\ age'[k] = Sooner(age[k] + 1, AgeCap)
        /\ quietFor'[k] = quietFor[k] + 1 /\ steps' = steps
    BY <1>5 DEF Tick
  <2> QED
    BY <2>1, <1>a, <1>b DEF Sooner
<1>6. CASE StepBack
  <2>1. age'[k] = age[k] - 1 /\ quietFor'[k] = quietFor[k] /\ steps' = steps + 1
    BY <1>6 DEF StepBack
  <2> QED
    BY <2>1, <1>a, <1>b
<1>7. CASE UNCHANGED vars
  BY <1>7, <1>a DEF vars
<1> QED
  BY <1>1, <1>2, <1>3, <1>4, <1>5, <1>6, <1>7 DEF Next

\* No sleep is longer than what is left of the bound: a tag that is answered
\* but not reported has been marked less than a heartbeat ago.
LEMMA NextOnSchedule ==
  ASSUME TypeOK, AgesFollow, OnSchedule, [Next]_vars
  PROVE  OnSchedule'
<1> SUFFICES ASSUME NEW k \in Tags
             PROVE  /\ pc' = "sleep" =>
                         quietFor'[k] + sleepLeft' + PollMax + Lag <= SilenceBound + steps'
                    /\ pc' = "poll" =>
                         quietFor'[k] + PollMax - elapsed' <= SilenceBound + steps'
  BY DEF OnSchedule
<1> DEFINE Goal == /\ pc' = "sleep" =>
                        quietFor'[k] + sleepLeft' + PollMax + Lag <= SilenceBound + steps'
                   /\ pc' = "poll" =>
                        quietFor'[k] + PollMax - elapsed' <= SilenceBound + steps'
<1>a. /\ age[k] \in Int /\ quietFor[k] \in Nat /\ steps \in Nat /\ steps <= MaxSteps
      /\ elapsed \in Nat /\ elapsed <= PollMax
      /\ sleepLeft \in Int /\ sleepLeft >= -Lag
      /\ backoff \in Nat /\ backoff <= MaxBackoff
  <2>1. Later(Interval, MaxBackoff) \in Int
    BY LaterSooner, Numbers
  <2> QED
    BY <2>1, BoundFacts, Numbers DEF TypeOK
<1>b. /\ pc = "sleep" => quietFor[k] + sleepLeft + PollMax + Lag <= SilenceBound + steps
      /\ pc = "poll" => quietFor[k] + PollMax - elapsed <= SilenceBound + steps
  BY DEF OnSchedule
<1>1. CASE StartCycle
  <2>1. /\ pc = "sleep" /\ pc' = "poll" /\ sleepLeft <= 0
        /\ elapsed' = elapsed /\ quietFor' = quietFor /\ steps' = steps
    BY <1>1 DEF StartCycle
  <2> QED
    BY <2>1, <1>a, <1>b, BoundFacts, Numbers
<1>2. ASSUME NEW answer \in Answers, CycleDone(answer) PROVE Goal
  <2>1. /\ pc' = "sleep" /\ steps' = steps
        /\ sleepLeft' = Later(0, Interval - elapsed)
        /\ quietFor'[k] = IF k \in Due(answer) \cup (Tags \ DOMAIN answer)
                          THEN 0 ELSE quietFor[k]
    BY <1>2 DEF CycleDone, Sleep, Reset
  <2>2. sleepLeft' \in Int /\ sleepLeft' <= Interval
    BY <2>1, <1>a, Numbers DEF Later
  <2>3. CASE quietFor'[k] = 0
    BY <2>1, <2>2, <2>3, <1>a, BoundFacts, Numbers
  <2>4. CASE k \in DOMAIN answer /\ k \notin Due(answer)
    <3>1. ~(age[k] >= Heartbeat)
      BY <2>4 DEF Due, HeartbeatDue
    <3>2. age[k] >= quietFor[k] - steps \/ age[k] >= AgeCap - steps
      BY DEF AgesFollow
    <3>3. quietFor[k] <= Heartbeat - 1 + steps
      BY <3>1, <3>2, <1>a, BoundFacts, Numbers
    <3> QED
      BY <2>1, <2>2, <2>4, <3>3, <1>a, BoundFacts, Numbers
  <2> QED
    BY <2>1, <2>3, <2>4
<1>3. ASSUME NEW answer \in Answers, EnqueueFails(answer) PROVE Goal
  <2>1. /\ pc' = "sleep" /\ steps' = steps
        /\ sleepLeft' = FirstBackoff /\ quietFor'[k] = 0
    BY <1>3 DEF EnqueueFails, Sleep, Reset
  <2> QED
    BY <2>1, <1>a, BoundFacts, Numbers
<1>4. CASE CycleFails
  <2>1. /\ pc' = "sleep" /\ steps' = steps
        /\ sleepLeft' = backoff /\ quietFor'[k] = 0
    BY <1>4 DEF CycleFails, Sleep, Reset
  <2> QED
    BY <2>1, <1>a, BoundFacts, Numbers
<1>5. CASE Tick
  <2>1. /\ pc' = pc /\ steps' = steps /\ quietFor'[k] = quietFor[k] + 1
        /\ \/ pc = "poll" /\ elapsed' = elapsed + 1
           \/ pc = "sleep" /\ sleepLeft' = sleepLeft - 1
    BY <1>5 DEF Tick
  <2> QED
    BY <2>1, <1>a, <1>b, BoundFacts, Numbers
<1>6. CASE StepBack
  <2>1. /\ pc' = pc /\ steps' = steps + 1 /\ quietFor' = quietFor
        /\ elapsed' = elapsed /\ sleepLeft' = sleepLeft
    BY <1>6 DEF StepBack, timeVars
  <2> QED
    BY <2>1, <1>a, <1>b, BoundFacts, Numbers
<1>7. CASE UNCHANGED vars
  BY <1>7, <1>b DEF vars, timeVars
<1> QED
  BY <1>1, <1>2, <1>3, <1>4, <1>5, <1>6, <1>7 DEF Next

\* A tag that is answered and not marked reads like its mark.
LEMMA NextMarksFollow ==
  ASSUME TypeOK, MarksFollow, [Next]_vars
  PROVE  MarksFollow'
<1> SUFFICES ASSUME NEW k \in Tags
             PROVE  /\ k \notin lost' => written'[k] = lastValue'[k]
                    /\ {lastValue'[k], latest'[k]} \subseteq Readings =>
                         \/ latest'[k] = lastValue'[k]
                         \/ ~AtLeast(latest'[k], lastValue'[k], Deadband[k])
  BY DEF MarksFollow
<1> DEFINE Close(v, w) == {w, v} \subseteq Readings => v = w \/ ~AtLeast(v, w, Deadband[k])
           Goal == /\ k \notin lost' => written'[k] = lastValue'[k]
                   /\ Close(latest'[k], lastValue'[k])
<1>a. (k \notin lost => written[k] = lastValue[k]) /\ Close(latest[k], lastValue[k])
  BY DEF MarksFollow
<1>b. ASSUME NEW answer \in Answers, Mark(answer), latest' = Put(latest, DOMAIN answer, answer)
      PROVE  Close(latest'[k], lastValue'[k])
  <2>1. CASE k \in Due(answer)
    <3>1. latest'[k] = answer[k] /\ lastValue'[k] = answer[k]
      BY <1>b, <2>1, AnswerType DEF Mark, Put
    <3> QED
      BY <3>1
  <2>2. CASE k \in DOMAIN answer \ Due(answer)
    <3>1. latest'[k] = answer[k] /\ lastValue'[k] = lastValue[k]
      BY <1>b, <2>2 DEF Mark, Put
    <3>2. ~AtLeast(answer[k], lastValue[k], Deadband[k])
      BY <2>2 DEF Due, Changed
    <3> QED
      BY <3>1, <3>2
  <2>3. CASE k \notin DOMAIN answer
    <3>1. latest'[k] = latest[k] /\ lastValue'[k] = lastValue[k]
      BY <1>b, <2>3, AnswerType DEF Mark, Put
    <3> QED
      BY <3>1, <1>a
  <2> QED
    BY <2>1, <2>2, <2>3
<1> HIDE DEF Close
<1>1. CASE StartCycle
  BY <1>1, <1>a DEF StartCycle, Close
<1>2. ASSUME NEW answer \in Answers, CycleDone(answer) PROVE Goal
  <2>1. k \notin lost' => written'[k] = lastValue'[k]
    BY <1>2, <1>a DEF CycleDone, Mark, Put
  <2>2. Mark(answer) /\ latest' = Put(latest, DOMAIN answer, answer)
    BY <1>2 DEF CycleDone
  <2> QED
    BY <2>1, <2>2, <1>b
<1>3. ASSUME NEW answer \in Answers, EnqueueFails(answer) PROVE Goal
  <2>1. k \notin lost' => written'[k] = lastValue'[k]
    BY <1>3, <1>a DEF EnqueueFails, Mark, Put
  <2>2. Mark(answer) /\ latest' = Put(latest, DOMAIN answer, answer)
    BY <1>3 DEF EnqueueFails
  <2> QED
    BY <2>1, <2>2, <1>b
<1>4. CASE CycleFails
  BY <1>4, <1>a DEF CycleFails, Close
<1>5. CASE Tick
  BY <1>5, <1>a DEF Tick, Close
<1>6. CASE StepBack
  BY <1>6, <1>a DEF StepBack, Close
<1>7. CASE UNCHANGED vars
  BY <1>7, <1>a DEF vars, Close
<1> QED
  BY <1>1, <1>2, <1>3, <1>4, <1>5, <1>6, <1>7 DEF Next, Close

-----------------------------------------------------------------------------
(* The theorems.                                                           *)

\* The inductive invariant holds in every reachable state.
THEOREM InductiveInvariant == Spec => []IInv
<1>1. Init => IInv
  BY InitIInv
<1>2. IInv /\ [Next]_vars => IInv'
  BY NextTypeOK, NextAgesFollow, NextOnSchedule, NextMarksFollow DEF IInv
<1> QED
  BY <1>1, <1>2, PTL DEF Spec

\* A tag that answers in every cycle is reported within the bound, for every
\* heartbeat, interval, back-off, length of a poll, lag of the loop and number
\* of steps of the wall clock.
THEOREM HeartbeatHolds == Spec => []SilenceBounded
<1>1. IInv => SilenceBounded
  <2> SUFFICES ASSUME IInv, NEW k \in Tags
               PROVE  quietFor[k] <= SilenceBound + steps
    BY DEF SilenceBounded
  <2>1. /\ pc \in {"sleep", "poll"} /\ quietFor[k] \in Nat /\ steps \in Nat
        /\ elapsed \in Nat /\ elapsed <= PollMax
    BY Numbers DEF IInv, TypeOK
  <2>2. sleepLeft \in Int /\ sleepLeft >= -Lag
    <3>1. Later(Interval, MaxBackoff) \in Int
      BY LaterSooner, Numbers
    <3> QED
      BY <3>1, Numbers DEF IInv, TypeOK
  <2>3. /\ pc = "sleep" => quietFor[k] + sleepLeft + PollMax + Lag <= SilenceBound + steps
        /\ pc = "poll" => quietFor[k] + PollMax - elapsed <= SilenceBound + steps
    BY DEF IInv, OnSchedule
  <2> QED
    BY <2>1, <2>2, <2>3, BoundFacts, Numbers
<1> QED
  BY <1>1, InductiveInvariant, PTL

\* What was written of a tag is within its deadband of what was read last, for
\* every deadband and every set of numbers a tag may read as.
THEOREM ReportByException == Spec => []ReportedWithinDeadband
<1>1. IInv => ReportedWithinDeadband
  BY DEF IInv, MarksFollow, ReportedWithinDeadband
<1> QED
  BY <1>1, InductiveInvariant, PTL

-----------------------------------------------------------------------------
(* The session of the group with its PLC (DriverSession).                  *)

\* No step of the driver, the engine or the world breaks the session's
\* inductive invariant.
LEMMA SessionStep ==
  ASSUME SessionInv, [SessionNext]_sessionVars
  PROVE  SessionInv'
<1> USE DEF SessionInv, SessionTypeOK, TransportsBounded, LetGo,
            GoodTags, Fault, StartReading, group, transports
<1>1. MaxFaults \in Nat
  BY SessionConstants
<1>2. CASE UNCHANGED sessionVars
  BY <1>2 DEF sessionVars
<1>3. CASE PollConnected
  BY <1>3 DEF PollConnected
<1>4. CASE PollUnconnected
  BY <1>4 DEF PollUnconnected
<1>0. ASSUME phase = "connecting", Replace
      PROVE  leaked' \in 0 .. MaxFaults /\ leaked' <= raised
  BY <1>0, <1>1 DEF Replace
<1>5. CASE ConnectOk
  <2>1. leaked' \in 0 .. MaxFaults /\ leaked' <= raised
    BY <1>0, <1>5 DEF ConnectOk
  <2>2. /\ phase' = "reading" /\ todo' = SessionTags /\ results' = {}
        /\ connected' = TRUE /\ held' = TRUE /\ alive' = plcUp
        /\ UNCHANGED <<protocol, library, rejected, silent, plcUp, faults, raised>>
    BY <1>5 DEF ConnectOk
  <2> QED BY <2>1, <2>2
<1>6. CASE ConnectFails
  <2>1. held' \in {FALSE, held} /\ (Replace \/ UNCHANGED transports)
    BY <1>6 DEF ConnectFails, NothingOpened
  <2>2. leaked' \in 0 .. MaxFaults /\ leaked' <= raised
    BY <1>0, <1>6, <2>1 DEF ConnectFails
  <2> QED BY <1>6, <2>1, <2>2 DEF ConnectFails
<1>7. ASSUME NEW t \in SessionTags, ReadTag(t) \/ SkipTag(t)
      PROVE  SessionInv'
  <2>1. CASE ReadTag(t)
    <3>0. library # {}
      BY SessionConstants
    <3>1. t \in GoodTags
      BY <2>1, <3>0 DEF ReadTag, Raised
    <3> QED BY <2>1, <3>1 DEF ReadTag
  <2>2. CASE SkipTag(t)
    BY <2>2 DEF SkipTag
  <2> QED BY <1>7, <2>1, <2>2
<1>8. CASE SomeReadRaises
  <2>1. /\ phase = "reading" /\ phase' = "failed" /\ connected' = FALSE
        /\ UNCHANGED <<group, transports, alive, plcUp, todo, results, faults, raised>>
    BY <1>8 DEF SomeReadRaises, ReadRaises
  <2> QED BY <2>1
<1>9. CASE PollReturns
  BY <1>9 DEF PollReturns
<1>10. CASE NextCycle
  BY <1>10 DEF NextCycle
<1>11. CASE Disconnect
  BY <1>11 DEF Disconnect
<1>12. CASE EnqueueRaises
  BY <1>1, <1>12 DEF EnqueueRaises
<1>13. CASE DisconnectRaises
  <2>1. connected' \in BOOLEAN
    BY <1>13, Zenon DEF DisconnectRaises
  <2>2. /\ phase' = "idle" /\ raised' = raised + 1
        /\ faults < MaxFaults /\ faults' = faults + 1
        /\ UNCHANGED <<group, leaked, plcUp, todo, results>>
    BY <1>13 DEF DisconnectRaises
  <2>3. leaked < raised' /\ raised' \in 0 .. faults' /\ faults' \in 0 .. MaxFaults
    BY <1>1, <2>2
  <2>4. CASE held' = FALSE /\ alive' = FALSE
    <3>1. held' \in BOOLEAN /\ ~held' /\ alive' \in BOOLEAN /\ ~alive'
      BY <2>4
    <3> QED BY <2>1, <2>2, <2>3, <3>1
  <2>5. CASE UNCHANGED <<held, alive>>
    BY <2>1, <2>2, <2>3, <2>5
  <2> QED BY <1>13, <2>4, <2>5 DEF DisconnectRaises
<1>14. CASE LinkLost
  <2>1. /\ alive' = FALSE /\ plcUp' \in BOOLEAN
        /\ faults < MaxFaults /\ faults' = faults + 1
        /\ UNCHANGED <<group, phase, connected, transports, todo, results, raised>>
    BY <1>14 DEF LinkLost
  <2>2. faults' \in 0 .. MaxFaults /\ raised \in 0 .. faults'
    BY <1>1, <2>1
  <2> QED BY <2>1, <2>2
<1>15. CASE PlcComesUp
  BY <1>15 DEF PlcComesUp
<1>16. CASE ConnectRaises
  <2>1. held' \in {FALSE, TRUE, held} /\ (Replace \/ UNCHANGED transports)
    BY <1>16 DEF ConnectRaises, NothingOpened
  <2>2. leaked' \in 0 .. MaxFaults /\ leaked' <= raised
    BY <1>0, <1>16, <2>1 DEF ConnectRaises
  <2>3. connected' \in BOOLEAN /\ alive' \in BOOLEAN /\ (alive' => plcUp /\ held')
    BY <1>16 DEF ConnectRaises
  <2>4. /\ phase' = "failed" /\ faults' \in 0 .. MaxFaults /\ raised \in 0 .. faults'
        /\ UNCHANGED <<protocol, library, rejected, silent, plcUp, todo, results, raised>>
    BY <1>1, <1>16 DEF ConnectRaises
  <2> QED BY <2>1, <2>2, <2>3, <2>4
<1> QED
  BY <1>2, <1>3, <1>4, <1>5, <1>6, <1>7, <1>8, <1>9, <1>10, <1>11, <1>12, <1>13, <1>14, <1>15, <1>16
  DEF SessionNext, DriverStep

\* Whatever is lost and whatever raises, the driver leaves open no more
\* transports than disconnects raised, beside the one in use, and what it returns
\* are tags that can be read.
THEOREM TransportsDoNotPileUp == SessionSpec => []SessionInv
<1>1. SessionInit => SessionInv
  <2> SUFFICES ASSUME SessionInit PROVE SessionInv
    OBVIOUS
  <2>1. /\ ~connected /\ connected \in BOOLEAN /\ ~alive /\ alive \in BOOLEAN
        /\ ~held /\ held \in BOOLEAN /\ plcUp \in BOOLEAN
        /\ protocol \in Protocols /\ library \in Libraries
        /\ rejected \subseteq SessionTags /\ silent \subseteq SessionTags
    BY DEF SessionInit
  <2>2. /\ phase = "idle" /\ leaked = 0 /\ todo = {} /\ results = {} /\ faults = 0 /\ raised = 0
    BY DEF SessionInit
  <2>3. MaxFaults \in Nat
    BY SessionConstants
  <2> QED
    BY <2>1, <2>2, <2>3
    DEF SessionInv, SessionTypeOK, TransportsBounded, LetGo
<1>2. SessionInv /\ [SessionNext]_sessionVars => SessionInv'
  BY SessionStep
<1> QED
  BY <1>1, <1>2, PTL DEF SessionSpec

\* No driver takes what a rejected tag raises for the loss of the connection, so
\* only a lost connection or a tag that is not answered ends a poll, with every
\* protocol and library (the except clauses of the five drivers).
THEOREM BadTagsNeverEndPolls == SessionSpec => BadTagsAreSkipped
<1> DEFINE Step == phase = "reading" /\ phase' = "failed" => ~alive \/ todo \cap silent # {}
<1>1. ASSUME SessionTypeOK PROVE "own" \notin TransportLevel
  <2>1. protocol \in {"modbus", "s7", "opcua", "mc", "bacnet"}
    BY <1>1, SessionConstants DEF SessionTypeOK
  <2> QED
    BY <2>1 DEF TransportLevel
<1>2. ASSUME SessionTypeOK, NEW t \in SessionTags, ReadRaises(t) PROVE Step
  <2>1. Raised(t) \cap TransportLevel # {} /\ t \in todo
    BY <1>2 DEF ReadRaises
  <2>2. CASE alive /\ t \notin silent
    <3>1. Raised(t) \subseteq {"own"}
      BY <2>2 DEF Raised
    <3> QED
      BY <1>1, <1>2, <2>1, <3>1
  <2>3. CASE ~alive \/ t \in silent
    BY <2>1, <2>3
  <2> QED
    BY <2>2, <2>3
<1>3. ASSUME SessionTypeOK, [SessionNext]_sessionVars PROVE [Step]_sessionVars
  <2>1. CASE SomeReadRaises
    BY <1>2, <1>3, <2>1 DEF SomeReadRaises
  <2>2. CASE ~SomeReadRaises
    BY <1>3, <2>2
    DEF SessionNext, DriverStep, sessionVars, PollConnected, PollUnconnected, ConnectOk,
        ConnectFails, ConnectRaises, ReadTag, SkipTag, PollReturns, NextCycle, Disconnect,
        EnqueueRaises, DisconnectRaises, LinkLost, PlcComesUp, StartReading, group, transports
  <2> QED
    BY <2>1, <2>2
<1>4. SessionInv => SessionTypeOK
  BY DEF SessionInv
<1> QED
  BY <1>3, <1>4, TransportsDoNotPileUp, PTL DEF SessionSpec, BadTagsAreSkipped

=============================================================================
