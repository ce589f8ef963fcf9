----------------------------- MODULE PollGroup -----------------------------
(***************************************************************************)
(* PollingGroupRunner and TagState of edge-gateway/edge_collector.py: one  *)
(* group polls its driver on its interval, reports a tag by exception or   *)
(* when its heartbeat is due, and backs off when a cycle fails.            *)
(*                                                                         *)
(* Time is counted in whole units and kept as ages and remaining sleeps.   *)
(* The cycle and the sleep go by time.monotonic; the age of a tag is       *)
(* time.time() - last_sent_ts, so it shrinks when the wall clock is set    *)
(* back.  What the PLC answers is the environment's; NaN is what a float32 *)
(* register pair may decode to.                                            *)
(*                                                                         *)
(* From the return of driver.poll to the next sleep the cycle has no await *)
(* and no other task of the process can see it half done.                  *)
(***************************************************************************)
EXTENDS Integers

CONSTANTS Tags,         \* the mqtt_keys of the group
          Readings,     \* the numbers a tag may read as
          NaN,          \* not a number: decoded, but equal and close to nothing
          None,         \* no value yet
          Deadband,     \* _tag_deadband_lookup: 0 where the config has none
          Heartbeat,    \* heartbeat_s
          Interval,     \* interval_s
          FirstBackoff, \* 2 in the code
          MaxBackoff,   \* 60 in the code
          PollMax,      \* environment: the longest driver.poll
          Lag,          \* environment: the longest the loop keeps a due task waiting
          MaxSteps      \* model bound: times the wall clock is set back

ASSUME PollGroupConstants ==
  /\ Readings \subseteq Int
  /\ NaN \notin Readings /\ None \notin Readings \cup {NaN}
  /\ Deadband \in [Tags -> Nat]
  /\ {Interval, PollMax, Lag, MaxSteps} \subseteq Nat
  /\ {Heartbeat, FirstBackoff, MaxBackoff} \subseteq Nat \ {0}
  /\ FirstBackoff <= MaxBackoff

Values == Readings \cup {NaN}

\* Ages from here on are all alike: the heartbeat is due and stays due.
AgeCap == Heartbeat + MaxSteps

VARIABLES pc,         \* "poll" (driver.poll has not returned) or "sleep"
          elapsed,    \* in "poll": time since cycle_start
          sleepLeft,  \* in "sleep": what is left of it, negative when overdue
          backoff,    \* backoff_s
          lastValue,  \* TagState.last_value
          age,        \* now - TagState.last_sent_ts
          steps,      \* history: times the wall clock was set back
          written,    \* history: the value in the last payload that was written
          latest,     \* history: the value read last
          lost,       \* history: tags marked as sent whose payload was not written
          quietFor    \* history: time since a tag was written or disturbed

timeVars == <<pc, elapsed, sleepLeft, backoff>>
vars == <<timeVars, lastValue, age, steps, written, latest, lost, quietFor>>

\* last_sent_ts.get(key, 0): a tag never sent is as old as the epoch.
Init ==
  /\ pc = "poll"
  /\ elapsed = 0
  /\ sleepLeft = 0
  /\ backoff = FirstBackoff
  /\ lastValue = [k \in Tags |-> None]
  /\ age = [k \in Tags |-> AgeCap]
  /\ steps = 0
  /\ written = [k \in Tags |-> None]
  /\ latest = [k \in Tags |-> None]
  /\ lost = {}
  /\ quietFor = [k \in Tags |-> 0]

-----------------------------------------------------------------------------
(* TagState.should_send                                                    *)

Abs(n) == IF n < 0 THEN -n ELSE n
Later(t, u) == IF t < u THEN u ELSE t
Sooner(t, u) == IF t < u THEN t ELSE u

\* abs(v - w) >= d, which is False when one of the two is not a number.
AtLeast(v, w, d) == NaN \notin {v, w} /\ Abs(v - w) >= d

Changed(k, v) == lastValue[k] = None \/ AtLeast(v, lastValue[k], Deadband[k])

\* Mutant: ">" for ">=".
Mutant_HeartbeatLate(k) == age[k] > Heartbeat

HeartbeatDue(k) == age[k] >= Heartbeat

\* The tags of an answer that go into the payload.
Due(answer) == {k \in DOMAIN answer : Changed(k, answer[k]) \/ HeartbeatDue(k)}

Put(f, S, answer) == [k \in Tags |-> IF k \in S THEN answer[k] ELSE f[k]]
Reset(f, S) == [k \in Tags |-> IF k \in S THEN 0 ELSE f[k]]

\* Mutant: every reading is remembered, also one that is not sent.
Mutant_MarkEvery(answer) ==
  /\ lastValue' = Put(lastValue, DOMAIN answer, answer)
  /\ age' = Reset(age, Due(answer))

\* should_send marks a tag as sent when it decides to send it.
Mark(answer) ==
  /\ lastValue' = Put(lastValue, Due(answer), answer)
  /\ age' = Reset(age, Due(answer))

-----------------------------------------------------------------------------
(* PollingGroupRunner.run                                                  *)

\* raw_metrics: the tags that could be read, failed ones left out.
Answers == UNION {[S -> Values] : S \in SUBSET Tags}

Sleep(t) ==
  /\ pc' = "sleep"
  /\ sleepLeft' = t
  /\ elapsed' = 0

\* The sleep ends and the next cycle calls driver.poll.
StartCycle ==
  /\ pc = "sleep"
  /\ sleepLeft <= 0
  /\ pc' = "poll"
  /\ sleepLeft' = 0
  /\ UNCHANGED <<elapsed, backoff, lastValue, age, steps, written, latest, lost, quietFor>>

\* poll returns, the payload is written, the rest of the interval is slept.
CycleDone(answer) ==
  /\ pc = "poll"
  /\ Mark(answer)
  /\ backoff' = FirstBackoff
  /\ Sleep(Later(0, Interval - elapsed))
  /\ latest' = Put(latest, DOMAIN answer, answer)
  /\ written' = Put(written, Due(answer), answer)
  /\ lost' = lost \ Due(answer)
  /\ quietFor' = Reset(quietFor, Due(answer) \cup (Tags \ DOMAIN answer))
  /\ UNCHANGED steps

\* Mutant: the back-off doubles without end.
Mutant_BackoffGrows ==
  /\ pc = "poll"
  /\ Sleep(backoff)
  /\ backoff' = 2 * backoff
  /\ quietFor' = Reset(quietFor, Tags)
  /\ UNCHANGED <<lastValue, age, steps, written, latest, lost>>

\* poll raises: disconnect, sleep, double the back-off.
CycleFails ==
  /\ pc = "poll"
  /\ Sleep(backoff)
  /\ backoff' = Sooner(2 * backoff, MaxBackoff)
  /\ quietFor' = Reset(quietFor, Tags)
  /\ UNCHANGED <<lastValue, age, steps, written, latest, lost>>

\* poll returns but buffer.enqueue raises (the disk is full, the database is
\* locked): the back-off was reset before, the tags stay marked.
EnqueueFails(answer) ==
  /\ pc = "poll"
  /\ Due(answer) # {}
  /\ Mark(answer)
  /\ Sleep(FirstBackoff)
  /\ backoff' = Sooner(2 * FirstBackoff, MaxBackoff)
  /\ latest' = Put(latest, DOMAIN answer, answer)
  /\ lost' = lost \cup Due(answer)
  /\ quietFor' = Reset(quietFor, Tags)
  /\ UNCHANGED <<steps, written>>

-----------------------------------------------------------------------------
(* Time.                                                                   *)

\* A poll returns within PollMax, a due task is run within Lag.
Tick ==
  /\ \/ /\ pc = "poll" /\ elapsed < PollMax
        /\ elapsed' = elapsed + 1
        /\ UNCHANGED sleepLeft
     \/ /\ pc = "sleep" /\ sleepLeft > -Lag
        /\ sleepLeft' = sleepLeft - 1
        /\ UNCHANGED elapsed
  /\ age' = [k \in Tags |-> Sooner(age[k] + 1, AgeCap)]
  /\ quietFor' = [k \in Tags |-> quietFor[k] + 1]
  /\ UNCHANGED <<pc, backoff, lastValue, steps, written, latest, lost>>

\* The wall clock is set back by one unit (NTP, an operator).
StepBack ==
  /\ steps < MaxSteps
  /\ steps' = steps + 1
  /\ age' = [k \in Tags |-> age[k] - 1]
  /\ UNCHANGED <<timeVars, lastValue, written, latest, lost, quietFor>>

Next ==
  \/ StartCycle
  \/ \E answer \in Answers : CycleDone(answer) \/ EnqueueFails(answer)
  \/ CycleFails
  \/ Tick
  \/ StepBack

Spec == Init /\ [][Next]_vars

-----------------------------------------------------------------------------
(* What must hold.                                                         *)

\* Types; the back-off stays between its two ends, a sleep is overdue by Lag
\* at most.
TypeOK ==
  /\ pc \in {"sleep", "poll"}
  /\ elapsed \in 0 .. PollMax
  /\ sleepLeft \in -Lag .. Later(Interval, MaxBackoff)
  /\ backoff \in FirstBackoff .. MaxBackoff
  /\ lastValue \in [Tags -> Values \cup {None}]
  /\ age \in [Tags -> -MaxSteps .. AgeCap]
  /\ steps \in 0 .. MaxSteps
  /\ written \in [Tags -> Values \cup {None}]
  /\ latest \in [Tags -> Values \cup {None}]
  /\ lost \subseteq Tags
  /\ quietFor \in [Tags -> Nat]

\* The longest a tag can go unreported: the heartbeat has just not been due
\* at one cycle and is reported by the next, or a failure is slept off first.
SilenceBound ==
  Lag + PollMax + Later(MaxBackoff, Heartbeat + Interval - 1)

\* A tag that answers in every cycle is written again within SilenceBound of
\* its last report or of the last failure of the group, whatever it reads as
\* and whether or not an enqueue failed after it was marked as sent; a wall
\* clock set back postpones the report by as much and no more.
SilenceBounded == \A k \in Tags : quietFor[k] <= SilenceBound + steps

\* What was last written of a tag is within its deadband of what was last
\* read, unless one of the two is not a number or a payload was lost since:
\* the deadband is measured from the last report and not from the last
\* reading, so small changes cannot add up unseen.
ReportedWithinDeadband ==
  \A k \in Tags \ lost :
    {written[k], latest[k]} \subseteq Readings =>
      written[k] = latest[k] \/ ~AtLeast(latest[k], written[k], Deadband[k])

-----------------------------------------------------------------------------
(* Why it holds: the inductive invariant.                                  *)

\* A tag that has been quiet for long has not been marked for as long, give
\* or take the steps of the wall clock.
AgesFollow ==
  \A k \in Tags :
    /\ age[k] >= -steps
    /\ age[k] >= quietFor[k] - steps \/ age[k] >= AgeCap - steps

\* What is left of the sleep, or spent of the poll, fits the bound.
OnSchedule ==
  \A k \in Tags :
    /\ pc = "sleep" => quietFor[k] + sleepLeft + PollMax + Lag <= SilenceBound + steps
    /\ pc = "poll" => quietFor[k] + PollMax - elapsed <= SilenceBound + steps

\* What is marked is what was written, unless it was lost; what was read since
\* is not far enough from it to be marked.
MarksFollow ==
  \A k \in Tags :
    /\ k \notin lost => written[k] = lastValue[k]
    /\ {lastValue[k], latest[k]} \subseteq Readings =>
         latest[k] = lastValue[k] \/ ~AtLeast(latest[k], lastValue[k], Deadband[k])

\* The inductive invariant of PollingGroupRunner.run.
IInv == TypeOK /\ AgesFollow /\ OnSchedule /\ MarksFollow

=============================================================================
