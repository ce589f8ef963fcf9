--------------------------- MODULE ScanJobsProofs ---------------------------
(***************************************************************************)
(* What the background scans guarantee for any number of threads,          *)
(* sub-scans, batches and snapshots; and the run time and the cycles of an *)
(* OEE session, for sessions of any length and counters of any size.       *)
(***************************************************************************)
EXTENDS ScanJobs, OeeSession, SequenceTheorems, TLAPS

-----------------------------------------------------------------------------
(* Where a message is.                                                     *)

\* A message put at the end of a sequence.
LEMMA OnceAppended ==
  ASSUME NEW S, NEW seq \in Seq(S), NEW x \in S, NEW m
  PROVE  /\ m = x /\ ~Contains(seq, m) => Once(Append(seq, x), m)
         /\ m # x /\ Once(seq, m) => Once(Append(seq, x), m)
         /\ m # x /\ ~Contains(seq, m) => ~Contains(Append(seq, x), m)
<1>1. /\ Append(seq, x) \in Seq(S)
      /\ Len(Append(seq, x)) = Len(seq) + 1
      /\ Append(seq, x)[Len(seq) + 1] = x
      /\ \A k \in 1 .. Len(seq) : Append(seq, x)[k] = seq[k]
  OBVIOUS
<1>2. Len(seq) \in Nat
  OBVIOUS
<1> DEFINE more == Append(seq, x)
<1>3. DOMAIN more = 1 .. Len(seq) + 1 /\ DOMAIN seq = 1 .. Len(seq)
  OBVIOUS
<1> HIDE DEF more
<1>4. ASSUME m = x, ~Contains(seq, m) PROVE Once(more, m)
  <2>1. \A l \in DOMAIN more : more[l] = m <=> l = Len(seq) + 1
    BY <1>1, <1>2, <1>3, <1>4 DEF Contains, more
  <2>2. Len(seq) + 1 \in DOMAIN more
    BY <1>2, <1>3
  <2> QED BY <2>1, <2>2 DEF Once
<1>5. ASSUME m # x, Once(seq, m) PROVE Once(more, m)
  <2>1. PICK k \in DOMAIN seq : \A l \in DOMAIN seq : seq[l] = m <=> l = k
    BY <1>5 DEF Once
  <2>2. \A l \in DOMAIN more : more[l] = m <=> l = k
    BY <1>1, <1>2, <1>3, <1>5, <2>1 DEF more
  <2>3. k \in DOMAIN more
    BY <1>2, <1>3
  <2> QED BY <2>2, <2>3 DEF Once
<1>6. ASSUME m # x, ~Contains(seq, m) PROVE ~Contains(more, m)
  BY <1>1, <1>2, <1>3, <1>6 DEF Contains, more
<1> QED BY <1>4, <1>5, <1>6 DEF more

\* The first message of a sequence taken away.
LEMMA OnceTaken ==
  ASSUME NEW S, NEW seq \in Seq(S), seq # <<>>, NEW m
  PROVE  /\ Once(seq, m) /\ m = Head(seq) => ~Contains(Tail(seq), m)
         /\ Once(seq, m) /\ m # Head(seq) => Once(Tail(seq), m)
         /\ ~Contains(seq, m) => m # Head(seq) /\ ~Contains(Tail(seq), m)
<1> DEFINE rest == Tail(seq)
<1>1. /\ Len(seq) \in Nat \ {0}
      /\ Head(seq) = seq[1]
      /\ Len(rest) = Len(seq) - 1
      /\ DOMAIN seq = 1 .. Len(seq) /\ DOMAIN rest = 1 .. Len(seq) - 1
      /\ \A k \in 1 .. Len(seq) - 1 : rest[k] = seq[k + 1]
  OBVIOUS
<1> HIDE DEF rest
<1>2. ASSUME Once(seq, m), m = Head(seq) PROVE ~Contains(rest, m)
  <2>1. \A l \in DOMAIN seq : seq[l] = m <=> l = 1
    BY <1>1, <1>2 DEF Once
  <2> QED BY <1>1, <2>1 DEF Contains
<1>3. ASSUME Once(seq, m), m # Head(seq) PROVE Once(rest, m)
  <2>1. PICK k \in DOMAIN seq : \A l \in DOMAIN seq : seq[l] = m <=> l = k
    BY <1>3 DEF Once
  <2>2. k - 1 \in DOMAIN rest
    BY <1>1, <1>3, <2>1
  <2>3. ASSUME NEW l \in DOMAIN rest PROVE rest[l] = m <=> l = k - 1
    <3>1. l + 1 \in DOMAIN seq /\ rest[l] = seq[l + 1] /\ l \in Nat /\ k \in Nat
      BY <1>1
    <3> QED BY <2>1, <3>1
  <2> QED BY <2>2, <2>3 DEF Once
<1>4. ASSUME ~Contains(seq, m) PROVE m # Head(seq) /\ ~Contains(rest, m)
  <2>1. \A l \in 1 .. Len(seq) : seq[l] # m
    BY <1>4 DEF Contains
  <2> QED BY <1>1, <2>1 DEF Contains
<1> QED BY <1>2, <1>3, <1>4 DEF rest

\* A sequence that holds a message once contains it.
LEMMA OnceIsContained ==
  ASSUME NEW S, NEW seq \in Seq(S), NEW m, Once(seq, m)
  PROVE  Contains(seq, m)
BY DEF Once, Contains

-----------------------------------------------------------------------------
(* What the steps do.                                                      *)

\* The constants.
LEMMA Sizes ==
  /\ MaxSubs \in Nat \ {0} /\ Batches \in Nat \ {0} /\ Snapshots \in Nat \ {0}
  /\ 1 \in 1 .. Batches /\ 1 \in 1 .. Snapshots /\ 0 \in 0 .. MaxSubs
<1>1. MaxSubs \in Nat \ {0} /\ Batches \in Nat \ {0} /\ Snapshots \in Nat \ {0}
  BY ScanConstants
<1> QED BY <1>1

\* A thread that has not started.
LEMMA IdleIsDoing == Idle \in Doing
BY Sizes DEF Idle, Doing

\* The parts of a job's state.
LEMMA DoingParts ==
  ASSUME NEW d \in Doing
  PROVE  /\ d.left \in 0 .. MaxSubs /\ d.left \in Nat /\ d.left <= MaxSubs
         /\ d.snap \in 1 .. Snapshots /\ d.batch \in 1 .. Batches
         /\ d.got \subseteq 1 .. Batches /\ d.kind \in {"single", "full"}
         /\ d.pc \in {"idle", "discover", "between", "connect", "check", "poll", "sleep",
                      "report", "done"}
         /\ d = [pc |-> d.pc, kind |-> d.kind, left |-> d.left, snap |-> d.snap,
                 batch |-> d.batch, got |-> d.got]
<1>1. d.left \in 0 .. MaxSubs /\ MaxSubs \in Nat
  BY Sizes DEF Doing
<1>2. d.left \in Nat /\ d.left <= MaxSubs
  BY <1>1
<1> QED BY <1>1, <1>2 DEF Doing

\* Where a step of a scan's thread leads.
Moves(j) ==
  /\ job' = [job EXCEPT ![j] = job'[j]]
  /\ job'[j] \in Doing
  /\ job[j].pc \notin {"idle", "done"}
  /\ job'[j].pc \notin {"idle", "discover"}
  /\ job'[j].left <= job[j].left
  /\ job'[j].pc \in {"connect", "check", "poll", "sleep", "report"} => job'[j].left > 0
  /\ job'[j].pc = "sleep" => job'[j].snap < Snapshots

\* A job that is replaced by another state moves on.
LEMMA MovesTo ==
  ASSUME NEW j \in Jobs, job \in [Jobs -> Doing], job[j].pc \notin {"idle", "done"},
         NEW new \in Doing, job' = [job EXCEPT ![j] = new],
         new.pc \notin {"idle", "discover"}, new.left <= job[j].left,
         new.pc \in {"connect", "check", "poll", "sleep", "report"} => new.left > 0,
         new.pc = "sleep" => new.snap < Snapshots
  PROVE  Moves(j) /\ job'[j] = new
<1>1. job'[j] = new
  OBVIOUS
<1> QED BY <1>1 DEF Moves

\* A sub-scan that is over leaves one less to do.
LEMMA OverMoves ==
  ASSUME IInv, NEW j \in Jobs, SubScanOver(j),
         job[j].pc \in {"connect", "poll", "report"}
  PROVE  Moves(j) /\ job'[j].left = job[j].left - 1
<1> DEFINE old == job[j]
           new == [Idle EXCEPT !.kind = old.kind, !.left = old.left - 1,
                               !.pc = IF old.kind = "single" THEN "done" ELSE "between"]
<1>1. old \in Doing /\ old.left > 0 /\ job \in [Jobs -> Doing]
  BY DEF IInv, TypeOK, SubScanWithin
<1>2. job' = [job EXCEPT ![j] = new]
  BY DEF SubScanOver
<1>3. old.left \in Nat /\ old.left <= MaxSubs /\ old.kind \in {"single", "full"}
  BY <1>1, DoingParts
<1>4. new \in Doing
  <2>1. old.left - 1 \in 0 .. MaxSubs
    BY <1>1, <1>3, Sizes
  <2> QED BY <1>3, <2>1, IdleIsDoing DEF Doing
<1>5. new.pc \in {"done", "between"} /\ new.left = old.left - 1
  BY DEF Idle
<1>6. old.left - 1 <= old.left
  BY <1>3
<1> HIDE DEF new
<1> QED BY <1>1, <1>2, <1>4, <1>5, <1>6, MovesTo

\* Every step of a thread moves its job on.
LEMMA ThreadMoves ==
  ASSUME IInv, NEW j \in Jobs, ThreadStep(j)
  PROVE  Moves(j)
<1> DEFINE old == job[j]
<1>1. old \in Doing /\ job \in [Jobs -> Doing]
  BY DEF IInv, TypeOK
<1>2. /\ old.left \in 0 .. MaxSubs /\ old.left \in Nat /\ old.left <= MaxSubs
      /\ old.snap \in 1 .. Snapshots /\ old.batch \in 1 .. Batches
      /\ old.got \subseteq 1 .. Batches
  BY <1>1, DoingParts
<1>3. /\ old.pc \in {"connect", "check", "poll", "sleep", "report"} => old.left > 0
      /\ old.pc = "sleep" => old.snap < Snapshots
  BY DEF IInv, SubScanWithin
<1>4. CASE Discover(j)
  <2>1. PICK n \in 0 .. old.left : job' = [job EXCEPT ![j].left = n, ![j].pc = "between"]
    BY <1>4 DEF Discover
  <2> DEFINE new == [old EXCEPT !.left = n, !.pc = "between"]
  <2>2. n \in 0 .. MaxSubs /\ n <= old.left
    BY <1>2, Sizes
  <2>3. new \in Doing /\ new.pc = "between" /\ new.left = n
    BY <1>1, <2>2 DEF Doing
  <2>4. job' = [job EXCEPT ![j] = new]
    BY <1>1, <2>1
  <2>5. old.pc = "discover"
    BY <1>4 DEF Discover
  <2> HIDE DEF new
  <2> QED BY <1>1, <2>2, <2>3, <2>4, <2>5, MovesTo
<1>5. CASE NextSubScan(j) \/ JobDone(j) \/ Connect(j) \/ ConstructorRaises(j) \/ CheckStop(j)
  <2>1. PICK pc \in {"connect", "done", "check", "report", "poll"} :
          job' = [job EXCEPT ![j].pc = pc] /\ (pc # "done" => old.left > 0)
    BY <1>3, <1>5 DEF NextSubScan, JobDone, Connect, ConstructorRaises, CheckStop
  <2> DEFINE new == [old EXCEPT !.pc = pc]
  <2>2. new \in Doing /\ new.pc = pc /\ new.left = old.left
    BY <1>1 DEF Doing
  <2>3. job' = [job EXCEPT ![j] = new]
    BY <1>1, <2>1
  <2>4. old.pc \notin {"idle", "done"}
    BY <1>5 DEF NextSubScan, JobDone, Connect, ConstructorRaises, CheckStop
  <2>5. new.left <= old.left
    BY <1>2, <2>2
  <2> HIDE DEF new
  <2> QED BY <1>1, <2>1, <2>2, <2>3, <2>4, <2>5, MovesTo
<1>6. CASE ScanFails(j) \/ Report(j)
  BY <1>6, OverMoves DEF ScanFails, Report
<1>7. CASE ReadBatch(j)
  <2> DEFINE last == old.batch = Batches
             pc == IF ~last THEN "check" ELSE IF old.snap < Snapshots THEN "sleep" ELSE "report"
             batch == IF last THEN 1 ELSE old.batch + 1
             got == old.got \cup {old.batch}
             new == [old EXCEPT !.got = got, !.batch = batch, !.pc = pc]
  <2>1. old.pc = "poll" /\ old.left <= old.left
    BY <1>2, <1>7 DEF ReadBatch
  <2>2. batch \in 1 .. Batches /\ got \subseteq 1 .. Batches
    BY <1>2, Sizes
  <2>3. pc \in {"check", "sleep", "report"} /\ (pc = "sleep" => old.snap < Snapshots)
    OBVIOUS
  <2>4. job' = [job EXCEPT ![j] = new]
    BY <1>1, <1>7 DEF ReadBatch
  <2> HIDE DEF pc, batch, got
  <2>5. new \in Doing /\ new.pc = pc /\ new.left = old.left /\ new.snap = old.snap
    BY <1>1, <2>2, <2>3 DEF Doing
  <2> HIDE DEF new
  <2> QED BY <1>1, <1>3, <2>1, <2>3, <2>4, <2>5, MovesTo
<1>8. CASE NextSnapshot(j)
  <2> DEFINE new == [old EXCEPT !.snap = old.snap + 1, !.pc = "check"]
  <2>1. old.pc = "sleep" /\ old.snap < Snapshots /\ old.left > 0 /\ old.left <= old.left
    BY <1>2, <1>3, <1>8 DEF NextSnapshot
  <2>2. old.snap + 1 \in 1 .. Snapshots
    BY <1>2, <2>1, Sizes
  <2>3. new \in Doing /\ new.pc = "check" /\ new.left = old.left
    BY <1>1, <2>2 DEF Doing
  <2>4. job' = [job EXCEPT ![j] = new]
    BY <1>1, <1>8 DEF NextSnapshot
  <2> HIDE DEF new
  <2> QED BY <1>1, <2>1, <2>3, <2>4, MovesTo
<1> QED BY <1>4, <1>5, <1>6, <1>7, <1>8 DEF ThreadStep

\* What a step of a thread says: nothing, or that its job is done, or what the
\* sub-scan has read.
LEMMA ThreadTells ==
  ASSUME IInv, NEW j \in Jobs, ThreadStep(j)
  PROVE  \/ UNCHANGED <<queue, ended>>
         \/ /\ queue' = Append(queue, DoneMsg(j)) /\ ended' = ended
            /\ job'[j].pc = "done"
         \/ /\ queue' = Append(queue, ResultsMsg(j)) /\ ended' = ended \cup {ResultsMsg(j)}
            /\ job'[j].left = job[j].left - 1
            /\ ResultsMsg(j) \in Reports
<1>1. job \in [Jobs -> Doing] /\ job[j] \in Doing
  BY DEF IInv, TypeOK
<1>2. CASE JobDone(j)
  BY <1>1, <1>2 DEF JobDone
<1>3. CASE Report(j)
  <2>1. job[j].pc = "report" /\ job[j].left > 0
    BY <1>3 DEF Report, IInv, SubScanWithin
  <2>2. job'[j].left = job[j].left - 1
    BY <1>3, <2>1, OverMoves DEF Report
  <2>3. job[j].left \in 1 .. MaxSubs /\ job[j].got \subseteq 1 .. Batches
    BY <1>1, <2>1, DoingParts, Sizes
  <2>4. ResultsMsg(j) \in Reports
    BY <2>3 DEF ResultsMsg, Reports
  <2> QED BY <1>3, <2>2, <2>4 DEF Report
<1>4. CASE ~JobDone(j) /\ ~Report(j)
  BY <1>4 DEF ThreadStep, Discover, NextSubScan, Connect, ConstructorRaises, ScanFails,
              CheckStop, ReadBatch, NextSnapshot
<1> QED BY <1>2, <1>3, <1>4

\* What a thread leaves alone.
LEMMA ThreadLeaves ==
  ASSUME NEW j \in Jobs, ThreadStep(j)
  PROVE  UNCHANGED <<running, stop, draining, results, asked, overlap>>
BY DEF ThreadStep, Tk, Discover, NextSubScan, JobDone, Connect, ConstructorRaises, ScanFails,
       CheckStop, ReadBatch, NextSnapshot, Report

\* A job that was asked to stop reads the batch it is at and no other.
LEMMA ThreadStops ==
  ASSUME IInv, NEW j \in Jobs, ThreadStep(j)
  PROVE  /\ after' \in [Jobs -> Nat]
         /\ \A k \in Jobs \ {j} : after'[k] = after[k]
         /\ j \notin asked => after'[j] = after[j]
         /\ j \in asked => /\ after'[j] <= 1
                           /\ after'[j] > 0 => job'[j].pc \notin {"idle", "discover", "connect", "poll"}
<1>1. /\ job \in [Jobs -> Doing] /\ job[j] \in Doing
      /\ after \in [Jobs -> Nat]
  BY DEF IInv, TypeOK
<1>2. /\ j \in asked => after[j] <= 1
      /\ j \in asked /\ after[j] > 0 => job[j].pc \notin {"idle", "discover", "connect", "poll"}
      /\ j \in asked /\ job[j].pc \notin {"idle", "done"} => stop
  BY DEF IInv, StopEndsBatch, StopSeen, Active
<1>3. CASE ReadBatch(j)
  <2>1. job[j].pc = "poll"
    BY <1>3 DEF ReadBatch
  <2>2. job'[j].pc \in {"check", "sleep", "report"}
    BY <1>1, <1>3 DEF ReadBatch
  <2>3. CASE j \in asked
    <3>1. after' = [after EXCEPT ![j] = @ + 1] /\ after[j] = 0
      BY <1>1, <1>2, <1>3, <2>1, <2>3 DEF ReadBatch
    <3> QED BY <1>1, <2>2, <2>3, <3>1
  <2>4. CASE j \notin asked
    BY <1>1, <1>3, <2>4 DEF ReadBatch
  <2> QED BY <2>3, <2>4
<1>4. CASE ~ReadBatch(j)
  <2>1. after' = after
    BY <1>4 DEF ThreadStep, Discover, NextSubScan, JobDone, Connect, ConstructorRaises, ScanFails,
                CheckStop, NextSnapshot, Report
  <2>2. ASSUME j \in asked, after[j] > 0
        PROVE  job'[j].pc \notin {"idle", "discover", "connect", "poll"}
    <3>1. job[j].pc \notin {"idle", "discover", "connect", "poll"} /\ stop
      <4>1. Moves(j)
        BY ThreadMoves
      <4> QED BY <1>2, <2>2, <4>1 DEF Moves
    <3>2. CASE Report(j)
      BY <1>1, <3>2 DEF Report, SubScanOver, Idle
    <3>3. CASE JobDone(j) \/ CheckStop(j) \/ NextSnapshot(j)
      <4>1. \E pc \in {"done", "report", "check"} : job'[j].pc = pc
        <5>1. CASE JobDone(j)
          BY <1>1, <5>1 DEF JobDone
        <5>2. CASE CheckStop(j)
          BY <1>1, <3>1, <5>2 DEF CheckStop
        <5>3. CASE NextSnapshot(j)
          BY <1>1, <5>3 DEF NextSnapshot
        <5> QED BY <3>3, <5>1, <5>2, <5>3
      <4> QED BY <4>1
    <3>4. CASE Discover(j) \/ NextSubScan(j) \/ Connect(j) \/ ConstructorRaises(j) \/ ScanFails(j)
      BY <3>1, <3>4 DEF Discover, NextSubScan, Connect, ConstructorRaises, ScanFails
    <3> QED BY <1>4, <3>2, <3>3, <3>4 DEF ThreadStep
  <2> QED BY <1>1, <1>2, <2>1, <2>2
<1> QED BY <1>3, <1>4

-----------------------------------------------------------------------------
(* The invariant.                                                          *)

\* Before any scan was started.
LEMMA InitHolds == Init => IInv
<1> SUFFICES ASSUME Init PROVE IInv
  OBVIOUS
<1>1. job \in [Jobs -> Doing] /\ \A j \in Jobs : job[j] = Idle
  BY IdleIsDoing DEF Init
<1>2. Idle.pc = "idle"
  BY DEF Idle
<1>3. Active = {}
  BY <1>1, <1>2 DEF Active
<1>4. /\ DOMAIN queue = {} /\ DOMAIN results = {} /\ queue \in Seq(Messages) /\ results \in Seq(Reports)
      /\ after \in [Jobs -> Nat] /\ \A j \in Jobs : after[j] = 0
      /\ ended = {} /\ asked = {}
  BY DEF Init
<1>5. running \in BOOLEAN /\ stop \in BOOLEAN /\ overlap \in BOOLEAN /\ draining \in BOOLEAN
  BY Zenon DEF Init
<1>6. TypeOK
  BY <1>1, <1>4, <1>5 DEF TypeOK
<1>7. SubScanWithin
  BY <1>1, <1>2 DEF SubScanWithin
<1>8. StopEndsBatch /\ StopSeen
  BY <1>4 DEF StopEndsBatch, StopSeen
<1>9. ReportedOnce /\ ReportsAreOfEnded
  BY <1>4 DEF ReportedOnce, ReportsAreOfEnded
<1>10. RunningWhileActive /\ Alone
  BY <1>3 DEF RunningWhileActive, Alone
<1> QED BY <1>6, <1>7, <1>8, <1>9, <1>10 DEF IInv

\* A scan is started.
LEMMA StartHolds ==
  ASSUME IInv, NEW j \in Jobs, NEW kind \in {"single", "full"}, NEW subs \in 1 .. MaxSubs,
         NEW discovers \in BOOLEAN, StartScan(j, kind, subs, discovers)
  PROVE  IInv'
<1> DEFINE new == [Idle EXCEPT !.kind = kind, !.left = subs,
                    !.pc = IF kind = "single" THEN "connect"
                           ELSE IF discovers THEN "discover" ELSE "between"]
<1>1. job \in [Jobs -> Doing] /\ TypeOK /\ job[j].pc = "idle"
  BY DEF IInv, TypeOK, StartScan
<1>2. subs \in 0 .. MaxSubs /\ subs > 0
  BY Sizes
<1>3. new \in Doing /\ new.pc \in {"connect", "discover", "between"} /\ new.left = subs
  BY <1>2, IdleIsDoing DEF Doing, Idle
<1>4. job' = [job EXCEPT ![j] = new]
  BY DEF StartScan
<1> HIDE DEF new
<1>5. /\ job' \in [Jobs -> Doing] /\ job'[j] = new
      /\ \A k \in Jobs \ {j} : job'[k] = job[k]
  BY <1>1, <1>3, <1>4
<1>6. UNCHANGED <<queue, draining, results, ended>>
  BY DEF StartScan
<1>7. stop' = FALSE /\ running' = TRUE
  BY DEF StartScan
<1>8. /\ asked' = asked \ Active /\ after' = [k \in Jobs |-> IF k \in Active THEN 0 ELSE after[k]]
      /\ overlap' = (overlap \/ Active # {} \/ \E k \in DOMAIN queue : queue[k].kind = "job_done")
  BY DEF StartScan
<1>9. Active' = Active \cup {j} /\ j \notin Active
  BY <1>1, <1>3, <1>5 DEF Active
<1>10. TypeOK'
  <2>1. after' \in [Jobs -> Nat] /\ asked' \subseteq Jobs
    BY <1>1, <1>8 DEF TypeOK
  <2>2. running' \in BOOLEAN /\ stop' \in BOOLEAN
    BY <1>7, Zenon
  <2>3. overlap' \in BOOLEAN
    BY <1>8
  <2> QED BY <1>1, <1>5, <1>6, <2>1, <2>2, <2>3 DEF TypeOK
<1>11. SubScanWithin'
  BY <1>2, <1>3, <1>5 DEF IInv, SubScanWithin
<1>12. StopEndsBatch' /\ StopSeen'
  <2>1. ASSUME NEW k \in asked'
        PROVE  /\ after'[k] = after[k] /\ job'[k] = job[k]
               /\ k \in asked /\ k \in Jobs /\ k \notin Active'
    <3>1. k \in asked /\ k \notin Active /\ k \in Jobs
      BY <1>1, <1>8, <2>1 DEF TypeOK
    <3>2. k # j
      BY <1>1, <3>1 DEF IInv, StopSeen
    <3> QED BY <1>5, <1>8, <1>9, <3>1, <3>2
  <2>2. ASSUME NEW k \in Jobs \ asked' PROVE after'[k] = 0
    BY <1>8, <2>2 DEF IInv, StopSeen
  <2>3. StopEndsBatch'
    BY <2>1 DEF IInv, StopEndsBatch
  <2>4. StopSeen'
    BY <2>1, <2>2 DEF IInv, StopSeen
  <2> QED BY <2>3, <2>4
<1>13. ReportedOnce'
  BY <1>6 DEF IInv, ReportedOnce
<1>14. ReportsAreOfEnded'
  <2>1. ASSUME NEW m \in ended PROVE m.job \in Jobs /\ m.job # j
    BY <1>1, <2>1 DEF IInv, TypeOK, ReportsAreOfEnded, Reports
  <2> QED BY <1>5, <1>6, <2>1 DEF IInv, ReportsAreOfEnded
<1>15. RunningWhileActive' /\ Alone'
  <2>1. RunningWhileActive'
    BY <1>7 DEF RunningWhileActive
  <2>2. ASSUME ~overlap' PROVE Active' = {j} /\ \A k \in DOMAIN queue : queue[k].kind # "job_done"
    BY <1>8, <1>9, <2>2
  <2> QED BY <1>6, <2>1, <2>2 DEF Alone
<1> QED BY <1>10, <1>11, <1>12, <1>13, <1>14, <1>15 DEF IInv

\* Stop is pressed.
LEMMA StopHolds ==
  ASSUME IInv, PressStop
  PROVE  IInv'
<1>1. UNCHANGED <<running, job, queue, draining, results, ended, after, overlap>>
  BY DEF PressStop
<1>2. stop' \in BOOLEAN /\ stop'
  BY Zenon DEF PressStop
<1>3. asked' = asked \cup Active /\ Active' = Active
  BY <1>1 DEF PressStop, Active
<1>4. TypeOK'
  <2>1. asked' \subseteq Jobs
    BY <1>3 DEF IInv, TypeOK, Active
  <2> QED BY <1>1, <1>2, <2>1 DEF IInv, TypeOK
<1>5. SubScanWithin' /\ ReportedOnce' /\ ReportsAreOfEnded'
  BY <1>1 DEF IInv, SubScanWithin, ReportedOnce, ReportsAreOfEnded
<1>6. RunningWhileActive' /\ Alone'
  BY <1>1, <1>3 DEF IInv, RunningWhileActive, Alone
<1>7. \A j \in asked' \ asked : after[j] = 0 /\ job[j].pc # "idle" /\ j \in Jobs
  BY <1>3 DEF IInv, StopSeen, Active
<1>8. StopEndsBatch'
  BY <1>1, <1>7 DEF IInv, StopEndsBatch
<1>9. StopSeen'
  BY <1>1, <1>2, <1>3, <1>7 DEF IInv, StopSeen
<1> QED BY <1>4, <1>5, <1>6, <1>8, <1>9 DEF IInv

\* The list is cleared: what is on its way was not in it.
LEMMA ClearHolds ==
  ASSUME IInv, ClearResults
  PROVE  IInv'
<1>1. /\ UNCHANGED <<running, stop, job, queue, draining, asked, after, overlap>>
      /\ results' = <<>> /\ ended' = {m \in ended : ~Contains(results, m)}
  BY DEF ClearResults
<1>2. TypeOK'
  BY <1>1 DEF IInv, TypeOK
<1>3. SubScanWithin' /\ StopEndsBatch' /\ StopSeen' /\ RunningWhileActive' /\ Alone'
  BY <1>1 DEF IInv, SubScanWithin, StopEndsBatch, StopSeen, RunningWhileActive, Alone, Active
<1>4. \A m : ~Contains(results', m)
  BY <1>1 DEF Contains
<1>5. ReportedOnce'
  <2> SUFFICES ASSUME NEW m \in ended'
               PROVE  Once(queue, m) /\ ~Contains(results', m)
    BY <1>1 DEF ReportedOnce
  <2>1. m \in ended /\ ~Contains(results, m)
    BY <1>1
  <2>2. ~Once(results, m)
    <3>1. results \in Seq(Reports)
      BY DEF IInv, TypeOK
    <3> QED BY <2>1, <3>1, OnceIsContained
  <2>3. Once(queue, m)
    BY <2>1, <2>2 DEF IInv, ReportedOnce
  <2> QED BY <1>4, <2>3
<1>6. ReportsAreOfEnded'
  <2>1. ASSUME NEW k \in DOMAIN queue, queue[k].kind = "results"
        PROVE  queue[k] \in ended'
    <3>1. queue[k] \in ended /\ Contains(queue, queue[k])
      BY <2>1 DEF IInv, ReportsAreOfEnded, Contains
    <3> QED BY <1>1, <3>1 DEF IInv, ReportedOnce
  <2>2. \A m \in ended' : m \in ended
    BY <1>1
  <2> QED BY <1>1, <2>1, <2>2 DEF IInv, ReportsAreOfEnded
<1> QED BY <1>2, <1>3, <1>5, <1>6 DEF IInv

\* The pump takes a message.
LEMMA DrainHolds ==
  ASSUME IInv, Drain
  PROVE  IInv'
<1>1. UNCHANGED <<stop, job, ended, asked, after, overlap>> /\ queue # <<>>
  BY DEF Drain
<1> DEFINE m0 == Head(queue)
<1>2. /\ queue \in Seq(Messages) /\ results \in Seq(Reports) /\ ended \subseteq Reports
      /\ Len(queue) \in Nat \ {0} /\ 1 \in DOMAIN queue /\ m0 = queue[1] /\ m0 \in Messages
  BY <1>1 DEF IInv, TypeOK
<1>3. queue' = Tail(queue) /\ queue' \in Seq(Messages)
  BY <1>1, <1>2 DEF Drain
<1>4. \A k \in DOMAIN queue' : k + 1 \in DOMAIN queue /\ queue'[k] = queue[k + 1]
  BY <1>1, <1>2, <1>3
<1>5. results' = IF m0.kind = "results" THEN Append(results, m0) ELSE results
  BY DEF Drain, Listed
<1>6. m0.kind = "results" => m0 \in ended /\ m0 \in Reports
  BY <1>2 DEF IInv, ReportsAreOfEnded
<1>7. running' \in BOOLEAN /\ (m0.kind # "job_done" => running' = running)
  BY DEF Drain, IInv, TypeOK
<1>8. Active' = Active
  BY <1>1 DEF Active
<1> HIDE DEF m0
<1>9. TypeOK'
  <2>1. results' \in Seq(Reports)
    BY <1>2, <1>5, <1>6
  <2>2. draining' \in BOOLEAN
    BY DEF Drain
  <2> QED BY <1>1, <1>3, <1>7, <2>1, <2>2 DEF IInv, TypeOK
<1>10. SubScanWithin' /\ StopEndsBatch' /\ StopSeen'
  BY <1>1, <1>8 DEF IInv, SubScanWithin, StopEndsBatch, StopSeen
<1>11. ReportedOnce'
  <2> SUFFICES ASSUME NEW m \in ended
               PROVE  \/ Once(queue', m) /\ ~Contains(results', m)
                      \/ Once(results', m) /\ ~Contains(queue', m)
    BY <1>1 DEF ReportedOnce
  <2>1. m.kind = "results"
    BY <1>2 DEF Reports
  <2>2. CASE Once(queue, m) /\ ~Contains(results, m)
    <3>1. CASE m = m0
      <4>1. ~Contains(queue', m)
        BY <1>1, <1>2, <1>3, <2>2, <3>1, OnceTaken DEF m0
      <4>2. Once(results', m)
        BY <1>2, <1>5, <1>6, <2>1, <2>2, <3>1, OnceAppended
      <4> QED BY <4>1, <4>2
    <3>2. CASE m # m0
      <4>1. Once(queue', m)
        BY <1>1, <1>2, <1>3, <2>2, <3>2, OnceTaken DEF m0
      <4>2. ~Contains(results', m)
        BY <1>2, <1>5, <1>6, <2>2, <3>2, OnceAppended
      <4> QED BY <4>1, <4>2
    <3> QED BY <3>1, <3>2
  <2>3. CASE Once(results, m) /\ ~Contains(queue, m)
    <3>1. m # m0 /\ ~Contains(queue', m)
      BY <1>1, <1>2, <1>3, <2>3, OnceTaken DEF m0
    <3>2. Once(results', m)
      BY <1>2, <1>5, <1>6, <2>3, <3>1, OnceAppended
    <3> QED BY <3>1, <3>2
  <2> QED BY <2>2, <2>3 DEF IInv, ReportedOnce
<1>12. ReportsAreOfEnded'
  <2>1. \A k \in DOMAIN queue' : queue'[k].kind = "results" => queue'[k] \in ended
    BY <1>4 DEF IInv, ReportsAreOfEnded
  <2>2. \A k \in DOMAIN results' : results'[k] \in ended
    <3>1. \A k \in DOMAIN results : results[k] \in ended
      BY DEF IInv, ReportsAreOfEnded
    <3> QED BY <1>2, <1>5, <1>6, <3>1
  <2> QED BY <1>1, <2>1, <2>2 DEF IInv, ReportsAreOfEnded
<1>13. Alone'
  BY <1>1, <1>4, <1>8 DEF IInv, Alone
<1>14. RunningWhileActive'
  <2>1. ASSUME ~overlap, Active # {} PROVE m0.kind # "job_done"
    BY <1>2, <2>1 DEF IInv, Alone
  <2> QED BY <1>1, <1>7, <1>8, <2>1 DEF IInv, RunningWhileActive
<1> QED BY <1>9, <1>10, <1>11, <1>12, <1>13, <1>14 DEF IInv

\* A thread takes a step.
LEMMA ThreadHolds ==
  ASSUME IInv, NEW j \in Jobs, ThreadStep(j)
  PROVE  IInv'
<1>1. UNCHANGED <<running, stop, draining, results, asked, overlap>>
  BY ThreadLeaves
<1>2. Moves(j)
  BY ThreadMoves
<1>3. job \in [Jobs -> Doing] /\ queue \in Seq(Messages) /\ ended \subseteq Reports /\ results \in Seq(Reports)
  BY DEF IInv, TypeOK
<1>4. /\ job' \in [Jobs -> Doing] /\ \A k \in Jobs \ {j} : job'[k] = job[k]
      /\ job'[j] \in Doing
  BY <1>2, <1>3 DEF Moves
<1>5. j \in Active /\ Active' \subseteq Active
  BY <1>2, <1>4 DEF Moves, Active
<1>6. SubScanWithin'
  BY <1>2, <1>4 DEF IInv, SubScanWithin, Moves
<1>7. StopEndsBatch'
  <2> SUFFICES ASSUME NEW k \in asked PROVE after'[k] <= 1
    BY <1>1 DEF StopEndsBatch
  <2>1. after[k] <= 1 /\ k \in Jobs
    BY DEF IInv, TypeOK, StopEndsBatch
  <2> QED BY <2>1, ThreadStops
<1>8. StopSeen'
  <2>1. asked \subseteq Jobs
    BY DEF IInv, TypeOK
  <2>2. ASSUME NEW k \in asked
        PROVE  /\ job'[k].pc # "idle" /\ (k \in Active' => stop)
               /\ after'[k] > 0 => job'[k].pc \notin {"idle", "discover", "connect", "poll"}
    <3>1. CASE k = j
      BY <1>2, <1>5, <2>2, <3>1, ThreadStops DEF IInv, StopSeen, Moves
    <3>2. CASE k # j
      BY <1>4, <1>5, <2>1, <2>2, <3>2, ThreadStops DEF IInv, StopSeen
    <3> QED BY <3>1, <3>2
  <2>3. ASSUME NEW k \in Jobs \ asked PROVE after'[k] = 0
    BY <2>3, ThreadStops DEF IInv, StopSeen
  <2> QED BY <1>1, <2>2, <2>3 DEF StopSeen
<1>9. DoneMsg(j) \in Messages /\ DoneMsg(j).kind = "job_done" /\ ResultsMsg(j).kind = "results"
  BY DEF DoneMsg, Messages, ResultsMsg
<1>10. RunningWhileActive'
  BY <1>1, <1>5 DEF IInv, RunningWhileActive
<1>11. \A m \in ended : m.job \in Jobs /\ m.kind = "results" /\ m.sub \in Nat
  BY <1>3, Sizes DEF Reports
<1>12. \A m \in ended : job'[m.job].pc \notin {"idle", "discover"} /\ m.sub > job'[m.job].left
  <2> SUFFICES ASSUME NEW m \in ended
               PROVE  job'[m.job].pc \notin {"idle", "discover"} /\ m.sub > job'[m.job].left
    OBVIOUS
  <2>1. /\ job[m.job].pc \notin {"idle", "discover"} /\ m.sub > job[m.job].left
        /\ m.job \in Jobs /\ m.sub \in Nat
    BY <1>11 DEF IInv, ReportsAreOfEnded
  <2>2. CASE m.job = j
    <3>1. job[j].left \in Nat /\ job'[j].left \in Nat
      BY <1>3, <1>4, DoingParts
    <3> QED BY <1>2, <2>1, <2>2, <3>1 DEF Moves
  <2>3. CASE m.job # j
    BY <1>4, <2>1, <2>3
  <2> QED BY <2>2, <2>3
<1>13. CASE UNCHANGED <<queue, ended>>
  <2>1. TypeOK'
    BY <1>1, <1>4, <1>13, ThreadStops DEF IInv, TypeOK
  <2>2. ReportedOnce' /\ ReportsAreOfEnded'
    BY <1>1, <1>12, <1>13 DEF IInv, ReportedOnce, ReportsAreOfEnded
  <2>3. Alone'
    BY <1>1, <1>5, <1>13 DEF IInv, Alone
  <2> QED BY <1>6, <1>7, <1>8, <1>10, <2>1, <2>2, <2>3 DEF IInv
<1>14. CASE /\ queue' = Append(queue, DoneMsg(j)) /\ ended' = ended
            /\ job'[j].pc = "done"
  <2>1. queue' \in Seq(Messages)
    BY <1>3, <1>9, <1>14
  <2>2. TypeOK'
    BY <1>1, <1>4, <1>14, <2>1, ThreadStops DEF IInv, TypeOK
  <2>3. ReportedOnce'
    <3> SUFFICES ASSUME NEW m \in ended
                 PROVE  \/ Once(queue', m) /\ ~Contains(results, m)
                        \/ Once(results, m) /\ ~Contains(queue', m)
      BY <1>1, <1>14 DEF ReportedOnce
    <3>1. m # DoneMsg(j)
      BY <1>9, <1>11
    <3>2. /\ Once(queue, m) => Once(queue', m)
          /\ ~Contains(queue, m) => ~Contains(queue', m)
      BY <1>3, <1>9, <1>14, <3>1, OnceAppended
    <3> QED BY <3>2 DEF IInv, ReportedOnce
  <2>4. ReportsAreOfEnded'
    <3>1. \A k \in DOMAIN queue' : queue'[k].kind = "results" => queue'[k] \in ended
      <4>1. \A k \in DOMAIN queue : queue[k].kind = "results" => queue[k] \in ended
        BY DEF IInv, ReportsAreOfEnded
      <4> QED BY <1>3, <1>9, <1>14, <4>1
    <3> QED BY <1>1, <1>12, <1>14, <3>1 DEF IInv, ReportsAreOfEnded
  <2>5. Alone'
    <3>1. ~overlap => Active' = {}
      BY <1>4, <1>5, <1>14 DEF IInv, Alone, Active
    <3> QED BY <1>1, <3>1 DEF Alone
  <2> QED BY <1>6, <1>7, <1>8, <1>10, <2>2, <2>3, <2>4, <2>5 DEF IInv
<1>15. CASE /\ queue' = Append(queue, ResultsMsg(j)) /\ ended' = ended \cup {ResultsMsg(j)}
            /\ job'[j].left = job[j].left - 1
            /\ ResultsMsg(j) \in Reports
  <2> DEFINE new == ResultsMsg(j)
  <2>1. new \in Messages /\ queue' \in Seq(Messages) /\ ended' \subseteq Reports
    BY <1>3, <1>15 DEF Messages
  <2>2. TypeOK'
    BY <1>1, <1>4, <2>1, ThreadStops DEF IInv, TypeOK
  <2>3. new.job = j /\ new.sub = job[j].left /\ new.sub \in Nat
    BY <1>3, DoingParts DEF ResultsMsg
  <2>4. new \notin ended
    <3>1. new \in ended => new.sub > job[new.job].left
      BY DEF IInv, ReportsAreOfEnded
    <3> QED BY <2>3, <3>1
  <2>5. ~Contains(queue, new) /\ ~Contains(results, new)
    <3>1. /\ \A k \in DOMAIN queue : queue[k].kind = "results" => queue[k] \in ended
          /\ \A k \in DOMAIN results : results[k] \in ended
      BY DEF IInv, ReportsAreOfEnded
    <3>2. \A k \in DOMAIN queue : queue[k] # new
      BY <1>9, <2>4, <3>1
    <3>3. \A k \in DOMAIN results : results[k] # new
      BY <2>4, <3>1
    <3> HIDE DEF new
    <3> QED BY <1>3, <3>2, <3>3 DEF Contains
  <2>6. \A k \in DOMAIN queue' : queue'[k].kind = "results" => queue'[k] \in ended'
    <3>1. \A k \in DOMAIN queue : queue[k].kind = "results" => queue[k] \in ended
      BY DEF IInv, ReportsAreOfEnded
    <3> HIDE DEF new
    <3> QED BY <1>3, <1>15, <2>1, <3>1 DEF new
  <2>7. ReportsAreOfEnded'
    <3>1. \A k \in DOMAIN results' : results'[k] \in ended'
      BY <1>1, <1>15 DEF IInv, ReportsAreOfEnded
    <3>2. job'[new.job].pc \notin {"idle", "discover"} /\ new.sub > job'[new.job].left
      BY <1>2, <1>15, <2>3 DEF Moves
    <3> QED BY <1>12, <1>15, <2>6, <3>1, <3>2 DEF ReportsAreOfEnded
  <2> HIDE DEF new
  <2>8. ReportedOnce'
    <3>1. Once(queue', new) /\ ~Contains(results', new)
      BY <1>1, <1>3, <1>15, <2>1, <2>5, OnceAppended DEF new
    <3>2. ASSUME NEW m \in ended
          PROVE  \/ Once(queue', m) /\ ~Contains(results', m)
                 \/ Once(results', m) /\ ~Contains(queue', m)
      <4>1. m # new
        BY <2>4
      <4>2. /\ Once(queue, m) => Once(queue', m)
            /\ ~Contains(queue, m) => ~Contains(queue', m)
        BY <1>3, <1>15, <2>1, <4>1, OnceAppended DEF new
      <4> QED BY <1>1, <4>2 DEF IInv, ReportedOnce
    <3> QED BY <1>15, <3>1, <3>2 DEF ReportedOnce, new
  <2>9. Alone'
    <3>1. \A k \in DOMAIN queue' : queue'[k].kind = "job_done" => \E l \in DOMAIN queue : queue[l].kind = "job_done"
      BY <1>3, <1>9, <1>15, <2>1 DEF new
    <3> QED BY <1>1, <1>5, <3>1 DEF IInv, Alone
  <2> QED BY <1>6, <1>7, <1>8, <1>10, <2>2, <2>7, <2>8, <2>9 DEF IInv
<1> QED BY <1>13, <1>14, <1>15, ThreadTells

\* The invariant is inductive.
THEOREM InductiveInvariant == Spec => []IInv
<1>1. IInv /\ [Next]_vars => IInv'
  <2> SUFFICES ASSUME IInv, [Next]_vars PROVE IInv'
    OBVIOUS
  <2>1. CASE UNCHANGED vars
    BY <2>1 DEF vars, IInv, TypeOK, SubScanWithin, StopEndsBatch, StopSeen, ReportedOnce,
                ReportsAreOfEnded, RunningWhileActive, Alone, Active
  <2>2. ASSUME NEW j \in Jobs, NEW subs \in 1 .. MaxSubs, NEW discovers \in BOOLEAN,
               StartScan(j, "full", subs, discovers)
        PROVE  IInv'
    BY <2>2, StartHolds
  <2>3. ASSUME NEW j \in Jobs, StartScan(j, "single", 1, FALSE) PROVE IInv'
    <3>1. 1 \in 1 .. MaxSubs /\ "single" \in {"single", "full"}
      BY Sizes
    <3>2. FALSE \in BOOLEAN
      OBVIOUS
    <3> QED BY <2>3, <3>1, <3>2, StartHolds, Zenon
  <2>4. CASE PressStop \/ ClearResults \/ Drain
    BY <2>4, StopHolds, ClearHolds, DrainHolds
  <2>5. ASSUME NEW j \in Jobs, ThreadStep(j) PROVE IInv'
    BY <2>5, ThreadHolds
  <2> QED BY <2>1, <2>2, <2>3, <2>4, <2>5 DEF Next
<1> QED BY <1>1, InitHolds, PTL DEF Spec

\* "Stop takes effect promptly rather than only between whole device-codes"
\* (run_full_plc_scan_job), whatever the number of scans at work, batches and
\* snapshots: a scan reads one more batch at most.
THEOREM StopEndsEveryBatch == Spec => []StopEndsBatch
<1>1. IInv => StopEndsBatch
  BY DEF IInv
<1> QED BY <1>1, InductiveInvariant, PTL

\* However the messages of scans interleave in scan_out_queue, what a sub-scan
\* read is listed, or about to be, exactly once.
THEOREM EveryScanReportedOnce == Spec => []ReportedOnce
<1>1. IInv => ReportedOnce
  BY DEF IInv
<1> QED BY <1>1, InductiveInvariant, PTL

\* A scan that is alone can be stopped for as long as it is at work.
THEOREM LoneScanIsRunning == Spec => []RunningWhileActive
<1>1. IInv => RunningWhileActive
  BY DEF IInv
<1> QED BY <1>1, InductiveInvariant, PTL

-----------------------------------------------------------------------------
(* The run time and the cycles of an OEE session (OeeSession).             *)

\* The count of one slot, and what one counter was read at.
CountHolds(c) ==
  Seen(c) =>
    /\ 0 <= Cycles(c)
    /\ taken[c] # Several =>
         /\ latest[taken[c]] # Nothing
         /\ latest[taken[c]] - count[c].first <= made[taken[c]] - unread[taken[c]]
         /\ Cycles(c) <= made[taken[c]] - unread[taken[c]]

ReadHolds(m) ==
  /\ unread[m] <= made[m]
  /\ latest[m] # Nothing => plc[m] - latest[m] <= unread[m]

\* CountsSoFar and ReadSoFar, one at a time.
LEMMA OneAtATime ==
  /\ CountsSoFar <=> \A c \in Slots : CountHolds(c)
  /\ CountsSoFar' <=> \A c \in Slots : CountHolds(c)'
  /\ ReadSoFar <=> \A m \in Counters : ReadHolds(m)
  /\ ReadSoFar' <=> \A m \in Counters : ReadHolds(m)'
BY DEF CountsSoFar, CountHolds, ReadSoFar, ReadHolds

\* What OeeTypeOK says of one slot and of one counter.
LEMMA SlotTypes ==
  ASSUME OeeTypeOK, NEW c \in Slots, Seen(c)
  PROVE  /\ count[c].first \in Nat /\ count[c].last \in Nat
         /\ taken[c] \in Counters \cup {Several}
BY DEF OeeTypeOK, Seen, Value

LEMMA CounterTypes ==
  ASSUME OeeTypeOK, NEW m \in Counters
  PROVE  /\ plc[m] \in Nat /\ unread[m] \in Nat /\ made[m] \in Nat
         /\ latest[m] # Nothing => latest[m] \in Nat
BY DEF OeeTypeOK, Value

\* A fresh application satisfies the invariant.
LEMMA OeeInitHolds == OeeInit => OeeInv
<1> SUFFICES ASSUME OeeInit PROVE OeeInv
  OBVIOUS
<1>1. Zero \in Elapsed
  BY DEF Zero, Elapsed
<1>2. \A c \in Slots : ~Seen(c) /\ count[c].last = Nothing /\ taken[c] = Nothing
  BY DEF OeeInit, Seen, NoCount
<1>3. OeeTypeOK
  <2>1. {plc, unread, made} \subseteq [Counters -> Nat] /\ latest \in [Counters -> Value]
    BY DEF OeeInit, Value
  <2>2. /\ mapped \in [Slots -> Names \cup {Nothing}]
        /\ taken \in [Slots -> Counters \cup {Nothing, Several}]
        /\ count \in [Slots -> [first : Value, last : Value]]
    BY DEF OeeInit, NoCount, Value
  <2>3. /\ run \in [seconds : Int, status : BOOLEAN \cup {Nothing}, check : Elapsed]
        /\ session \in Elapsed /\ changes \in Nat
    BY <1>1 DEF OeeInit, NoRun
  <2> QED BY <1>2, <2>1, <2>2, <2>3 DEF OeeTypeOK
<1>4. RunSoFar
  BY DEF OeeInit, RunSoFar, NoRun, Zero
<1>5. ReadSoFar /\ CountsSoFar
  BY <1>2 DEF OeeInit, ReadSoFar, CountsSoFar
<1> QED BY <1>3, <1>4, <1>5 DEF OeeInv

-----------------------------------------------------------------------------
\* A counter counts or is reset.
LEMMA PlcHolds ==
  ASSUME OeeInv, NEW m \in Counters, PlcCounts(m) \/ PlcResets(m)
  PROVE  OeeInv'
<1> USE DEF OeeInv
<1>1. /\ UNCHANGED <<latest, mapped, run, count, session, taken>>
      /\ changes' = changes + 1
  BY DEF PlcCounts, PlcResets, Change
<1>2. /\ plc \in [Counters -> Nat] /\ unread \in [Counters -> Nat] /\ made \in [Counters -> Nat]
  BY DEF OeeTypeOK
<1>3. /\ plc' \in [Counters -> Nat] /\ unread' \in [Counters -> Nat] /\ made' \in [Counters -> Nat]
      /\ \A x \in Counters : /\ made'[x] - unread'[x] = made[x] - unread[x]
                             /\ \/ plc'[x] = 0 /\ unread'[x] = unread[x]
                                \/ plc'[x] - plc[x] = unread'[x] - unread[x]
  BY <1>2 DEF PlcCounts, PlcResets
<1>4. OeeTypeOK'
  BY <1>1, <1>3 DEF OeeTypeOK, Seen
<1>5. RunSoFar'
  BY <1>1 DEF RunSoFar
<1>6. ASSUME NEW x \in Counters PROVE ReadHolds(x)'
  <2>1. ReadHolds(x)
    BY OneAtATime
  <2>2. /\ plc'[x] \in Nat /\ unread'[x] \in Nat /\ made'[x] \in Nat
        /\ plc[x] \in Nat /\ unread[x] \in Nat /\ made[x] \in Nat
        /\ latest'[x] = latest[x] /\ (latest[x] # Nothing => latest[x] \in Nat)
    BY <1>1, <1>3, CounterTypes
  <2> QED BY <1>3, <2>1, <2>2 DEF ReadHolds
<1>7. ASSUME NEW c \in Slots PROVE CountHolds(c)'
  <2>1. CountHolds(c)
    BY OneAtATime
  <2> QED BY <1>1, <1>3, <2>1, SlotTypes DEF CountHolds, Seen, Cycles
<1> QED BY <1>4, <1>5, <1>6, <1>7, OneAtATime

\* The clock: what passes since the reset passes since the last look.
LEMMA ClockHolds ==
  ASSUME OeeInv, NEW how \in {"time", "ahead", "behind"}, ClockMoves(how)
  PROVE  OeeInv'
<1> USE DEF OeeInv
<1>1. /\ UNCHANGED <<plc, latest, unread, mapped, count, made, taken>>
      /\ changes' = changes + 1
      /\ session' = [session EXCEPT ![how] = @ + 1]
      /\ run' = [run EXCEPT !.check[how] = @ + 1]
  BY DEF ClockMoves, Change, counterVars
<1>2. run \in [seconds : Int, status : BOOLEAN \cup {Nothing}, check : Elapsed] /\ session \in Elapsed
  BY DEF OeeTypeOK
<1>3. \A e \in Elapsed : [e EXCEPT ![how] = @ + 1] \in Elapsed
  BY DEF Elapsed
<1>4. /\ run'.seconds = run.seconds /\ run'.status = run.status
      /\ run'.check = [run.check EXCEPT ![how] = @ + 1]
      /\ run' \in [seconds : Int, status : BOOLEAN \cup {Nothing}, check : Elapsed]
  BY <1>1, <1>2, <1>3
<1>5. session' \in Elapsed
  BY <1>1, <1>2, <1>3
<1>6. OeeTypeOK'
  BY <1>1, <1>4, <1>5 DEF OeeTypeOK, Seen
<1>7. RunSoFar'
  <2>1. RunSoFar
    OBVIOUS
  <2>2. run.check \in Elapsed /\ run.seconds \in Int
    BY <1>2
  <2>3. \A x \in {"time", "ahead", "behind"} : /\ run.check[x] \in Nat /\ session[x] \in Nat
                                               /\ run'.check[x] <= session'[x]
                                               /\ session'[x] - run'.check[x] = session[x] - run.check[x]
    BY <1>1, <1>2, <1>4, <2>1, <2>2 DEF RunSoFar, Elapsed
  <2>4. /\ session'.time - run'.check.time = session.time - run.check.time
        /\ session'.ahead - run'.check.ahead = session.ahead - run.check.ahead
        /\ session'.behind - run'.check.behind = session.behind - run.check.behind
    BY <2>3
  <2> QED BY <1>4, <2>1, <2>3, <2>4 DEF RunSoFar
<1>8. ReadSoFar' /\ CountsSoFar'
  BY <1>1 DEF ReadSoFar, CountsSoFar, Seen, Cycles
<1> QED BY <1>6, <1>7, <1>8

\* Another mapping touches nothing that was counted.
LEMMA SaveHolds ==
  ASSUME OeeInv, save_config \/ UNCHANGED oeeVars
  PROVE  OeeInv'
<1> USE DEF OeeInv
<1>1. UNCHANGED <<plc, latest, unread, run, count, session, made, taken, changes>>
  BY DEF save_config, oeeVars, counterVars
<1>2. mapped' \in [Slots -> Names \cup {Nothing}]
  BY DEF save_config, oeeVars, OeeTypeOK
<1>3. OeeTypeOK'
  BY <1>1, <1>2 DEF OeeTypeOK, Seen
<1>4. RunSoFar' /\ ReadSoFar' /\ CountsSoFar'
  BY <1>1 DEF RunSoFar, ReadSoFar, CountsSoFar, Seen, Cycles
<1> QED BY <1>3, <1>4

\* reset_oee_session begins a session with no run time and no counts.
LEMMA OeeResetHolds ==
  ASSUME OeeInv, reset_oee_session
  PROVE  OeeInv'
<1> USE DEF OeeInv
<1>1. /\ UNCHANGED <<plc, latest, unread, mapped, changes>>
      /\ run' = NoRun /\ count' = NoCount /\ session' = Zero /\ made' = unread
      /\ taken' = [c \in Slots |-> Nothing]
  BY DEF reset_oee_session, counterVars
<1>2. Zero \in Elapsed
  BY DEF Zero, Elapsed
<1>3. \A c \in Slots : ~Seen(c)' /\ count'[c].last = Nothing /\ taken'[c] = Nothing
  BY <1>1 DEF NoCount, Seen
<1>4. OeeTypeOK'
  <2>1. count' \in [Slots -> [first : Value, last : Value]]
    BY <1>1 DEF NoCount, Value
  <2>2. run' \in [seconds : Int, status : BOOLEAN \cup {Nothing}, check : Elapsed]
    BY <1>1, <1>2 DEF NoRun
  <2>3. taken' \in [Slots -> Counters \cup {Nothing, Several}]
    BY <1>1
  <2>4. {plc', unread', made'} \subseteq [Counters -> Nat]
    BY <1>1 DEF OeeTypeOK
  <2> QED BY <1>1, <1>2, <1>3, <2>1, <2>2, <2>3, <2>4 DEF OeeTypeOK
<1>5. RunSoFar'
  BY <1>1 DEF RunSoFar, NoRun, Zero
<1>6. ASSUME NEW m \in Counters PROVE ReadHolds(m)'
  <2>1. ReadHolds(m)
    BY OneAtATime
  <2> QED BY <1>1, <2>1, CounterTypes DEF ReadHolds
<1>7. CountsSoFar'
  BY <1>3 DEF CountsSoFar
<1> QED BY <1>4, <1>5, <1>6, <1>7, OneAtATime

\* What was taken from a connection that is gone is not of one counter any more.
LEMMA RemoveHolds ==
  ASSUME OeeInv, NEW k \in Connections, RemoveConnection(k)
  PROVE  OeeInv'
<1> USE DEF OeeInv
<1>1. /\ UNCHANGED <<mapped, run, count, session, changes>>
      /\ \A m \in Counters : IF m[1] = k
           THEN latest'[m] = Nothing /\ plc'[m] = 0 /\ unread'[m] = 0 /\ made'[m] = 0
           ELSE latest'[m] = latest[m] /\ plc'[m] = plc[m] /\ unread'[m] = unread[m] /\ made'[m] = made[m]
      /\ \A c \in Slots : taken'[c] = IF \E n \in Names : taken[c] = <<k, n>> THEN Several ELSE taken[c]
  BY DEF RemoveConnection
<1>2. Nothing # Several /\ Nothing \notin Counters
  BY OeeConstants
<1>3. OeeTypeOK'
  <2>1. {plc', unread', made'} \subseteq [Counters -> Nat]
    BY CounterTypes DEF RemoveConnection
  <2>2. latest' \in [Counters -> Value]
    BY CounterTypes DEF RemoveConnection, Value
  <2>3. taken' \in [Slots -> Counters \cup {Nothing, Several}]
    BY DEF RemoveConnection, OeeTypeOK
  <2>4. \A c \in Slots : taken'[c] # Nothing <=> taken[c] # Nothing
    BY <1>1, <1>2 DEF Counters
  <2> QED BY <1>1, <2>1, <2>2, <2>3, <2>4 DEF OeeTypeOK, Seen
<1>4. RunSoFar'
  BY <1>1 DEF RunSoFar
<1>5. ASSUME NEW m \in Counters PROVE ReadHolds(m)'
  <2>1. ReadHolds(m)
    BY OneAtATime
  <2> QED BY <1>1, <2>1 DEF ReadHolds
<1>6. ASSUME NEW c \in Slots PROVE CountHolds(c)'
  <2>1. CountHolds(c)
    BY OneAtATime
  <2> SUFFICES ASSUME Seen(c)' PROVE CountHolds(c)'
    BY DEF CountHolds
  <2>2. Seen(c) /\ Cycles(c)' = Cycles(c) /\ count'[c] = count[c]
    BY <1>1 DEF Seen, Cycles
  <2>3. CASE taken'[c] = Several
    BY <2>1, <2>2, <2>3 DEF CountHolds
  <2>4. CASE taken'[c] # Several
    <3>1. taken'[c] = taken[c] /\ taken[c] \in Counters /\ \A n \in Names : taken[c] # <<k, n>>
      BY <1>1, <2>2, <2>4, SlotTypes
    <3>2. taken[c][1] # k
      BY <3>1 DEF Counters
    <3> QED BY <1>1, <2>1, <2>2, <3>1, <3>2 DEF CountHolds
  <2> QED BY <2>3, <2>4
<1> QED BY <1>3, <1>4, <1>5, <1>6, OneAtATime

-----------------------------------------------------------------------------
\* What a reading does to one counter.
LEMMA ReadingReads ==
  ASSUME OeeInv, NEW k \in Connections, NEW fresh \in SUBSET Names,
         NEW status \in BOOLEAN \cup {Nothing}, Reading(k, fresh, status), NEW m \in Counters
  PROVE  /\ latest'[m] \in Value /\ unread'[m] \in Nat
         /\ latest[m] # Nothing => latest'[m] # Nothing
         /\ ReadHolds(m)'
         /\ unread'[m] <= unread[m]
         /\ latest[m] # Nothing => latest'[m] - latest[m] <= unread[m] - unread'[m]
<1> USE DEF OeeInv
<1>1. /\ plc' = plc /\ made' = made
      /\ latest'[m] = IF m[1] = k /\ m[2] \in fresh THEN plc[m] ELSE latest[m]
      /\ unread'[m] = IF m[1] = k /\ m[2] \in fresh THEN 0 ELSE unread[m]
  BY DEF Reading
<1>2. ReadHolds(m)
  BY OneAtATime
<1>3. /\ plc[m] \in Nat /\ unread[m] \in Nat /\ made[m] \in Nat
      /\ latest[m] \in Value /\ (latest[m] # Nothing => latest[m] \in Nat)
      /\ Nothing \notin Nat
  BY CounterTypes, OeeConstants DEF OeeTypeOK
<1> QED BY <1>1, <1>2, <1>3 DEF ReadHolds, Value

\* A value is taken: the same counter's, or it begins anew, or nothing is
\* claimed any more.
LEMMA TakingCounts ==
  ASSUME OeeInv, NEW k \in Connections, NEW fresh \in SUBSET Names,
         NEW status \in BOOLEAN \cup {Nothing}, Reading(k, fresh, status),
         NEW c \in Slots, NEW m \in Counters, latest'[m] # Nothing,
         count'[c] = CountSeen(c, latest'[m]), taken'[c] = From(c, m)
  PROVE  /\ count'[c] \in [first : Value, last : Value]
         /\ Seen(c)' /\ count'[c].last # Nothing /\ taken'[c] \in {m, Several}
         /\ CountHolds(c)'
<1> USE DEF OeeInv
<1> DEFINE val == latest'[m]
<1>1. val \in Nat /\ Nothing \notin Nat /\ made' = made
  BY ReadingReads, OeeConstants DEF Value, Reading
<1>2. made[m] \in Nat /\ unread[m] \in Nat /\ unread'[m] \in Nat /\ unread'[m] <= made[m]
  BY <1>1, ReadingReads, CounterTypes DEF ReadHolds
<1>3. taken'[c] \in {m, Several} /\ (taken'[c] = m => taken[c] \in {Nothing, m} \/ m = Several)
  BY DEF From
<1>4. m # Several /\ Nothing # Several
  BY OeeConstants
<1>5. CASE ~Seen(c) \/ val < count[c].last
  <2>1. count'[c] = [first |-> val, last |-> val]
    BY <1>5 DEF CountSeen, Seen
  <2>2. Seen(c)' /\ Cycles(c)' = 0 /\ count'[c].last # Nothing
    BY <1>1, <2>1 DEF Seen, Cycles
  <2>3. count'[c] \in [first : Value, last : Value]
    BY <1>1, <2>1 DEF Value
  <2>4. ASSUME taken'[c] # Several
        PROVE  /\ latest'[taken'[c]] # Nothing
               /\ latest'[taken'[c]] - count'[c].first <= made'[taken'[c]] - unread'[taken'[c]]
               /\ Cycles(c)' <= made'[taken'[c]] - unread'[taken'[c]]
    <3>1. taken'[c] = m
      BY <1>3, <2>4
    <3>2. latest'[m] - count'[c].first = 0
      BY <1>1, <2>1
    <3> QED BY <1>1, <1>2, <2>2, <3>1, <3>2
  <2> QED BY <1>3, <2>2, <2>3, <2>4 DEF CountHolds
<1>6. CASE Seen(c) /\ ~(val < count[c].last)
  <2>1. count[c].first \in Nat /\ count[c].last \in Nat
    BY <1>6, SlotTypes
  <2>2. count'[c] = [first |-> count[c].first, last |-> val]
    BY <1>6 DEF CountSeen, Seen
  <2>3. /\ Seen(c)' /\ count'[c].last # Nothing /\ count'[c].first = count[c].first
        /\ Cycles(c)' = val - count[c].first
    BY <1>1, <1>6, <2>2 DEF Seen, Cycles
  <2>4. count'[c] \in [first : Value, last : Value]
    BY <1>1, <2>1, <2>2 DEF Value
  <2>5. CountHolds(c)
    BY OneAtATime
  <2>6. 0 <= Cycles(c)'
    BY <1>1, <1>6, <2>1, <2>3, <2>5 DEF CountHolds, Cycles
  <2>7. ASSUME taken'[c] # Several
        PROVE  /\ latest'[taken'[c]] # Nothing
               /\ latest'[taken'[c]] - count'[c].first <= made'[taken'[c]] - unread'[taken'[c]]
               /\ Cycles(c)' <= made'[taken'[c]] - unread'[taken'[c]]
    <3>1. taken'[c] = m /\ taken[c] = m
      BY <1>3, <1>4, <1>6, <2>7 DEF OeeTypeOK
    <3>2. latest[m] # Nothing /\ latest[m] - count[c].first <= made[m] - unread[m]
      BY <1>4, <1>6, <2>5, <3>1 DEF CountHolds
    <3>3. latest[m] \in Nat /\ val - latest[m] <= unread[m] - unread'[m]
      BY <3>2, ReadingReads, CounterTypes
    <3>4. val - count[c].first <= made[m] - unread'[m]
      BY <1>1, <1>2, <2>1, <3>2, <3>3
    <3> QED BY <1>1, <2>3, <3>1, <3>4
  <2> QED BY <1>3, <2>3, <2>4, <2>6, <2>7 DEF CountHolds
<1> QED BY <1>5, <1>6

\* A slot that takes nothing keeps what it has; its counter may be read.
LEMMA NotTakingCounts ==
  ASSUME OeeInv, NEW k \in Connections, NEW fresh \in SUBSET Names,
         NEW status \in BOOLEAN \cup {Nothing}, Reading(k, fresh, status),
         NEW c \in Slots, count'[c] = count[c], taken'[c] = taken[c]
  PROVE  CountHolds(c)'
<1> USE DEF OeeInv
<1>1. CountHolds(c) /\ made' = made
  BY OneAtATime DEF Reading
<1> SUFFICES ASSUME Seen(c)' PROVE CountHolds(c)'
  BY DEF CountHolds
<1>2. Seen(c) /\ Cycles(c)' = Cycles(c)
  BY DEF Seen, Cycles
<1>3. count[c].first \in Nat /\ count[c].last \in Nat /\ taken[c] \in Counters \cup {Several}
  BY <1>2, SlotTypes
<1>4. CASE taken[c] = Several
  BY <1>1, <1>2, <1>4 DEF CountHolds
<1>5. CASE taken[c] # Several
  <2> DEFINE m == taken[c]
  <2>1. m \in Counters
    BY <1>3, <1>5
  <2>2. /\ latest[m] # Nothing /\ 0 <= Cycles(c)
        /\ latest[m] - count[c].first <= made[m] - unread[m]
        /\ Cycles(c) <= made[m] - unread[m]
    BY <1>1, <1>2, <1>5 DEF CountHolds
  <2> HIDE DEF m
  <2>3. /\ latest[m] \in Nat /\ made[m] \in Nat /\ unread[m] \in Nat /\ unread'[m] \in Nat
        /\ latest'[m] # Nothing /\ latest'[m] \in Value
        /\ latest'[m] - latest[m] <= unread[m] - unread'[m] /\ unread'[m] <= unread[m]
    BY <2>1, <2>2, ReadingReads, CounterTypes
  <2>4. latest'[m] \in Nat /\ Cycles(c) \in Int
    BY <1>3, <2>3 DEF Value, Cycles
  <2>5. /\ latest'[m] - count[c].first <= made[m] - unread'[m]
        /\ Cycles(c) <= made[m] - unread'[m]
    BY <1>3, <2>2, <2>3, <2>4
  <2> QED BY <1>1, <1>2, <2>2, <2>3, <2>5 DEF CountHolds, m
<1> QED BY <1>4, <1>5

\* What it does to the run time.
LEMMA ReadingRuns ==
  ASSUME OeeInv, NEW k \in Connections, NEW fresh \in SUBSET Names,
         NEW status \in BOOLEAN \cup {Nothing}, Reading(k, fresh, status)
  PROVE  /\ run' \in [seconds : Int, status : BOOLEAN \cup {Nothing}, check : Elapsed]
         /\ RunSoFar'
<1> USE DEF OeeInv
<1>1. run' = RunSeen(status) /\ session' = session
  BY DEF Reading
<1>2. /\ run \in [seconds : Int, status : BOOLEAN \cup {Nothing}, check : Elapsed]
      /\ session \in Elapsed /\ Zero \in Elapsed
  BY DEF OeeTypeOK, Zero, Elapsed
<1>3. CASE status = Nothing
  BY <1>1, <1>2, <1>3 DEF RunSeen, RunSoFar
<1>4. CASE status # Nothing
  <2> DEFINE gap == run.check.time + run.check.ahead - run.check.behind
  <2> DEFINE s == IF run.status = TRUE THEN run.seconds + gap ELSE run.seconds
  <2>1. run' = [seconds |-> s, status |-> status, check |-> Zero]
    BY <1>1, <1>4 DEF RunSeen
  <2>2. /\ run.check.time \in Nat /\ run.check.ahead \in Nat /\ run.check.behind \in Nat
        /\ session.time \in Nat /\ session.ahead \in Nat /\ session.behind \in Nat
        /\ run.seconds \in Int
    BY <1>2 DEF Elapsed
  <2>3. /\ run.check.time <= session.time /\ run.check.ahead <= session.ahead
        /\ run.check.behind <= session.behind
        /\ run.seconds <= (session.time - run.check.time) + (session.ahead - run.check.ahead)
        /\ -(session.behind - run.check.behind) <= run.seconds
    BY DEF RunSoFar
  <2>4. s \in Int /\ s <= session.time + session.ahead /\ -session.behind <= s
    BY <2>2, <2>3
  <2> HIDE DEF s
  <2>5. /\ run'.seconds = s /\ run'.check = Zero
        /\ run' \in [seconds : Int, status : BOOLEAN \cup {Nothing}, check : Elapsed]
    BY <1>2, <2>1, <2>4
  <2> QED BY <1>1, <2>2, <2>4, <2>5 DEF RunSoFar, Zero
<1> QED BY <1>3, <1>4

\* A reading taken by _poll_queue preserves the invariant.
LEMMA ReadingHolds ==
  ASSUME OeeInv, NEW k \in Connections, NEW fresh \in SUBSET Names,
         NEW status \in BOOLEAN \cup {Nothing}, Reading(k, fresh, status)
  PROVE  OeeInv'
<1> USE DEF OeeInv
<1>1. UNCHANGED <<plc, mapped, session, made, changes>>
  BY DEF Reading
<1>2. PICK source \in [Slots -> Counters \cup {Nothing}] :
        /\ \A c \in Slots : IF Sources(latest', mapped[c]) = {} THEN source[c] = Nothing
                            ELSE source[c] \in Sources(latest', mapped[c])
        /\ count' = [c \in Slots |-> IF source[c] = Nothing THEN count[c]
                                     ELSE CountSeen(c, latest'[source[c]])]
        /\ taken' = [c \in Slots |-> IF source[c] = Nothing THEN taken[c] ELSE From(c, source[c])]
  BY DEF Reading
<1>3. ASSUME NEW c \in Slots
      PROVE  /\ count'[c] \in [first : Value, last : Value]
             /\ taken'[c] \in Counters \cup {Nothing, Several}
             /\ Seen(c)' <=> count'[c].last # Nothing
             /\ Seen(c)' <=> taken'[c] # Nothing
             /\ CountHolds(c)'
  <2>1. CASE source[c] = Nothing
    <3>1. count'[c] = count[c] /\ taken'[c] = taken[c]
      BY <1>2, <2>1
    <3>2. CountHolds(c)'
      BY <3>1, NotTakingCounts
    <3> QED BY <3>1, <3>2 DEF OeeTypeOK, Seen
  <2>2. CASE source[c] # Nothing
    <3>1. source[c] \in Sources(latest', mapped[c])
      BY <1>2, <2>2
    <3>2. source[c] \in Counters /\ latest'[source[c]] # Nothing
      BY <3>1 DEF Sources
    <3>3. count'[c] = CountSeen(c, latest'[source[c]]) /\ taken'[c] = From(c, source[c])
      BY <1>2, <2>2
    <3> QED BY <3>2, <3>3, TakingCounts, OeeConstants
  <2> QED BY <2>1, <2>2
<1>4. OeeTypeOK'
  <2>1. latest' \in [Counters -> Value]
    BY ReadingReads DEF Reading
  <2>2. unread' \in [Counters -> Nat]
    BY ReadingReads DEF Reading
  <2>3. count' \in [Slots -> [first : Value, last : Value]]
    BY <1>2, <1>3
  <2>4. taken' \in [Slots -> Counters \cup {Nothing, Several}]
    BY <1>2, <1>3
  <2> QED BY <1>1, <1>3, <2>1, <2>2, <2>3, <2>4, ReadingRuns DEF OeeTypeOK
<1>5. ReadSoFar' /\ CountsSoFar'
  BY <1>3, ReadingReads, OneAtATime
<1> QED BY <1>4, <1>5, ReadingRuns

-----------------------------------------------------------------------------
\* OeeInv, which the run checks, holds in every state.
THEOREM OeeInductiveInvariant == OeeSpec => []OeeInv
<1>1. OeeInit => OeeInv
  BY OeeInitHolds
<1>2. ASSUME OeeInv, [OeeNext]_oeeVars PROVE OeeInv'
  <2>1. CASE \E m \in Counters : PlcCounts(m) \/ PlcResets(m)
    BY <1>2, <2>1, PlcHolds
  <2>2. CASE \E how \in {"time", "ahead", "behind"} : ClockMoves(how)
    BY <1>2, <2>2, ClockHolds
  <2>3. CASE \E k \in Connections, fresh \in SUBSET Names, status \in BOOLEAN \cup {Nothing} :
               Reading(k, fresh, status)
    BY <1>2, <2>3, ReadingHolds
  <2>4. CASE \E k \in Connections : RemoveConnection(k)
    BY <1>2, <2>4, RemoveHolds
  <2>5. CASE save_config \/ UNCHANGED oeeVars
    BY <1>2, <2>5, SaveHolds
  <2>6. CASE reset_oee_session
    BY <1>2, <2>6, OeeResetHolds
  <2> QED BY <1>2, <2>1, <2>2, <2>3, <2>4, <2>5, <2>6 DEF OeeNext
<1> QED BY <1>1, <1>2, PTL DEF OeeSpec

\* The run time of a session is no more than the time since it was reset and as
\* much as the wall clock was set ahead in it, and no less than nothing but for
\* what it was set behind, whatever readings arrive, however late, and however
\* polling is stopped and started (update_oee_runtime).
THEOREM RunTimeHolds == OeeSpec => []RunWithinSession
<1>1. OeeInv => RunWithinSession
  <2> SUFFICES ASSUME OeeInv PROVE RunWithinSession
    OBVIOUS
  <2>1. /\ run.check \in Elapsed /\ session \in Elapsed /\ run.seconds \in Int
    BY DEF OeeInv, OeeTypeOK
  <2>2. /\ run.check.time \in Nat /\ run.check.ahead \in Nat /\ run.check.behind \in Nat
        /\ session.time \in Nat /\ session.ahead \in Nat /\ session.behind \in Nat
    BY <2>1 DEF Elapsed
  <2> QED BY <2>1, <2>2 DEF OeeInv, RunSoFar, RunWithinSession
<1> QED BY <1>1, OeeInductiveInvariant, PTL

\* The cycles of a session are never less than none, and pieces that were made if
\* all are of one counter: whatever resets of counters readings see or miss,
\* whatever connections have tags of the same name, and however a slot is mapped
\* to another tag and back.
THEOREM CyclesHold == OeeSpec => []CyclesWereMade
<1>1. OeeInv => CyclesWereMade
  <2> SUFFICES ASSUME OeeInv, NEW c \in Slots, Seen(c)
               PROVE  /\ 0 <= Cycles(c)
                      /\ taken[c] # Several => Cycles(c) <= made[taken[c]]
    BY DEF CyclesWereMade
  <2>1. CountHolds(c)
    BY OneAtATime DEF OeeInv
  <2>2. count[c].first \in Nat /\ count[c].last \in Nat /\ taken[c] \in Counters \cup {Several}
    BY SlotTypes DEF OeeInv
  <2>3. ASSUME taken[c] # Several PROVE Cycles(c) <= made[taken[c]]
    <3>1. made[taken[c]] \in Nat /\ unread[taken[c]] \in Nat
      BY <2>2, <2>3, CounterTypes DEF OeeInv
    <3> QED BY <2>1, <2>2, <2>3, <3>1 DEF CountHolds, Cycles
  <2> QED BY <2>1, <2>3 DEF CountHolds
<1> QED BY <1>1, OeeInductiveInvariant, PTL

=============================================================================
