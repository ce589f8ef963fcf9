------------------------------- MODULE ScanJobs -------------------------------
(***************************************************************************)
(* The background scans of the desktop application (protoprobe.py): scans  *)
(* run on threads of their own, share one stop event and one queue, and the*)
(* Tk thread drains the queue every 200 ms into the list of results.       *)
(*                                                                         *)
(* What is read is abstracted to which batches of addresses were read; the *)
(* status texts are left out.  A single scan is one sub-scan, a full scan  *)
(* is one for each device code, area or register type (for S7: each DB     *)
(* that discovery finds).                                                  *)
(***************************************************************************)
EXTENDS Naturals, Sequences, FiniteSets, SequencesExt

CONSTANTS Jobs,        \* threads start_background_scan may start
          MaxSubs,     \* sub-scans of a full scan
          Batches,     \* batches of SCAN_BATCH_SIZE tags of a sub-scan
          Snapshots    \* num_snapshots

ASSUME ScanConstants == {MaxSubs, Batches, Snapshots} \subseteq Nat \ {0}

VARIABLES running,   \* self.scan_running
          stop,      \* self.scan_stop_event
          job,       \* what each thread does
          queue,     \* self.scan_out_queue
          draining,  \* the Tk thread is in the loop of _scan_pump
          results,   \* self.scan_results
          ended,     \* history: sub-scans that ended without an exception, but
                     \*   for those whose results were cleared
          asked,     \* history: jobs that were running when Stop was pressed,
                     \*   unless a start has withdrawn it since
          after,     \* history: batches a job of asked has read since
          overlap    \* history: a scan was started before the last was over

vars == <<running, stop, job, queue, draining, results, ended, asked, after, overlap>>

Idle == [pc |-> "idle", kind |-> "single", left |-> 0, snap |-> 1, batch |-> 1, got |-> {}]

Init ==
  /\ running = FALSE
  /\ stop = FALSE
  /\ job = [j \in Jobs |-> Idle]
  /\ queue = <<>>
  /\ draining = FALSE
  /\ results = <<>>
  /\ ended = {}
  /\ asked = {}
  /\ after = [j \in Jobs |-> 0]
  /\ overlap = FALSE

Active == {j \in Jobs : job[j].pc \notin {"idle", "done"}}

DoneMsg(j) == [kind |-> "job_done", job |-> j]

ResultsMsg(j) == [kind |-> "results", job |-> j, sub |-> job[j].left, got |-> job[j].got]

-----------------------------------------------------------------------------
(* The Tk thread.                                                          *)

\* start_background_scan: Stop is withdrawn, whoever it was meant for.  A full
\* scan of an S7 PLC looks for its DBs first.
StartScan(j, kind, subs, discovers) ==
  /\ ~draining
  /\ job[j].pc = "idle"
  /\ stop' = FALSE
  /\ running' = TRUE
  /\ job' = [job EXCEPT ![j] =
       [Idle EXCEPT !.kind = kind, !.left = subs,
                    !.pc = IF kind = "single" THEN "connect"
                           ELSE IF discovers THEN "discover" ELSE "between"]]
  /\ asked' = asked \ Active
  /\ after' = [k \in Jobs |-> IF k \in Active THEN 0 ELSE after[k]]
  /\ overlap' = (overlap \/ Active # {} \/ \E k \in DOMAIN queue : queue[k].kind = "job_done")
  /\ UNCHANGED <<queue, draining, results, ended>>

\* stop_scan, refused unless a scan is running.
PressStop ==
  /\ ~draining
  /\ running
  /\ stop' = TRUE
  /\ asked' = asked \cup Active
  /\ UNCHANGED <<running, job, queue, draining, results, ended, after, overlap>>

\* What a message of the queue does to the list of results.
Listed(m) == IF m.kind = "results" THEN Append(results, m) ELSE results

\* Mutant: job_done is taken for the last message of the queue.
Mutant_DropsRest ==
  /\ queue # <<>>
  /\ results' = Listed(Head(queue))
  /\ running' = (running /\ Head(queue).kind # "job_done")
  /\ queue' = IF Head(queue).kind = "job_done" THEN <<>> ELSE Tail(queue)
  /\ draining' = (queue' # <<>>)
  /\ UNCHANGED <<stop, job, ended, asked, after, overlap>>

\* Mutant: a report ends the scan.
Mutant_ReportEnds ==
  /\ queue # <<>>
  /\ results' = Listed(Head(queue))
  /\ running' = FALSE
  /\ queue' = Tail(queue)
  /\ draining' = (queue' # <<>>)
  /\ UNCHANGED <<stop, job, ended, asked, after, overlap>>

\* _scan_pump takes the next message, until there is none: threads may put
\* theirs meanwhile, but no other callback runs.
Drain ==
  /\ queue # <<>>
  /\ results' = Listed(Head(queue))
  /\ running' = (running /\ Head(queue).kind # "job_done")
  /\ queue' = Tail(queue)
  /\ draining' = (queue' # <<>>)
  /\ UNCHANGED <<stop, job, ended, asked, after, overlap>>

\* clear_results: what is still in the queue stays.
ClearResults ==
  /\ ~draining
  /\ results # <<>>
  /\ results' = <<>>
  /\ ended' = {m \in ended : ~Contains(results, m)}
  /\ UNCHANGED <<running, stop, job, queue, draining, asked, after, overlap>>

-----------------------------------------------------------------------------
(* A scan's thread.                                                        *)

Tk == <<running, stop, draining, results, asked, overlap>>

\* discover_db_numbers_sync: it does not look at the stop event.
Discover(j) ==
  /\ job[j].pc = "discover"
  /\ \E n \in 0 .. job[j].left : job' = [job EXCEPT ![j].left = n, ![j].pc = "between"]
  /\ UNCHANGED <<Tk, queue, ended, after>>

\* run_full_plc_scan_job: the next sub-scan, unless Stop was pressed.
NextSubScan(j) ==
  /\ job[j].pc = "between"
  /\ ~stop
  /\ job[j].left > 0
  /\ job' = [job EXCEPT ![j].pc = "connect"]
  /\ UNCHANGED <<Tk, queue, ended, after>>

\* It reports its end whether or not it was stopped.
JobDone(j) ==
  /\ job[j].pc = "between"
  /\ stop \/ job[j].left = 0
  /\ job' = [job EXCEPT ![j].pc = "done"]
  /\ queue' = Append(queue, DoneMsg(j))
  /\ UNCHANGED <<Tk, ended, after>>

\* The sub-scan is over; a single scan has nothing more to say.
SubScanOver(j) ==
  job' = [job EXCEPT ![j] = [Idle EXCEPT !.kind = job[j].kind, !.left = job[j].left - 1,
                               !.pc = IF job[j].kind = "single" THEN "done" ELSE "between"]]

Connect(j) ==
  /\ job[j].pc = "connect"
  /\ job' = [job EXCEPT ![j].pc = "check"]
  /\ UNCHANGED <<Tk, queue, ended, after>>

\* The driver's constructor raises, outside the try: the thread is over, a full
\* scan's without its job_done.
ConstructorRaises(j) ==
  /\ job[j].pc = "connect"
  /\ job' = [job EXCEPT ![j].pc = "done"]
  /\ UNCHANGED <<Tk, queue, ended, after>>

\* connect or poll raises, or there is nothing to scan: what the sub-scan has
\* read is dropped.
ScanFails(j) ==
  /\ job[j].pc \in {"connect", "poll"}
  /\ SubScanOver(j)
  /\ UNCHANGED <<Tk, queue, ended, after>>

\* Mutant: the stop event is looked at between snapshots only.
Mutant_ChecksLate(j) ==
  /\ job[j].pc = "check"
  /\ job' = [job EXCEPT ![j].pc = IF stop /\ job[j].batch = 1 THEN "report" ELSE "poll"]
  /\ UNCHANGED <<Tk, queue, ended, after>>

\* Before each batch: stopped early, or on.
CheckStop(j) ==
  /\ job[j].pc = "check"
  /\ job' = [job EXCEPT ![j].pc = IF stop THEN "report" ELSE "poll"]
  /\ UNCHANGED <<Tk, queue, ended, after>>

\* A batch is read; after the last of a snapshot comes the delay, after the
\* last snapshot the report.
ReadBatch(j) ==
  LET last == job[j].batch = Batches
  IN /\ job[j].pc = "poll"
     /\ job' = [job EXCEPT
          ![j].got = @ \cup {job[j].batch},
          ![j].batch = IF last THEN 1 ELSE @ + 1,
          ![j].pc = IF ~last THEN "check"
                    ELSE IF job[j].snap < Snapshots THEN "sleep" ELSE "report"]
     /\ after' = IF j \in asked THEN [after EXCEPT ![j] = @ + 1] ELSE after
     /\ UNCHANGED <<Tk, queue, ended>>

\* Mutant: the number of the snapshot stays.
Mutant_SnapshotAgain(j) ==
  /\ job[j].pc = "sleep"
  /\ job' = [job EXCEPT ![j].pc = "check"]
  /\ UNCHANGED <<Tk, queue, ended, after>>

NextSnapshot(j) ==
  /\ job[j].pc = "sleep"
  /\ job' = [job EXCEPT ![j].snap = @ + 1, ![j].pc = "check"]
  /\ UNCHANGED <<Tk, queue, ended, after>>

\* disconnect, and the results of what was read, all of it or not.
Report(j) ==
  /\ job[j].pc = "report"
  /\ queue' = Append(queue, ResultsMsg(j))
  /\ ended' = ended \cup {ResultsMsg(j)}
  /\ SubScanOver(j)
  /\ UNCHANGED <<Tk, after>>

ThreadStep(j) ==
  \/ Discover(j) \/ NextSubScan(j) \/ JobDone(j)
  \/ Connect(j) \/ ConstructorRaises(j) \/ ScanFails(j) \/ CheckStop(j)
  \/ ReadBatch(j) \/ NextSnapshot(j) \/ Report(j)

Next ==
  \/ \E j \in Jobs, subs \in 1 .. MaxSubs, discovers \in BOOLEAN :
       StartScan(j, "full", subs, discovers)
  \/ \E j \in Jobs : StartScan(j, "single", 1, FALSE)
  \/ PressStop
  \/ ClearResults
  \/ Drain
  \/ \E j \in Jobs : ThreadStep(j)

Spec == Init /\ [][Next]_vars

\* Threads run, the Tk timer fires; nobody has to start or stop a scan.
FairSpec == Spec /\ WF_vars(Drain) /\ \A j \in Jobs : WF_vars(ThreadStep(j))

-----------------------------------------------------------------------------
(* What must hold.                                                         *)

Reports == [kind : {"results"}, job : Jobs, sub : 1 .. MaxSubs, got : SUBSET (1 .. Batches)]

Messages == [kind : {"job_done"}, job : Jobs] \cup Reports

Doing == [pc : {"idle", "discover", "between", "connect", "check", "poll", "sleep",
                "report", "done"},
          kind : {"single", "full"}, left : 0 .. MaxSubs, snap : 1 .. Snapshots,
          batch : 1 .. Batches, got : SUBSET (1 .. Batches)]

\* Types; the positions of the loops of run_range_scan stay in range.
TypeOK ==
  /\ running \in BOOLEAN /\ stop \in BOOLEAN /\ overlap \in BOOLEAN
  /\ draining \in BOOLEAN
  /\ job \in [Jobs -> Doing]
  /\ queue \in Seq(Messages)
  /\ results \in Seq(Reports)
  /\ ended \subseteq Reports
  /\ asked \subseteq Jobs
  /\ after \in [Jobs -> Nat]

\* Stop takes effect "promptly rather than only between whole device-codes"
\* (run_full_plc_scan_job): until another scan is started, a scan that ran
\* when Stop was pressed ends with the batch it is reading.
StopEndsBatch == \A j \in asked : after[j] <= 1

\* Why: it still sees the stop event, and has read its batch only where it
\* looks at the event next.
StopSeen ==
  /\ \A j \in asked : /\ job[j].pc # "idle" /\ (j \in Active => stop)
                      /\ after[j] > 0 => job[j].pc \notin {"idle", "discover", "connect", "poll"}
  /\ \A j \in Jobs \ asked : after[j] = 0

Once(seq, m) == \E k \in DOMAIN seq : \A l \in DOMAIN seq : seq[l] = m <=> l = k

\* What a sub-scan has read when it ends without an exception, stopped or not,
\* reaches the list of results, once, however the threads' messages mix, and is
\* there until the list is cleared.
ReportedOnce ==
  \A m \in ended : \/ Once(queue, m) /\ ~Contains(results, m)
                   \/ Once(results, m) /\ ~Contains(queue, m)

\* Why: what is reported was read, and a scan counts its sub-scans down.
ReportsAreOfEnded ==
  /\ \A k \in DOMAIN queue : queue[k].kind = "results" => queue[k] \in ended
  /\ \A k \in DOMAIN results : results[k] \in ended
  /\ \A m \in ended : /\ job[m.job].pc \notin {"idle", "discover"}
                      /\ m.sub > job[m.job].left

\* As long as scans do not overlap, a running scan can be stopped: job_done of
\* the last one is not taken for the end of this one.
RunningWhileActive == ~overlap /\ Active # {} => running

\* Why: there is one scan, and no job_done is on its way while it runs.
Alone ==
  ~overlap => /\ \A j, k \in Active : j = k
              /\ Active # {} => \A k \in DOMAIN queue : queue[k].kind # "job_done"

\* Where a sub-scan is.
SubScanWithin ==
  \A j \in Jobs :
    /\ job[j].pc \in {"connect", "check", "poll", "sleep", "report"} => job[j].left > 0
    /\ job[j].pc = "sleep" => job[j].snap < Snapshots

\* The inductive invariant of the background scans.
IInv ==
  /\ TypeOK /\ SubScanWithin
  /\ StopEndsBatch /\ StopSeen
  /\ ReportedOnce /\ ReportsAreOfEnded
  /\ RunningWhileActive /\ Alone

\* A scan comes to its end, and its results to the list.
ScanEnds == \A j \in Jobs : job[j].pc # "idle" ~> job[j].pc = "done" /\ queue = <<>>

=============================================================================
