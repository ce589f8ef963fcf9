------------------------------ MODULE NetScan ------------------------------
(***************************************************************************)
(* The network tools: the IP scan (ping every host of a range) and the port*)
(* scan (connect to every port of a list) of the desktop application, and  *)
(* the wizard's connection test (slmp_probe.py: a real read over every port*)
(* and transport).                                                         *)
(*                                                                         *)
(* All have the same shape: a button handler starts a thread, the thread   *)
(* hands the targets to a pool of workers and takes every answer as it     *)
(* completes.  The scans queue the answers, and None when the pool is done;*)
(* the test queues all of them at the end, sorted.  A pump on the Tk thread*)
(* takes the queue empty, lists what is reachable, and frees the button;   *)
(* after a test it also sets the port and transport to the best.  The pump *)
(* of a scan is rescheduled while the scan is on, the wizard's always.  It *)
(* takes one answer a step here: no other handler of the Tk thread does    *)
(* anything while a scan is on, and the other threads only append.         *)
(***************************************************************************)
EXTENDS Integers, Sequences, FiniteSets, Functions

CONSTANTS Tools,        \* of "ip", "port", "probe"
          Targets,      \* what may be asked, numbered as the test sorts them
          Workers,      \* max_workers of the pool
          MaxScans      \* bound on the scans the user starts

ASSUME ScanConstants == /\ Tools \subseteq {"ip", "port", "probe"}
                        /\ Targets \subseteq Nat \ {0}
                        /\ Workers \in Nat /\ MaxScans \in Nat

VARIABLES tool,         \* the tool that is followed
          scanning,     \* the button is disabled: _ip_scanning, _port_scanning
          pumps,        \* pumps waiting in the Tk event queue
          waiting,      \* targets the pool has not started
          working,      \* targets a worker is asking
          answered,     \* finished futures the scan thread has not taken
          out,          \* probe's out: those it has taken
          thread,       \* "none", "scan" or "raised": leaving the pool's block
          queue,        \* answers and None, to the pump
          rows,         \* the table, or the message below the test
          choice,       \* slmp_transport and plc_port; 0: as typed before
          (* What happened, for the properties only. *)
          scans,        \* scans started
          asked,        \* targets of the latest scan
          truth,        \* of every target answered in it: how it ended
          former,       \* the choice when it started
          died          \* the latest scan's thread ended by an exception

history == <<scans, asked, former>>
vars == <<tool, scanning, pumps, waiting, working, answered, out, thread, queue,
          rows, choice, truth, died, history>>

NoAnswer == [t \in {} |-> "down"]
Answer(t, what) == [target |-> t, what |-> what]
None == [target |-> "None", what |-> "None"]

(* How asking a target may end.  The port scan makes its socket outside the  *)
(* worker's try.                                                             *)
Endings == {"up", "down"} \cup IF tool = "port" THEN {"raised"} ELSE {}

(* The test tells a word that was read (ok) from a refusal (answered).  It   *)
(* catches OSError, which a name that cannot be encoded is none of.          *)
ProbeEndings == {"ok", "answered", "down", "raised"}

Init == /\ tool \in Tools
        /\ scanning = FALSE /\ pumps = IF tool = "probe" THEN 1 ELSE 0
        /\ waiting = {} /\ working = {} /\ answered = {} /\ out = <<>>
        /\ thread = "none" /\ queue = <<>> /\ rows = <<>> /\ choice = 0
        /\ scans = 0 /\ asked = {} /\ truth = NoAnswer /\ former = 0 /\ died = FALSE

(* A thread is given the targets, the table is empty, the button disabled. *)
Started(ts) ==
  /\ scans < MaxScans
  /\ scans' = scans + 1
  /\ rows' = <<>>
  /\ scanning' = TRUE
  /\ waiting' = ts /\ asked' = ts /\ truth' = NoAnswer /\ died' = FALSE
  /\ out' = <<>>
  /\ former' = choice
  /\ thread' = "scan"
  /\ UNCHANGED <<tool, working, answered, queue, choice>>

(* Mutant: the handler does not look whether a scan is running. *)
Mutant_StartAgain(ts) ==
  /\ tool # "probe"
  /\ Started(ts)
  /\ pumps' = pumps + 1

(* start_ip_scan, start_port_scan: the inputs are valid and no scan is on.   *)
(* The handler runs the pump once itself, on a queue with nothing of its own *)
(* scan in it yet; it is the first of the chain.                             *)
StartScan(ts) ==
  /\ tool # "probe"
  /\ ~scanning
  /\ Started(ts)
  /\ pumps' = pumps + 1

(* The button of the test is not disabled. *)
test_connection(ts) ==
  /\ tool = "probe"
  /\ ~scanning
  /\ Started(ts)
  /\ UNCHANGED pumps

(* A worker of the pool takes the next target. *)
Ask(t) ==
  /\ t \in waiting
  /\ Cardinality(working) < Workers
  /\ waiting' = waiting \ {t}
  /\ working' = working \cup {t}
  /\ UNCHANGED <<tool, scanning, pumps, answered, out, thread, queue, rows, choice,
                 truth, died, history>>

(* ping_host, check_port, probe_one: the target answers, or it does not (a   *)
(* timeout or an exception inside the try), or the worker raises.            *)
Finish(t, what) ==
  /\ t \in working
  /\ working' = working \ {t}
  /\ answered' = answered \cup {Answer(t, what)}
  /\ truth' = [u \in DOMAIN truth \cup {t} |-> IF u = t THEN what ELSE truth[u]]
  /\ UNCHANGED <<tool, scanning, pumps, waiting, out, thread, queue, rows, choice,
                 died, history>>

(* as_completed: the scan thread takes a finished answer, to queue it; of a  *)
(* worker that raised, future.result() raises: the thread still waits for    *)
(* the pool (with), but takes nothing more.                                  *)
Report(a) ==
  /\ tool # "probe"
  /\ thread = "scan" /\ a \in answered
  /\ answered' = answered \ {a}
  /\ IF a.what = "raised"
       THEN thread' = "raised" /\ died' = TRUE /\ UNCHANGED queue
       ELSE queue' = Append(queue, a) /\ UNCHANGED <<thread, died>>
  /\ UNCHANGED <<tool, scanning, pumps, waiting, working, out, rows, choice, truth, history>>

(* probe keeps it. *)
Collect(a) ==
  /\ tool = "probe"
  /\ thread = "scan" /\ a \in answered
  /\ answered' = answered \ {a}
  /\ IF a.what = "raised"
       THEN thread' = "raised" /\ died' = TRUE /\ UNCHANGED out
       ELSE out' = Append(out, a) /\ UNCHANGED <<thread, died>>
  /\ UNCHANGED <<tool, scanning, pumps, waiting, working, queue, rows, choice, truth, history>>

PoolDone == waiting = {} /\ working = {}

(* The answers of S, of which there are at most n, by target: by port, UDP   *)
(* first.  There is one such sequence, as no target has two answers.         *)
InOrder(s) == \A i, j \in DOMAIN s : i < j => s[i].target < s[j].target
ByTarget(S, n) == {s \in UNION {[1 .. m -> S] : m \in 0 .. n} : InOrder(s) /\ S \subseteq Range(s)}

(* Mutant: the results are left in the order they completed in. *)
Mutant_Unsorted(items) == {items}

(* What the items may be sorted to. *)
Sorted(items) == ByTarget(Range(items), Len(items))

(* Mutant: None is queued when the pool is done, answers still unreported. *)
Mutant_NoneFirst ==
  /\ tool # "probe"
  /\ thread = "scan" /\ PoolDone
  /\ thread' = "none"
  /\ queue' = Append(queue, None)
  /\ UNCHANGED <<tool, scanning, pumps, waiting, working, answered, out, rows,
                 choice, truth, died, history>>

(* Every answer is queued and the pool is left: the sentinel. *)
Sentinel ==
  /\ tool # "probe"
  /\ thread = "scan" /\ PoolDone /\ answered = {}
  /\ thread' = "none"
  /\ queue' = Append(queue, None)
  /\ UNCHANGED <<tool, scanning, pumps, waiting, working, answered, out, rows,
                 choice, truth, died, history>>

(* The results of the test are one entry of the queue, here its items and    *)
(* None.                                                                     *)
PutResults ==
  /\ tool = "probe"
  /\ thread = "scan" /\ PoolDone /\ answered = {}
  /\ thread' = "none"
  /\ \E s \in Sorted(out) : queue' = queue \o s \o <<None>>
  /\ UNCHANGED <<tool, scanning, pumps, waiting, working, answered, out, rows,
                 choice, truth, died, history>>

(* ... or the exception leaves the thread, the other answers lost. *)
ThreadDies ==
  /\ thread = "raised" /\ PoolDone
  /\ thread' = "none"
  /\ answered' = {}
  /\ UNCHANGED <<tool, scanning, pumps, waiting, working, out, queue, rows, choice,
                 truth, died, history>>

(* At the None the scan is over and the pump returns; a reachable target is  *)
(* listed.                                                                   *)
Take(m) ==
  /\ queue' = Tail(queue)
  /\ IF m = None THEN scanning' = FALSE /\ pumps' = pumps - 1 /\ UNCHANGED rows
     ELSE /\ rows' = IF m.what = "up" THEN Append(rows, m) ELSE rows
          /\ UNCHANGED <<scanning, pumps>>

(* Mutant: the pump is not rescheduled once it took something. *)
Mutant_PumpsOnce ==
  /\ tool # "probe"
  /\ pumps > 0 /\ queue # <<>>
  /\ queue' = Tail(queue)
  /\ rows' = IF Head(queue).what = "up" THEN Append(rows, Head(queue)) ELSE rows
  /\ scanning' = (scanning /\ Head(queue) # None)
  /\ pumps' = pumps - 1
  /\ UNCHANGED <<tool, waiting, working, answered, out, thread, choice, truth, died, history>>

(* _pump_ip_queue, _pump_port_queue: until the queue is empty; then the pump *)
(* comes again in 150 ms while the scan is on.                               *)
Pump ==
  /\ tool # "probe"
  /\ pumps > 0
  /\ IF queue # <<>> THEN Take(Head(queue))
     ELSE /\ pumps' = IF scanning THEN pumps ELSE pumps - 1
          /\ UNCHANGED <<queue, rows, scanning>>
  /\ UNCHANGED <<tool, waiting, working, answered, out, thread, choice, truth, died, history>>

(* What the message below the test names. *)
describe(items) == ByTarget({a \in Range(items) : a.what \in {"ok", "answered"}}, Len(items))

(* The place of the first that gave a word, else of the first that answered. *)
best(items) ==
  LET those(what) == {i \in DOMAIN items : items[i].what = what}
      wanted == IF those("ok") # {} THEN those("ok") ELSE those("answered")
  IN {i \in wanted : \A j \in wanted : i <= j}

(* _pump of the wizard, which always comes again, with _probe_done. *)
ProbeDone ==
  /\ tool = "probe"
  /\ queue # <<>>
  /\ queue' = <<>>
  /\ rows' \in describe(queue)
  /\ choice' \in IF rows' = <<>> THEN {choice} ELSE {queue[i].target : i \in best(queue)}
  /\ scanning' = FALSE
  /\ UNCHANGED <<tool, pumps, waiting, working, answered, out, thread, truth, died, history>>

PoolStep ==
  \E t \in Targets :
    \/ Ask(t)
    \/ \E what \in IF tool = "probe" THEN ProbeEndings ELSE Endings : Finish(t, what)

ThreadStep ==
  \/ \E a \in answered : Report(a) \/ Collect(a)
  \/ Sentinel \/ PutResults \/ ThreadDies

TkStep == Pump \/ ProbeDone

Next == \/ \E ts \in SUBSET Targets \ {{}} : StartScan(ts) \/ test_connection(ts)
        \/ PoolStep \/ ThreadStep \/ TkStep

Spec == Init /\ [][Next]_vars

(* Pings and connects have a timeout, the thread runs on, and the Tk loop    *)
(* calls a pump that is due.                                                 *)
FairSpec == Spec /\ WF_vars(PoolStep) /\ WF_vars(ThreadStep) /\ WF_vars(TkStep)

------------------------------------------------------------------------------
(* The answers of the latest scan. *)
Said(t) == Answer(t, truth[t])
Replies == {Said(t) : t \in DOMAIN truth}
Endable == IF tool = "probe" THEN ProbeEndings ELSE Endings

(* Type correctness: the answers under way and those listed are answers of   *)
(* the latest scan, each as it ended, and only the queue has the None.       *)
TypeOK == /\ tool \in Tools
          /\ scanning \in BOOLEAN /\ died \in BOOLEAN
          /\ pumps \in Nat
          /\ choice \in Targets \cup {0} /\ former \in Targets \cup {0}
          /\ thread \in {"none", "scan", "raised"}
          /\ scans \in 0 .. MaxScans
          /\ asked \subseteq Targets
          /\ truth \in [DOMAIN truth -> Endable]
          /\ answered \subseteq Replies
          /\ out \in Seq(Replies)
          /\ queue \in Seq(Replies \cup {None})
          /\ rows \in Seq(Replies)

(* Every target of the scan is in one stage of the pool, which asks at most  *)
(* Workers of them at a time.                                                *)
Pool == /\ asked = waiting \cup working \cup DOMAIN truth
        /\ waiting \cap working = {} /\ DOMAIN truth \cap (waiting \cup working) = {}
        /\ IsFiniteSet(working) /\ Cardinality(working) <= Workers

(* While a scan is on exactly one pump is under way, else only the wizard's: *)
(* two would empty the queue of one another, none would leave the button     *)
(* disabled.                                                                 *)
OnePump == pumps = IF scanning \/ tool = "probe" THEN 1 ELSE 0

(* The scan thread runs only while the button is disabled, and an exception  *)
(* leaves it disabled; else nothing is left of the scan but its table.       *)
Stage == /\ thread = "raised" => died
         /\ thread = "scan" => ~died /\ None \notin Range(queue)
         /\ died => scanning /\ None \notin Range(queue)
         /\ ~scanning => thread = "none" /\ queue = <<>>
         /\ thread = "none" => PoolDone /\ answered = {}
         /\ scanning /\ thread = "none" /\ ~died => None \in Range(queue)
         /\ tool = "probe" /\ scanning => rows = <<>> /\ (thread # "none" \/ died => queue = <<>>)
         /\ tool # "probe" => out = <<>>

(* An answer is in one place at a time, once; the None is the last. *)
Once(s) == \A i, j \in DOMAIN s : s[i] = s[j] => i = j
OnePlace == /\ Once(out) /\ Once(queue) /\ Once(rows)
            /\ answered \cap (Range(out) \cup Range(queue) \cup Range(rows)) = {}
            /\ Range(queue) \cap Range(rows) = {}
            /\ \A i \in DOMAIN queue : queue[i] = None => i = Len(queue)

(* Of a scan without an exception no answer that counts is lost: it waits    *)
(* for the thread, is kept by it, queued or listed; what failed is never     *)
(* listed, what raised is not even queued.                                   *)
NothingLost ==
  /\ ~died => \A t \in DOMAIN truth : truth[t] # "down" =>
       Said(t) \in answered \cup Range(queue) \cup Range(rows)
                  \cup IF thread = "scan" THEN Range(out) ELSE {}
  /\ \A a \in Range(out) \cup Range(queue) : a.what # "raised"
  /\ \A a \in Range(rows) : a.what \notin {"raised", "down"}

(* The queue of a test is in the order of the targets. *)
QueueInOrder ==
  tool = "probe" => \A i, j \in DOMAIN queue :
    i < j /\ queue[j] # None => queue[i].target < queue[j].target

(* A scan that ended shows exactly what it found: every target was asked,    *)
(* each reachable one is listed once, nothing of an earlier scan is left and *)
(* nothing is still under way (the None is queued after every answer, and a  *)
(* scan starts only when the one before has been pumped to its None).        *)
TableIsTheScan ==
  ~scanning /\ scans > 0 =>
    /\ ~died
    /\ DOMAIN truth = asked /\ thread = "none" /\ queue = <<>>
    /\ \A i, j \in DOMAIN rows : rows[i].target = rows[j].target => i = j
    /\ {rows[i].target : i \in DOMAIN rows} = {t \in asked : truth[t] # "down"}

(* The targets that ended so. *)
Spoke(what) == {t \in asked : truth[t] = what}

(* What the wizard takes the PLC's port and transport to be depends on what  *)
(* was answered, never on who answered first: a target that gave a word      *)
(* before one that refused, a lower port before a higher one, and what was   *)
(* typed if none spoke SLMP (slmp_probe.py 84-90).                           *)
BestIsChosen ==
  tool = "probe" /\ ~scanning /\ scans > 0 =>
    IF Spoke("ok") # {} THEN choice \in Spoke("ok") /\ \A t \in Spoke("ok") : choice <= t
    ELSE IF Spoke("answered") # {}
         THEN choice \in Spoke("answered") /\ \A t \in Spoke("answered") : choice <= t
         ELSE choice = former

(* The inductive invariant: the pool, the thread, the queue and the pump, at *)
(* rest and under way.                                                       *)
IInv == /\ TypeOK /\ Pool /\ OnePump /\ Stage
        /\ OnePlace /\ NothingLost /\ QueueInOrder
        /\ (scanning => choice = former) /\ BestIsChosen

(* A scan ends and gives its button back, whatever the targets answer, unless *)
(* a worker raised: then nobody queues the None, the pump goes on (OnePump)   *)
(* and the button stays disabled.                                             *)
ScanEnds == scanning ~> (~scanning \/ died)
==============================================================================
