------------------------------- MODULE Polling -------------------------------
(***************************************************************************)
(* Live polling in the desktop application (protoprobe.py): Start All gives*)
(* every connection that has tags a PollerThread, Stop All tells the       *)
(* threads of the listed connections to stop, the threads report through   *)
(* one queue, by the NAME of their connection, and the Tk thread drains it *)
(* every 150 ms.  Start All also starts the chain of timer callbacks that  *)
(* sends the merged values.                                                *)
(*                                                                         *)
(* A thread is named by its connection's name and the press of Start All.  *)
(* What is read is left out; a message is its status, or "values".         *)
(***************************************************************************)
EXTENDS Naturals, Sequences, FiniteSets, SequencesExt

CONSTANTS Names,       \* connection names
          Nothing,     \* no such connection
          MaxStarts,   \* model bounds: presses of Start All,
          MaxGen,      \*   connections of one name,
          MaxQueue     \*   messages before the queue is drained

ASSUME PollingConstants == {MaxStarts, MaxGen, MaxQueue} \subseteq Nat \ {0}

VARIABLES conns,     \* self.connections
          gen,       \* history: connections of each name made so far
          thr,       \* PollerThread
          starts,    \* history: presses of Start All
          started,   \* Start All is disabled and Stop All enabled
          queue,     \* self.out_queue
          draining,  \* the Tk thread is in the loop of _poll_queue
          merging,   \* self.merge_timer_running
          ticks,     \* callbacks of _merge_tick that are due
          entry,     \* what the merge interval entry holds
          raised     \* history: _merge_tick has raised since Start All was pressed

conVars == <<conns, gen>>
tickVars == <<merging, ticks, entry, raised>>
vars == <<conns, gen, thr, starts, started, queue, draining, merging, ticks, entry, raised>>

NoThread == [pc |-> "none", obj |-> 0, stop |-> FALSE]

Init ==
  /\ conns = [n \in Names |-> Nothing]
  /\ gen = [n \in Names |-> 0]
  /\ thr = [n \in Names |-> [k \in 1 .. MaxStarts |-> NoThread]]
  /\ starts = 0
  /\ started = FALSE
  /\ queue = <<>>
  /\ draining = FALSE
  /\ merging = FALSE
  /\ ticks = 0
  /\ entry = "seconds"
  /\ raised = FALSE

Listed == {n \in Names : conns[n] # Nothing}

\* A connection object: which one of its name, whether it has tags, its thread.
Connection(n, hasTags) ==
  [id |-> gen[n] + 1, tags |-> hasTags, thread |-> 0, status |-> "idle"]

-----------------------------------------------------------------------------
(* The Tk thread.                                                          *)

\* A callback runs when no other does.
Callback == ~draining /\ UNCHANGED draining

AddConnection(n) ==
  /\ Callback
  /\ n \notin Listed
  /\ gen[n] < MaxGen
  /\ conns' = [conns EXCEPT ![n] = Connection(n, FALSE)]
  /\ gen' = [gen EXCEPT ![n] = @ + 1]
  /\ UNCHANGED <<thr, starts, started, queue, tickVars>>

AddTags(n) ==
  /\ Callback
  /\ n \in Listed
  /\ conns' = [conns EXCEPT ![n].tags = TRUE]
  /\ UNCHANGED <<gen, thr, starts, started, queue, tickVars>>

\* remove_connection: a thread that polls it goes on.
RemoveConnection(n) ==
  /\ Callback
  /\ n \in Listed
  /\ conns' = [conns EXCEPT ![n] = Nothing]
  /\ UNCHANGED <<gen, thr, starts, started, queue, tickVars>>

\* load_full_config: every connection is replaced.
LoadConfig(ns) ==
  /\ Callback
  /\ \A n \in ns : gen[n] < MaxGen
  /\ conns' = [n \in Names |-> IF n \in ns THEN Connection(n, TRUE) ELSE Nothing]
  /\ gen' = [n \in Names |-> IF n \in ns THEN gen[n] + 1 ELSE gen[n]]
  /\ UNCHANGED <<thr, starts, started, queue, tickVars>>

\* "nan" and "inf" are numbers to float(), and no milliseconds to int().
Entries == {"seconds", "infinite", "no number"}

EditEntry ==
  /\ Callback
  /\ entry' \in Entries
  /\ UNCHANGED <<conVars, thr, starts, started, queue, merging, ticks, raised>>

\* start_all: it raises, with nothing done, when the interval is no number, and
\* in its last call, the first _merge_tick, when the interval is not finite.
StartAll ==
  LET ready == {n \in Listed : conns[n].tags}
  IN /\ Callback
     /\ ~started
     /\ ready # {}
     /\ entry # "no number"
     /\ starts < MaxStarts
     /\ starts' = starts + 1
     /\ thr' = [n \in Names |-> IF n \in ready
          THEN [thr[n] EXCEPT ![starts'] = [pc |-> "new", obj |-> conns[n].id, stop |-> FALSE]]
          ELSE thr[n]]
     /\ conns' = [n \in Names |-> IF n \in ready THEN [conns[n] EXCEPT !.thread = starts'] ELSE conns[n]]
     /\ started' = TRUE
     /\ merging' = TRUE
     /\ raised' = (entry = "infinite")
     /\ ticks' = IF raised' THEN ticks ELSE ticks + 1
     /\ UNCHANGED <<gen, queue, entry>>

\* Mutant: only connections that show "connected" are told to stop.
Mutant_StopsConnected ==
  /\ Callback
  /\ started
  /\ thr' = [n \in Names |-> [k \in 1 .. MaxStarts |->
       IF n \in Listed /\ conns[n].status = "connected" /\ conns[n].thread = k
       THEN [thr[n][k] EXCEPT !.stop = TRUE] ELSE thr[n][k]]]
  /\ started' = FALSE
  /\ merging' = FALSE
  /\ UNCHANGED <<conVars, starts, queue, ticks, entry, raised>>

StopAll ==
  /\ Callback
  /\ started
  /\ thr' = [n \in Names |-> [k \in 1 .. MaxStarts |->
       IF n \in Listed /\ conns[n].thread = k THEN [thr[n][k] EXCEPT !.stop = TRUE] ELSE thr[n][k]]]
  /\ started' = FALSE
  /\ merging' = FALSE
  /\ UNCHANGED <<conVars, starts, queue, ticks, entry, raised>>

\* _poll_queue takes the next message, until there is none: threads may put
\* theirs meanwhile, but no other callback runs.
Drain ==
  LET m == Head(queue)
  IN /\ queue # <<>>
     /\ conns' = IF m.name \in Listed /\ m.kind # "values"
                 THEN [conns EXCEPT ![m.name].status = m.kind] ELSE conns
     /\ queue' = Tail(queue)
     /\ draining' = (queue' # <<>>)
     /\ UNCHANGED <<gen, thr, starts, started, tickVars>>

\* Mutant: the callback returns early, with no next one, when nothing is listed.
Mutant_TickReturns ==
  /\ Callback
  /\ ticks > 0
  /\ IF merging /\ entry = "seconds" /\ Listed # {} THEN UNCHANGED <<ticks, raised>>
     ELSE ticks' = ticks - 1 /\ raised' = (raised \/ (merging /\ entry # "seconds"))
  /\ UNCHANGED <<conVars, thr, starts, started, queue, merging, entry>>

\* _merge_tick: the chain ends when polling was stopped, and when the interval
\* is no finite number (the exception leaves the callback).
MergeTick ==
  /\ Callback
  /\ ticks > 0
  /\ IF merging /\ entry = "seconds" THEN UNCHANGED <<ticks, raised>>
     ELSE ticks' = ticks - 1 /\ raised' = (raised \/ merging)
  /\ UNCHANGED <<conVars, thr, starts, started, queue, merging, entry>>

-----------------------------------------------------------------------------
(* A thread.                                                               *)

Tk == <<conVars, starts, started, draining, tickVars>>

\* The thread goes from pc to pc2 and reports what.
Says(n, k, pc, what, pc2) ==
  /\ thr[n][k].pc = pc
  /\ Len(queue) < MaxQueue
  /\ queue' = Append(queue, [name |-> n, kind |-> what])
  /\ thr' = [thr EXCEPT ![n][k].pc = pc2]
  /\ UNCHANGED Tk

Connecting(n, k) == Says(n, k, "new", "connecting", "connecting")

Connected(n, k) == Says(n, k, "connecting", "connected", "loop")

ConnectFails(n, k) == Says(n, k, "connecting", "error", "ended")

\* Mutant: a thread looks for its connection, and stops if it is listed.
Mutant_ListedOnly(n, k) ==
  /\ thr[n][k].pc = "loop"
  /\ thr' = [thr EXCEPT ![n][k].pc = IF thr[n][k].stop /\ n \in Listed THEN "close" ELSE "poll"]
  /\ UNCHANGED <<Tk, queue>>

\* while not self._stop_event.is_set()
LoopTest(n, k) ==
  /\ thr[n][k].pc = "loop"
  /\ thr' = [thr EXCEPT ![n][k].pc = IF thr[n][k].stop THEN "close" ELSE "poll"]
  /\ UNCHANGED <<Tk, queue>>

PollOk(n, k) == Says(n, k, "poll", "values", "loop")

PollFails(n, k) == Says(n, k, "poll", "error", "loop")

\* Mutant: a thread ends without a word.
Mutant_EndsSilently(n, k) ==
  /\ thr[n][k].pc = "close"
  /\ thr' = [thr EXCEPT ![n][k].pc = "ended"]
  /\ UNCHANGED <<Tk, queue>>

Stopped(n, k) == Says(n, k, "close", "stopped", "ended")

ThreadStep(n, k) ==
  \/ Connecting(n, k) \/ Connected(n, k) \/ ConnectFails(n, k)
  \/ LoopTest(n, k) \/ PollOk(n, k) \/ PollFails(n, k) \/ Stopped(n, k)

Next ==
  \/ \E n \in Names : AddConnection(n) \/ AddTags(n) \/ RemoveConnection(n)
  \/ \E ns \in SUBSET Names : LoadConfig(ns)
  \/ EditEntry \/ StartAll \/ StopAll \/ Drain \/ MergeTick
  \/ \E n \in Names, k \in 1 .. MaxStarts : ThreadStep(n, k)

Spec == Init /\ [][Next]_vars

\* The threads run and the Tk timers fire; nobody has to press a button.
FairSpec ==
  /\ Spec
  /\ WF_vars(Drain) /\ WF_vars(MergeTick)
  /\ \A n \in Names, k \in 1 .. MaxStarts : SF_vars(ThreadStep(n, k))

-----------------------------------------------------------------------------
(* What must hold.                                                         *)

Status == {"idle", "connecting", "connected", "error", "stopped"}

Threads == [pc : {"none", "new", "connecting", "loop", "poll", "close", "ended"},
            obj : 0 .. MaxGen, stop : BOOLEAN]

Connections == [id : 1 .. MaxGen, tags : BOOLEAN, thread : 0 .. MaxStarts, status : Status]

ASSUME NothingIsNoConnection == Nothing \notin Connections

\* Types; a message of values never becomes the status of a connection.
TypeOK ==
  /\ conns \in [Names -> {Nothing} \cup Connections]
  /\ gen \in [Names -> 0 .. MaxGen]
  /\ thr \in [Names -> [1 .. MaxStarts -> Threads]]
  /\ starts \in 0 .. MaxStarts
  /\ started \in BOOLEAN /\ merging \in BOOLEAN /\ entry \in Entries /\ raised \in BOOLEAN
  /\ draining \in BOOLEAN
  /\ queue \in Seq([name : Names, kind : Status \cup {"values"}])
  /\ ticks \in 0 .. starts

Alive(n, k) == thr[n][k].pc \notin {"none", "ended"}

\* Not told to stop.
Polls(n, k) == Alive(n, k) /\ ~thr[n][k].stop

\* Stop All reaches every thread that polls a listed connection: it is the one
\* the connection knows, and none is left once Stop All was pressed.
StopReachesListed ==
  \A n \in Listed, k \in 1 .. MaxStarts :
    Polls(n, k) /\ thr[n][k].obj = conns[n].id => started /\ conns[n].thread = k

\* Why: a thread is of a press of Start All, and polls a connection that was
\* made before.
OfThePast ==
  \A n \in Names : /\ n \in Listed => conns[n].id <= gen[n]
                   /\ \A k \in 1 .. MaxStarts :
                        thr[n][k].pc # "none" => k <= starts /\ thr[n][k].obj <= gen[n]

AtWork(n) == \E k \in 1 .. MaxStarts : thr[n][k].pc \in {"loop", "poll", "close"}

\* A connection that is shown as connected has a thread that is connected: the
\* last word of a thread that ended is another one.
ConnectedIsAlive ==
  \A n \in Listed : queue = <<>> /\ conns[n].status = "connected" => AtWork(n)

\* Why: it is so of the last word that is said of a name, shown or on its way.
SaidAfter(n, i) == \E k \in DOMAIN queue : k > i /\ queue[k].name = n /\ queue[k].kind # "values"

LastWordIsTrue ==
  /\ \A n \in Listed : conns[n].status = "connected" /\ ~SaidAfter(n, 0) => AtWork(n)
  /\ \A n \in Names, i \in DOMAIN queue :
       queue[i] = [name |-> n, kind |-> "connected"] /\ ~SaidAfter(n, i) => AtWork(n)

\* While polling is started the merged values are sent, unless the interval
\* is no finite number: the chain of _merge_tick does not break.
SendsWhileStarted == started /\ ~raised => ticks > 0

\* The inductive invariant of live polling.
IInv ==
  /\ TypeOK /\ merging = started /\ SendsWhileStarted
  /\ OfThePast /\ StopReachesListed
  /\ ConnectedIsAlive /\ LastWordIsTrue

\* A thread that was told to stop ends.
StopEnds == \A n \in Names, k \in 1 .. MaxStarts : thr[n][k].stop ~> thr[n][k].pc = "ended"

=============================================================================
