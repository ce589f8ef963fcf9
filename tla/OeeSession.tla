----------------------------- MODULE OeeSession -----------------------------
(***************************************************************************)
(* The live OEE session of the desktop application (protoprobe.py): run    *)
(* time and cycles derived from whatever readings of the mapped Run Status *)
(* and count tags arrive, while PLCs count and reset their counters, the   *)
(* wall clock is set, tags are mapped anew, connections removed and added. *)
(* Start All and Stop All leave a session alone, and what is queued then is*)
(* still taken.                                                            *)
(*                                                                         *)
(* A counter is a tag of a connection, of one PLC: several connections may *)
(* have a tag of the same name, and a mapping names tags only.  Of the time*)
(* stamps their differences are kept, each by what it is made of: time that*)
(* passed, and steps of the clock ahead and behind.                        *)
(***************************************************************************)
EXTENDS Integers

CONSTANTS Connections, Names,  \* names of connections and of tags
          Slots,       \* the mapped counts: total, reject
          Nothing,     \* None; a tag never read, a slot that is not mapped
          Several,     \* history, see taken
          MaxChanges   \* model bound: steps of the PLCs and of the clock

Counters == Connections \X Names

ASSUME OeeConstants ==
  /\ MaxChanges \in Nat
  /\ Nothing \notin Nat \cup BOOLEAN \cup Names \cup Counters \cup {Several}
  /\ Several \notin Counters

VARIABLES plc,       \* the counters in the PLCs
          latest,    \* latest_values of the connections
          mapped,    \* oee_config: *_count_tag
          run,       \* oee_runtime: run_seconds, last_run_status, and the time
                     \* since last_check_ts
          count,     \* oee_runtime: first_*_count and last_*_count
          session,   \* history: the time since the session's reset
          unread,    \* history: pieces counted since the counter was read
          made,      \* history: pieces counted in this session, and before it
                     \* since the counter was read last
          taken,     \* history: which counter a slot took its values from in this
                     \* session, or that it was several
          changes    \* history: steps of the PLCs and of the clock

counterVars == <<plc, latest, unread>>
oeeVars == <<counterVars, mapped, run, count, session, made, taken, changes>>

Zero == [time |-> 0, ahead |-> 0, behind |-> 0]

NoRun == [seconds |-> 0, status |-> Nothing, check |-> Zero]
NoCount == [c \in Slots |-> [first |-> Nothing, last |-> Nothing]]

OeeInit ==
  /\ plc = [m \in Counters |-> 0]
  /\ latest = [m \in Counters |-> Nothing]
  /\ mapped = [c \in Slots |-> Nothing]
  /\ run = NoRun
  /\ count = NoCount
  /\ session = Zero
  /\ unread = plc
  /\ made = plc
  /\ taken = [c \in Slots |-> Nothing]
  /\ changes = 0

-----------------------------------------------------------------------------
(* The PLCs and the clock.                                                 *)

Change == changes < MaxChanges /\ changes' = changes + 1

PlcCounts(m) ==
  /\ Change
  /\ plc' = [plc EXCEPT ![m] = @ + 1]
  /\ unread' = [unread EXCEPT ![m] = @ + 1]
  /\ made' = [made EXCEPT ![m] = @ + 1]
  /\ UNCHANGED <<latest, mapped, run, count, session, taken>>

\* A counter is reset at the end of a batch, or runs over.
PlcResets(m) ==
  /\ Change
  /\ plc' = [plc EXCEPT ![m] = 0]
  /\ UNCHANGED <<latest, unread, mapped, run, count, session, made, taken>>

\* Time passes, or time.time() is set ahead or behind.
ClockMoves(how) ==
  /\ Change
  /\ session' = [session EXCEPT ![how] = @ + 1]
  /\ run' = [run EXCEPT !.check[how] = @ + 1]
  /\ UNCHANGED <<counterVars, mapped, count, made, taken>>

-----------------------------------------------------------------------------
(* The application.                                                        *)

\* Mutant: last_check_ts is set by the first look only.
Mutant_FirstLook(status) ==
  IF status = Nothing THEN run
  ELSE [seconds |-> IF run.status = TRUE
                    THEN run.seconds + (run.check.time + run.check.ahead - run.check.behind)
                    ELSE run.seconds,
        status |-> status, check |-> run.check]

\* update_oee_runtime: the time since the last look counts when the status was
\* true then; last_check_ts is None just as long as last_run_status is.
RunSeen(status) ==
  IF status = Nothing THEN run
  ELSE [seconds |-> IF run.status = TRUE
                    THEN run.seconds + (run.check.time + run.check.ahead - run.check.behind)
                    ELSE run.seconds,
        status |-> status, check |-> Zero]

\* Mutant: a counter that falls is not taken for a reset.
Mutant_NoReset(c, val) ==
  [first |-> IF count[c].first = Nothing THEN val ELSE count[c].first, last |-> val]

\* The first count of the session, or after the counter fell; and the last.
CountSeen(c, val) ==
  [first |-> IF count[c].first = Nothing \/ val < count[c].last THEN val ELSE count[c].first,
   last |-> val]

\* get_flat_metrics: of equal names the connection that comes last in the dict
\* wins, which changes as they are removed and added: any that has a value.
Sources(values, name) == {m \in Counters : m[2] = name /\ values[m] # Nothing}

From(c, m) == IF taken[c] \in {Nothing, m} THEN m ELSE Several

\* _poll_queue takes a reading of connection k, in which the driver has skipped
\* tags or not; the status is that of any connection.  What a PLC counts while
\* the reading is queued it may as well count after it was taken.
Reading(k, fresh, status) ==
  /\ latest' = [m \in Counters |-> IF m[1] = k /\ m[2] \in fresh THEN plc[m] ELSE latest[m]]
  /\ unread' = [m \in Counters |-> IF m[1] = k /\ m[2] \in fresh THEN 0 ELSE unread[m]]
  /\ run' = RunSeen(status)
  /\ \E source \in [Slots -> Counters \cup {Nothing}] :
       /\ \A c \in Slots : IF Sources(latest', mapped[c]) = {} THEN source[c] = Nothing
                           ELSE source[c] \in Sources(latest', mapped[c])
       /\ count' = [c \in Slots |-> IF source[c] = Nothing THEN count[c]
                                    ELSE CountSeen(c, latest'[source[c]])]
       /\ taken' = [c \in Slots |-> IF source[c] = Nothing THEN taken[c] ELSE From(c, source[c])]
  /\ UNCHANGED <<plc, mapped, session, made, changes>>

\* The session goes on with other tags.
save_config ==
  /\ \E new \in [Slots -> Names \cup {Nothing}] : mapped' = new
  /\ UNCHANGED <<counterVars, run, count, session, made, taken, changes>>

\* Connection k is removed, and its latest_values with it; one added under that
\* name may be another PLC's, whose counters begin where they do.
RemoveConnection(k) ==
  /\ latest' = [m \in Counters |-> IF m[1] = k THEN Nothing ELSE latest[m]]
  /\ plc' = [m \in Counters |-> IF m[1] = k THEN 0 ELSE plc[m]]
  /\ unread' = [m \in Counters |-> IF m[1] = k THEN 0 ELSE unread[m]]
  /\ made' = [m \in Counters |-> IF m[1] = k THEN 0 ELSE made[m]]
  /\ taken' = [c \in Slots |-> IF \E n \in Names : taken[c] = <<k, n>> THEN Several ELSE taken[c]]
  /\ UNCHANGED <<mapped, run, count, session, changes>>

\* Mutant: what was seen last is kept.
Mutant_KeepsLast ==
  /\ run' = [run EXCEPT !.seconds = 0]
  /\ count' = NoCount
  /\ session' = Zero
  /\ made' = unread
  /\ taken' = [c \in Slots |-> Nothing]
  /\ UNCHANGED <<counterVars, mapped, changes>>

reset_oee_session ==
  /\ run' = NoRun
  /\ count' = NoCount
  /\ session' = Zero
  /\ made' = unread
  /\ taken' = [c \in Slots |-> Nothing]
  /\ UNCHANGED <<counterVars, mapped, changes>>

OeeNext ==
  \/ \E m \in Counters : PlcCounts(m) \/ PlcResets(m)
  \/ \E how \in {"time", "ahead", "behind"} : ClockMoves(how)
  \/ \E k \in Connections :
       \/ \E fresh \in SUBSET Names, status \in BOOLEAN \cup {Nothing} : Reading(k, fresh, status)
       \/ RemoveConnection(k)
  \/ save_config \/ reset_oee_session

OeeSpec == OeeInit /\ [][OeeNext]_oeeVars

-----------------------------------------------------------------------------
(* compute_oee.                                                            *)

Seen(c) == count[c].first # Nothing

\* cycles, and rejects likewise.
Cycles(c) == count[c].last - count[c].first

-----------------------------------------------------------------------------
(* What must hold.                                                         *)

Value == Nat \cup {Nothing}
Elapsed == [time : Nat, ahead : Nat, behind : Nat]

\* Types; a slot has a first count just when it has a last one and when it took
\* some value.
OeeTypeOK ==
  /\ {plc, unread, made} \subseteq [Counters -> Nat]
  /\ latest \in [Counters -> Value]
  /\ mapped \in [Slots -> Names \cup {Nothing}]
  /\ run \in [seconds : Int, status : BOOLEAN \cup {Nothing}, check : Elapsed]
  /\ count \in [Slots -> [first : Value, last : Value]]
  /\ taken \in [Slots -> Counters \cup {Nothing, Several}]
  /\ \A c \in Slots : /\ Seen(c) <=> count[c].last # Nothing
                      /\ Seen(c) <=> taken[c] # Nothing
  /\ session \in Elapsed
  /\ changes \in Nat

\* However readings, resets, pauses and new mappings interleave, the run time of
\* a session is no more than the time since it was reset; but for the wall clock:
\* as far as that was set ahead in the session it may be more, as far as it was
\* set behind it may be less than nothing.
RunWithinSession ==
  /\ run.seconds <= session.time + session.ahead
  /\ -session.behind <= run.seconds

\* However counters are reset, seen or unseen, and tags are mapped, the cycles a
\* session shows are never less than none; and if all are of one counter they are
\* pieces it counted since it was read last before the session's reset.
CyclesWereMade ==
  \A c \in Slots : Seen(c) =>
    /\ 0 <= Cycles(c)
    /\ taken[c] # Several => Cycles(c) <= made[taken[c]]

\* Why the run time holds: the part after the last look is not counted yet.
RunSoFar ==
  /\ \A how \in {"time", "ahead", "behind"} : run.check[how] <= session[how]
  /\ run.seconds <= (session.time - run.check.time) + (session.ahead - run.check.ahead)
  /\ -(session.behind - run.check.behind) <= run.seconds

\* What a counter shows beyond its latest value was counted since.
ReadSoFar ==
  \A m \in Counters :
    /\ unread[m] <= made[m]
    /\ latest[m] # Nothing => plc[m] - latest[m] <= unread[m]

\* Why the cycles hold: up to the latest value the counter was read at, taken or
\* not since the slot was mapped to another, and up to the value taken last.
CountsSoFar ==
  \A c \in Slots : Seen(c) =>
    /\ 0 <= Cycles(c)
    /\ LET m == taken[c] IN
         m # Several => /\ latest[m] # Nothing
                        /\ latest[m] - count[c].first <= made[m] - unread[m]
                        /\ Cycles(c) <= made[m] - unread[m]

\* The inductive invariant of update_oee_runtime and reset_oee_session.
OeeInv == OeeTypeOK /\ RunSoFar /\ ReadSoFar /\ CountsSoFar

=============================================================================
