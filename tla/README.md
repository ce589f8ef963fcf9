# ProtoProbe in TLA+

ProtoProbe reads PLCs. It has three programs that share their drivers and ideas:

* the **edge gateway** (`edge-gateway/`), a headless collector on a router that polls
  PLCs, reports by exception into a SQLite ring buffer and drains it to an MQTT broker;
* the **desktop application** (`protoprobe.py`), Tk, that polls, scans, merges and sends;
* the **commissioning** tools: the wizard (`commissioning.py`, `commissioning_screen.py`)
  that finds and proves the address of a signal, and the command line (`plcread.py`,
  `slmp_probe.py`, `plc_reader.py`).

This directory models what these programs do over time: who interleaves with whom, what
is lost, resent, stale, stopped or restarted. TLC checks the models on small instances;
TLAPS proves the properties that matter most for every value of the constants.

## Inventory

Per component: state, operations, interactions, what is hard, what makes it correct.

| Component (source) | State | Operations and interactions | Hard | Correct means |
|---|---|---|---|---|
| Ring buffer (`buffer_manager.py`) | SQLite table `outbox(id, topic, payload)` | `enqueue` (insert, commit, trim, commit) from the groups; `peek_batch`, `delete_ids` from the publisher | crash or error between the two commits; a power loss undoes commits; the trim takes rows the publisher has in hand | rows leave from the old end, are dropped only by a full ring, the size is repaired |
| MQTT publisher (`edge_collector.py` 155-255) | client, `_connected` event, `backoff_idx`, the batch and `sent_ids` | `run` connects and drains; paho's network thread calls `_on_connect`, `_on_disconnect`; procd restarts the process | unconfirmed publishes, paho's own resends, callbacks of another thread, crash before the delete | nothing accepted is lost, first copies in order, copies bounded, the buffer drains |
| Polling group (`edge_collector.py` 56-150) | per tag the last value and time sent; back-off | poll, scale, decide, enqueue, sleep; disconnect and back off on failure | marks before the enqueue; wall clock; NaN | never silent longer than the heartbeat bound; what was reported is within the deadband |
| Collector process (`edge_collector.py` 258-312) | tasks of one asyncio loop | groups and publisher share the buffer and the loop | `connect` and `wait_for_publish` block the loop | the composition is still a publisher; the cloud follows the PLC |
| Driver session (`drivers/*.py`) | `connected`, transports | connect, poll, disconnect as the group calls them | which exception means "bad tag", which "lost connection"; a disconnect that raises | a bad tag is skipped, a lost connection re-established, transports do not pile up |
| MC over UDP (`mc_driver.py` 96-160) | socket, queue of replies | request, wait, retry; datagrams | late, lost and doubled answers without a serial number | an answer belongs to its request |
| Decoding (`base_driver.py` 42-80, `protoprobe.py` 286-365, `commissioning.py` 566-598) | none | words to values, written three times: drivers, range scan, wizard | word order, sign | the three agree |
| Wizard session (`commissioning_screen.py`, `judge`) | readings (moments), candidates, chosen, tags, phase, busy | record reading (worker thread, then `_pump`), find, pick, import, apply scales, review, new session | a reading under way while the session changes; readings used twice; a scale fitted to them; exceptions in `_pump` | confirmed only by readings that did not find the address; the button comes back |
| Candidate search (`commissioning.py` 600-703) | none | find_numeric, find_bits, suggest_scale | readings that lack words, floats that are not finite, ties, limits | what is offered agrees with a reading, as the review decodes it |
| Tag lists (`commissioning.py` 195-500) | none | parsers for three file formats | text | pure |
| Reading a list (`import_regions`, `plc_reader.py`, `plcread.py`) | regions, words read, samples | read the regions word by word, decode, flag | edges of regions, words changing or missing meanwhile, exceptions | a value is made of its own words; NO DATA is the PLC's fault |
| SLMP probe (`slmp_probe.py`, `commissioning_screen.py` 393-428) | results, port and transport chosen | probes in parallel, sorted, on a thread; `_pump` takes them | answers in any order, a worker that raises | the best answer is chosen whoever came first |
| Desktop polling (`protoprobe.py` 537-596, 1071-1099, 1740-1824, 2809-2839, 2925-2941) | connections, threads, stop events, message queue, merge timer | Start All, Stop All, add, remove, load; threads report by name | threads outlive Stop; late messages; two timer chains | one live reader per connection, Stop reaches every listed thread |
| Background scans (252-274, 368-534, 2635-2677) | `scan_running`, one stop event, queue, results | start, stop, threads, pump | two scans share the event and the flag | a stop ends a scan and what was read is reported once |
| Live OEE (2841-2923) | `oee_runtime`, mapping, clock | readings of any connection, reset, mapping, removal | stale status, counter resets, a clock that is set, tags mapped anew | run time within the session, counts were made |
| Network tools (2346-2349, 2413-2538) | scanning flag, queue, table | start, worker pool, sentinel, pump | order of answers and sentinel, a worker that raises | the table is what this scan found |
| Templates, calculated tags, OEE formula (182-233, 760-960), browse dialogs, CSV, themes, packaging | - | user interface and pure functions | - | not modelled |

## Plan

In this order; all are done.

1. Edge gateway: `Outbox`, `StoreAndForward`, `MqttLink`, `Publisher`, `PollGroup`,
   `EdgeCollector`; proofs of the invariants, the refinement and the composition.
2. Drivers: `DriverSession`, `McUdp`.
3. Commissioning: `EvidenceGate`, `Wizard` and their proofs.
4. Desktop: `Polling`, `ScanJobs`, `OeeSession` and its proofs.
5. Reading a tag list, network tools: `TagRead`, `NetScan`.
6. Faults of the disk in the edge gateway (a power loss, failing transactions);
   `Candidates` and `Decode` under the wizard, with scales and on/off signals; the
   connection test in `NetScan`.
7. Proofs of `Decode` and `McUdp`.
8. Proofs of `FirstArrivalInOrder` and `CopiesBounded`; of `Polling`, `ScanJobs`,
   `NetScan`, `DriverSession`; of `ReadsTheTag` of `TagRead` and of what "Find tags" offers.
9. The import of a list as steps of `TagRead`, and proofs of all of it; that "Find tags"
   leaves out nothing that fits, and that what it offers goes on fitting; that a poll of
   `McUdp` takes a bounded number of steps.
10. Doubled datagrams in `McUdp`, tags that are silent and connects that raise in
   `DriverSession`, stray answers in `TagRead`; the wall clock, mappings and connections
   in `OeeSession`.

## Modules

```
StoreAndForward  <==  Publisher = Outbox + MqttLink          (implements)
                        ^
                  EdgeCollector = Publisher + groups          (composition)
PollGroup         one group in detail: time, modes, deadband
DriverSession     what a group sees of its driver      McUdp: one driver's exchange
Wizard = EvidenceGate + Candidates (EXTENDS Decode)         (composition)
Polling   ScanJobs   OeeSession   NetScan   TagRead
XProofs           theorems about X                     MCX: values for TLC
  (GatewayProofs: Outbox, Publisher, EdgeCollector; PollGroupProofs also of DriverSession,
   ScanJobsProofs also of OeeSession, WizardProofs also of Decode and Candidates)
```

Names of actions and variables are those of the code where TLA+ allows; DriverSession,
OeeSession and TagRead name their specification and invariants after themselves
(`SessionSpec`, `OeeInv`, `ReadInv`), so that one module can prove about two. PROJECT.json's map gives the lines of every definition. An action is a stretch of code between two
points where something else may run: an `await` (edge gateway), the return to the Tk
loop (desktop handlers), an access to shared state (threads).

* **Outbox** is the table: ids only, since neither the trim nor the batch looks at a
  payload. `Enqueue` is insert and trim; `EnqueueUntrimmed` is a process that dies
  between the two commits, or whose trim raises. `disk` is what a power loss would leave
  (`synchronous=NORMAL` appends commits to the log without a sync), `Flush` the log
  reaching the storage, `LosePower` the loss, `lost` what it took. Ids are never reused
  by AUTOINCREMENT but after a power loss, when nothing is left that knew them: the model
  counts on.
* **StoreAndForward** is the promise of the pair, without network: rows are accepted,
  delivered any number of times, and forgotten only when delivered or dropped by a full
  ring from the old end. A power loss may cost the youngest and bring back old ones.
* **MqttLink** (external) is paho 1.6 with QoS 1 and a broker, as `edge_collector.py`
  uses them: unacknowledged messages are kept and sent again on the next session; one
  TCP connection is in order and loses what it holds when it drops.
* **Publisher** is `MQTTPublisher`. `pc` names the awaits and the two calls that block the
  loop. Crash and `Respawn` stand for the process; the table survives, paho's messages do
  not. procd (`etc/init.d/edge-collector` 26) gives up after 5 crashes in 3600 s, where
  its comment says 60 s: at most `MaxFaults` failures, always respawned, are modelled.
  Of BufferManager's methods any may raise (`TrimRaises`, `BufferRaises`, and the group's
  `EnqueueRaises`): the exception of a peek or a delete leaves the drain loop with
  `sent_ids` undeleted.
* **PollGroup** keeps ages and remaining sleeps instead of clocks, so that time does not
  grow; `steps` counts how far the wall clock was set back.
* **EdgeCollector** extends Publisher: the groups' actions need the loop free
  (`LoopFree`), and enqueue through `Outbox`. A group's tags are one reading.
* **DriverSession**: a read raises kinds of exceptions: over a lost connection those of
  `library`, of a tag that is not answered a time-out, of one that is refused something of
  the protocol's own. `TransportLevel` is what the driver's first `except` names, and the
  two together decide whether the tag is skipped or the poll ends. A connect may fail with
  nothing open, or after the transport is. **McUdp** remembers in every datagram, as history
  only, which request it is for, which copy and how old; the network delays, loses,
  reorders and doubles them.
* **Decode** has the three decoders side by side. A byte has `Base` values; what a finite
  float is worth is a constant function of its bytes, in whole numbers.
* **Candidates** is the search, over memories that may lack addresses: values are counted
  in thousandths, so that scales are whole. `find_numeric` gives the set of lists it may
  return, since equal ranks come in the order of a set of strings, which differs from run
  to run. A loop of the code over the cells is a set of candidates with a condition.
* **EvidenceGate** is `judge`; **Wizard** the session around it. `flight` is the reading
  between its worker and `_pump`; what goes together in a reading, memory and HMI, is the
  constant `Seen`. Of the other signals it keeps whether one has an address and whether an
  on/off tag of an imported list breaks the screen (`Spoilt`). The wall clock shows any
  time whenever it is read (`NewMoment`), since it can be set; only the times of verify
  readings are looked at.
* **Polling**: threads are named by connection and press of Start All, so that an old
  thread and its successor are told apart although their messages are not. `_poll_queue`
  takes one message a step (`draining`): threads may put theirs in between, no other
  callback of Tk runs. ScanJobs' and NetScan's pumps are the same. The interval is a
  number of seconds, no number, or a number that is not finite ("inf": Start All starts
  the threads and its first `_merge_tick` raises).
* **ScanJobs**: a single scan is a job of one sub-scan, a full scan of several. `ended` is
  the history of what sub-scans have read; what was in the list when it was cleared is
  taken out of it.
* **OeeSession**: tags are mapped by name, several connections may have one of that name,
  and the mapping changes while the counts stay. What a slot took, what a counter counted
  and of what the differences of time stamps are made (time, steps of the clock) is history
  to compare with. Start All and Stop All do nothing to a session; a reading queued before
  Stop All is taken after it.
* **TagRead**: `import_regions` takes one span a step (`BeginBlock`, `ExtendBlock`; `pending`
  are those to come), which is its loop over the spans in order; nothing else happens until
  it is through. Addresses end at `LastNumber`, those of Siemens are even bytes, as the
  parsers see to. A word's contents are its cell and how often
  it changed, so a word from the wrong place or time is a different value. Over UDP a word
  may be read with the answer to an earlier request of the same region (`ReadStray`; every
  region has a socket of its own), as McUdp shows of the driver. Whether 32 bits
  are a sane float is the environment's choice. The regions of different areas are read in
  any order.
* **NetScan**: IP scan, port scan and connection test, whose code has one shape; `tool`
  says which is followed. The test sorts its results (`Sorted`: the sequences of these
  answers that are in order) and queues them at once; its pump is the wizard's, which
  always runs.

## Runs

One run a module, named after it, and `McUdp_old`, which is expected to be violated
(PROJECT.json, findings). "MaxX" constants are bounds on otherwise unbounded environments,
in guards.

| Run | Shows | Bounds, and why they suffice |
|---|---|---|
| Publisher_safety | inductive invariant with the budget of copies, no loss, order, copies, ring repaired, refinement of StoreAndForward | ring of 1, 3 rows, batch of 2, 2 failures (a crash, a power loss, a transaction or the network): a crash leaves the row too many, so batches of two rows, drops by the ring, a batch with a survivor, a power loss that takes rows and brings others back, and a failure while the first is repaired all happen |
| EdgeCollector_cloud | a group and the publisher are a behaviour of Publisher; the buffer drains; the cloud follows the PLC | one group (any number in GatewayProofs), ring of 2, 3 rows, one failure of the network, the process, the power or the disk, one failing poll or enqueue, one change of the PLC; fairness |
| PollGroup_report | inductive invariant, bounded silence, deadband | one tag (any number in PollGroupProofs), deadband 2 of readings 0..2 and NaN, heartbeat 3, interval 2, back-off 1..3, two clock steps: the heartbeat is longer than the interval and not its multiple, a deadband takes two readings to cross |
| McUdp_retry | inductive invariant (one socket, only this exchange's datagrams unless older ones were on their way); own answers; polls end | two tags (one of two registers), one retry, datagrams one exchange old, one doubled per socket: a second copy of either make is enough to reach the next tag; fairness |
| McUdp_old | violation: an old answer after a retry | three tags, one retry, none doubled |
| DriverSession_session | inductive invariant (transports bounded), recovery (every tag that is not bad is returned again and again) | all five protocols, reads over a lost connection that show as time-outs, as time-outs or errors of the protocol library, or as other OSErrors, two tags, each readable, refused or silent, 3 faults: losses, connects, disconnects and enqueues that raise; fairness |
| Wizard_gate | inductive invariant; confirmed only by fresh readings; what is offered fits; of what agrees with every reading searched nothing is left out; and the decoders agree on all words of the instance | 2 words of two 2-bit bytes, one memory with both and one without the second, half of the floats finite, 2 scales, 2 HMI values, 2 kinds, at most 2 candidates (6 of on/off), 4 readings (two finds, two verifies), 2 sessions: the two readings differ in what they have, so lists with 16- and 32-bit candidates, partial fits, misaligned pairs and rescaled ones happen, full and not |
| ScanJobs_safe | inductive invariant (with the running flag), a stop ends a batch, each result reported once, end | two jobs, 2 sub-scans, 2 batches, 2 snapshots; fairness |
| Polling_threads | inductive invariant (with the send timer), stop reaches listed, status, end | one name, used by two connections one after the other, 2 starts, 2 messages queued; fairness |
| OeeSession_session | inductive invariant; run time within the session's; cycles were made | two connections with the same two tags, one slot (slots are alike), 3 steps of PLCs and clock in all (count, reset, count again; time, step): readings, mappings, removals and resets of the session are not bounded |
| TagRead_read | inductive invariant (import, closing, memory, every word asked for), own words, NO DATA, regions | two tags in two areas at the words 0, 1, 3 (neighbours, overlap, one gap merged, one not), 3 samples (FLAT needs 3), one change, one skip, one stray answer; Siemens' even bytes and other numbers of samples, none included, are in the theorems |
| NetScan_scan | inductive invariant (one pump, nothing lost), table, the best port, end | all three tools, 3 targets, 2 workers, 2 scans, workers that raise (port scan and test); fairness |

TLC's deadlock check is off where the system may really stop: a command that exited
(TagRead), scans that are all done (ScanJobs, NetScan). OeeSession and
TagRead have no liveness, and names of connections and tags, or device areas, no order:
their runs use symmetry, no other does.

Runs check, in small, what is proved; and alone: all liveness (`OutboxDrains`,
`CloudFollowsPlc`, `PollEnds`, `GroupRecovers`, `ScanEnds`, `StopEnds`), and `OfferedFits` as
an invariant of an instance without the two cases that break it (see Proofs). `FrontOnly` and
`DropsOnlyWhenFull` of Publisher and `BadTagsAreSkipped` of DriverSession are proved for every
size and not run again.

## What the code does not do

Met while modelling, with the line that says otherwise. `McUdp_old` shows the
first; for the others the properties above carry the condition under which they hold, or
say nothing.

| Code | What happens | What is said |
|---|---|---|
| `mc_driver.py:137` | after a retry, or when the network doubles a reply, a late second answer is taken for the next request (McUdp_old); `OwnAnswerUnlessHaunted` is what holds; `plcread` reads so by default (`strayed` in `ReadsTheTag`) | 132-133: "an old answer is never taken for this one" |
| `edge_collector.py:210`, 243 | connect and wait_for_publish block the thread of the event loop, no group polls meanwhile | 11-12: "a dead network never blocks polling" |
| `edge_collector.py:122` | the heartbeat is measured with the wall clock; set back, it is late by as much (`SilenceBounded` has the steps in its bound) | config.json:36: "forced heartbeat interval" |
| `edge_collector.py:73` | a value is marked as sent before the enqueue, which may raise (`lost` in ReportedWithinDeadband) | 59: "Tracks last-sent value" |
| `opcua_driver.py:69`, `bacnet_driver.py:112`, `modbus_driver.py:92` | a lost connection that shows as anything but a time-out (Modbus: or a ConnectionError) is skipped tag by tag, the group never reconnects; a tag that is never answered ends every poll of MC, OPC UA and BACnet | base_driver.py:25-28: "the engine catches that" |
| `commissioning_screen.py:525` | an address picked after the verify readings is confirmed by them | commissioning.py:19: "fresh readings taken AFTER the address was chosen" |
| `commissioning_screen.py:366` | a reading under way while a new session starts lands in it with the old phase | 7: "Readings 1-2 FIND" |
| `commissioning_screen.py:254` | from the third reading on all are verify readings, also after the advice to take another finding reading | 521 |
| `commissioning_screen.py:532` | selecting the programmer's address again drops the imported tag | src README.md:73 |
| `commissioning_screen.py:354` | a rack that is not a number raises with the button disabled, and nothing enables it (`stuck` in `BusyWhileReading`) | 321-324: where no reader is made the button is given back |
| `commissioning.py:262`, `commissioning_screen.py:537`, 608 | an on/off tag of an imported list has the address of a number, which is taken apart as that of a bit: `_pump` raises and never runs again, the review too (`Spoilt`) | commissioning.py:261: "treats it like any other" |
| `commissioning_screen.py:481` | when a reading lacks the words, values are compared with the tolerances of other readings (`NoneMatches`) | 469: "the scale the readings point to" |
| `commissioning_screen.py:484` | the readings a scale was fitted to then confirm the tag | commissioning.py:19-20 |
| `commissioning_screen.py:661` | what was built last is exported, whatever was recorded or picked since | 658 |
| `commissioning.py:658` | candidates of equal rank come in another order in every run (a set of strings) | 640: "best first" |
| `commissioning.py:782` | the byte order of a 16-bit candidate read low byte first is not exported | 15-16, 24-25 |
| `slmp_probe.py:81` | a name that cannot be encoded raises out of the thread, the test's button stays disabled (`died` in `ScanEnds`) | 66: errors are turned into results |
| `protoprobe.py:2640` | a second scan clears the stop the first has not seen (`cleared` in `StopEndsBatch`) | 2637: "Safe to call while another scan is already running" |
| `protoprobe.py:2671` | the first of two scans that ends says that none runs (`overlap` in `RunningWhileActive`) | 2337 |
| `protoprobe.py:392` | a driver that cannot be made ends a full scan without its `job_done` (`ConstructorRaises`), and the scan of one range has none (`SubScanOver`): they are shown as running until a full scan ends | 534, 2637 |
| `protoprobe.py:1748` | "inf" is taken for an interval: polling starts, and nothing is sent (`raised` in `SendsWhileStarted`) | 1894 |
| `protoprobe.py:428` | a stopped scan whose connection then fails reports nothing | 374-375: "still reports whatever was read so far" |
| `protoprobe.py:596` | the late "stopped" of a replaced thread is shown for a connection that polls | 7 |
| `protoprobe.py:1763` | Stop and Start within one interval leave two send timers | 1894 |
| `protoprobe.py:2852`, 2848 | run time is added from a stale status, and by the wall clock: set ahead it adds time that did not pass, set behind it takes some away, below zero even (`RunWithinSession` has the steps in its bounds) | 2842-2843: "real run time" |
| `protoprobe.py:948`, 2815 | a tag mapped anew, or another connection's tag of the same name, goes on from the first count of the one before: cycles that nobody made (`Several` in `CyclesWereMade`) | 2843-2844: "seen this session" |
| `protoprobe.py:2859` | Start All does not begin a new session | 818 |
| `etc/init.d/edge-collector:26` | procd gives up after 5 crashes in 3600 s | 22-25: 60 s |

## Fairness, and why the code justifies it

* Publisher, EdgeCollector: asyncio runs a task that is ready, paho's thread runs, procd
  respawns; the network is fair only in that failures are finitely many (`MaxFaults`) and
  a session that is up moves its packets. Group steps need strong fairness: the loop is
  free again and again, not always, while the publisher blocks it (`CloudFollowsPlc`
  fails if the drain loop does not give it back). `ReportHeartbeat` strongly: a healthy
  group's heartbeat is due again and again.
* McUdp: only the driver's task; the network owes nothing.
* DriverSession: the group's task, a PLC that comes back, and strong fairness of
  `SomeReadRaises`: where a lost connection may show as a transport error it does so now
  and then. That is no gift: one that never shows as a time-out, and a tag that is never
  answered, are outside `GroupRecovers` (see above).
* Polling, ScanJobs, NetScan: threads run (their reads and pings have time-outs) and Tk
  fires a timer that is due; nobody has to press a button. Strong fairness of Polling's
  threads is for the model's bound on the queue only: the code's queue is unbounded, so a
  thread never waits for the drain.

## Proofs

Checked by tlapm for every value of the constants, from the named assumptions of the
modules (sizes are naturals, batches not empty, special values outside the data). But for
those about operators alone and the refinements, they are of one form: an inductive
invariant (`IInv`, `SessionInv`, `OeeInv`, `ReadInv`; also checked by TLC, with a mutant),
one step per action, and the property from it.

* **GatewayProofs**, the outbox: the rows `ORDER BY id LIMIT n` selects are older than the
  others; the trim leaves at most `max_rows` and takes nothing from a ring that fits.
* **GatewayProofs**, the publisher: `NoLoss` is not inductive. What is needed (`Ledger`):
  an acknowledgement, on its way or taken, means the broker has the row
  (`AckMeansDelivered`, so `sent_ids` may be deleted); messages are of accepted rows
  (`OnlyAccepted`); the batch in hand is the old end of the table with nothing older left
  (`BatchAtFront`), for `FrontOnly` when the trim and the delete race; the storage lags
  behind the table at both ends (`DiskLags`), so that a power loss takes the youngest rows
  and brings back only what was delivered or dropped. `FirstArrivalInOrder` needs that
  every message the client holds, resends or has on the wire is of a row whose elders are
  settled (`OldersSettled`): a resend of an old session can then not overtake.
  `CopiesBounded` counts (`CopyBudget`): a session carries once more what the client
  holds of a row, at most two messages for every failure so far, and publishes it once
  itself, after which the row is `Closed` until the next failure; the odd numbers add up to
  the square of one plus the failures. The budget is tight where it matters: only an
  actual failure ends a session (`SessionEnds`), and the one publish to a session already
  dead leaves room (`connected => ... < 2 * faults`). The refinement maps `rows`, the
  broker's history, `dropped` and `lost` to StoreAndForward: every step is Accept, Deliver,
  Forget, PowerFails or a stutter.
* **GatewayProofs**, the process: every step of a group is a Publisher step (its enqueue)
  or leaves Publisher's variables alone, so all that is proved of Publisher holds of the
  process with any number of groups.
* **PollGroupProofs**: `SilenceBounded` needs that the age the code computes follows the
  true silence up to failures and clock steps (`AgesFollow`) and that the cycle's sleep is
  on schedule (`OnSchedule`); `ReportedWithinDeadband` that marks follow writes
  (`MarksFollow`). Of the driver session: a driver that is about to connect holds only
  what a disconnect that raised left open (`LetGo`), hence at most one transport and one
  for each of those; and a tag that is refused never ends a poll, since no driver names
  among its transport errors what a refusal raises.
* **WizardProofs**: readings a search used are find readings (`UsedAreFinds`), find
  readings do not count in `judge`; with a reading in flight across sessions, for any
  memories, candidates, scales and ways to fit them. `BusyWhileReading` is inductive with
  the types. Every candidate "Find tags" offers decodes within tolerance of a reading it
  was found from (`FindTagsOffersWhatFits`), through pairs of words, byte orders, scales
  and the cut to the best few; of an on/off signal if what the HMI shows is (or rounds
  within tolerance to) on or off. It goes on doing so (`OfferedGoesOnFitting`), which needs
  that a signal's candidates are of its kind (`CandidatesAreOfTheirKind`) and that a scale is
  not touched while one reading agrees: no step ends it but the two the theorem names, an
  on/off signal typed between the states, and a scale fitted while a reading lacks the words.
  The other way round, "Find tags" leaves out nothing that agrees with every reading
  (`WhatFitsIsListed`, which stays true through rescaling since a scale alone changes; of
  `find_numeric` also that what a full list leaves out ranks no better,
  `SearchLeavesNothingOut`): candidates are finitely many, what fits all readings is what the search counts
  as many hits for as there are readings, and the first n of a set that has no more than n
  are all of it. The decoders: drivers, scan and wizard decode the same
  words to the same number, for every size of a byte and every meaning of a float.
* **TagReadProofs**: the regions cover the tags taken so far, begin and end at words of tags,
  and begin no later than what is to come (`RegionsCover`), so a span that opens a block
  lies beyond all of them, and one that extends a block leaves no gap in it
  (`RegionsApart`). Every word of a region that was read is held or was skipped
  (`EveryWordAsked`); the words of a tag are words of its region, whatever the step; hence
  `NoDataMeansSkipped`. What is held of a cell is a word its region had during the sample,
  and of that cell unless it changed or a stray answer was taken (`MemoryIsTrue`), hence
  `ReadsTheTag`.
* **McUdpProofs**: `OwnAnswerUnlessHaunted` needs that in an exchange that began with
  nothing older on its way all that comes is of it (`OnlyThisExchange`), that without a
  second copy, sent or made by the network, an exchange has one datagram, gone when the
  next begins (`OneDatagram`), and that a new socket comes with nothing under way
  (`OneSocket`, `Connect`). `PollShrinks` is the part of
  `PollEnds` that needs no fairness: a measure (`Work`) of what a poll has left, at most
  `Retries + 3` steps a tag, falls with every step of the driver in it, and no step of the
  network raises it.
* **PollingProofs**: `StopReachesListed` needs that a thread is of a press of Start All
  and of a connection made before (`OfThePast`: names are reused, connections are not);
  `ConnectedIsAlive` is about an empty queue, and inductive only as a statement about the
  last word that is said of a name, shown or still queued (`LastWordIsTrue`).
* **ScanJobsProofs**: `StopEndsBatch` needs that a scan that was running when Stop was
  pressed still sees the event and has read its batch only where it looks at the event
  next (`StopSeen`); `ReportedOnce` that reports are of sub-scans that ended and a scan
  counts its sub-scans down (`ReportsAreOfEnded`), so that no two are equal.
* **NetScanProofs**: every target asked is in exactly one place (`Pool`, `OnePlace`,
  `NothingLost`: waiting, at work, answered, in the thread's hands, queued, in the table);
  the sentinel is queued after every answer (`Stage`, `OnePlace`), so when the pump finds it
  the table is complete; the test's queue is in order (`QueueInOrder`) and its lowest word,
  or else its lowest answer, is chosen whoever came first.
* **ScanJobsProofs**, the OEE session: `RunWithinSession` needs that the part of the session
  after the last look is not counted yet (`RunSoFar`); `CyclesWereMade` that a counter has
  not gone beyond its latest value by more than it counted since (`ReadSoFar`), and that a
  slot that took one counter only has its first count no further below that counter's latest
  value than it counted until then (`CountsSoFar`), taken by the slot or not.

Only model-checked, because the prover cannot reach them: liveness and ENABLED; and, as it
is not so for all constants, `OfferedFits` as an invariant: "0.4" typed for an on/off signal
rounds to a bit it is not within tolerance of, and a scale fitted when readings lack the
words is compared with another reading's tolerance (`NoneMatches` above). The instance has
no such values; the theorems have these two cases as hypotheses.

## Not modelled

`apply_scaling` (a product and a sum), rounding and the value of a float (data, no state);
the wire formats; the parsers of tag lists; coils in the search, whose region is off; the
wizard's practice mode; in the OEE session a counter that is set ahead, or a connection
edited to read another PLC (both count as cycles); the printouts of `plcread`; templates and calculated tags; the OEE
ratios; user interface without protocol; a SQLite file that is damaged (a failing disk
raises, it does not lie); packaging. Messages of the desktop's own MQTT client are sent in
`_merge_tick` on the Tk thread, which they block; that delay is not modelled.
