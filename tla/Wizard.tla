-------------------------------- MODULE Wizard --------------------------------
(***************************************************************************)
(* A session of the commissioning wizard (commissioning_screen.py on top   *)
(* of commissioning.py): readings are recorded, addresses are found, picked*)
(* or imported, and a tag is judged by the readings.                       *)
(*                                                                         *)
(* One signal is followed; of the other signals it matters only whether    *)
(* one has an address, and whether one breaks the screen (see Spoilt).  A  *)
(* reading is done by a worker thread; the rest is Tk callbacks, which it  *)
(* can fall between: flight is the reading that is on its way to _pump.    *)
(***************************************************************************)
EXTENDS EvidenceGate, Candidates

CONSTANTS Kinds,        \* what the signal may be: number, counter, bool
          Memories,     \* what a reading of the PLC may give
          Shown,        \* what the HMI may show for it
          Seen,         \* which of these go together in a reading
          Blank,        \* the engineer types nothing for it
          Nothing,      \* no address, no reading
          Imported,     \* what the programmer's list may say of it
          MaxReadings,  \* model bounds: readings asked for,
          MaxSessions,  \*   lists imported or questions answered again,
          MaxTime       \*   and what the clock shows

ASSUME WizardConstants ==
  /\ Kinds \subseteq {"number", "counter", "bool"}
  /\ \A memory \in Memories : DOMAIN memory \subseteq Cells
  /\ Shown \subseteq [value : Int, tolerance : Nat]
  /\ Seen \subseteq [hmi : Shown, memory : Memories]
  /\ Blank \notin Shown
  /\ Nothing \notin Candidate
  /\ Imported \subseteq NumberCandidate
  /\ {MaxReadings, MaxSessions, MaxTime} \subseteq Nat

VARIABLES mode,      \* self.mode: "search" or "verify"
          kind,      \* the signal's kind
          moments,   \* self.moments
          cands,     \* self.cands of the signal, or its address in the list
          chosen,    \* self.chosen of the signal: which of cands, 0 if none
          others,    \* what self.chosen has of other signals
          busy,      \* self._busy
          stuck,     \* history: _make_reader has raised
          pumping,   \* _pump is called again
          flight,    \* the reading between its worker and _pump
          tags,      \* self.tags of the signal, as build_tags left it
          readings,  \* history: readings asked for
          sessions,  \* history: how often moments was emptied
          used       \* history: the readings find_tags searched

choiceVars == <<mode, kind, cands, chosen, others, used>>
readVars == <<busy, stuck, pumping, flight, readings>>
vars == <<choiceVars, readVars, moments, tags, sessions>>

NoTag == [address |-> Nothing, confidence |-> "unverified", proof |-> {}, used |-> {}]

READINGS_PLAN == <<"find", "find", "verify", "verify">>

Init ==
  /\ mode = "search"
  /\ kind \in Kinds
  /\ moments = <<>>
  /\ cands = <<>>
  /\ chosen = 0
  /\ others = "none"
  /\ busy = FALSE
  /\ stuck = FALSE
  /\ pumping = TRUE
  /\ flight = Nothing
  /\ tags = NoTag
  /\ readings = 0
  /\ sessions = 0
  /\ used = {}

\* An on/off tag of the programmer's list is chosen: its address is that of a
\* number, which _decode and build_tags take apart as if it were that of a bit.
Spoilt ==
  /\ mode = "verify"
  /\ others = "onoff" \/ (kind = "bool" /\ chosen # 0)

-----------------------------------------------------------------------------
(* Readings.                                                               *)

next_phase ==
  IF mode = "search" /\ Len(moments) < Len(READINGS_PLAN)
  THEN READINGS_PLAN[Len(moments) + 1] ELSE "verify"

\* self.regions is not empty: the questions are answered, or a list is there.
Regions == sessions > 0

\* A reading is refused while one is running, and before the addresses of a
\* verify reading are there.
MayRecord ==
  /\ ~busy
  /\ Regions
  /\ next_phase = "find" \/ chosen # 0 \/ others # "none"

\* "Record reading".  breaks: something is typed for an on/off tag of the list.
RecordReading(typed, breaks) ==
  /\ MayRecord
  /\ readings < MaxReadings
  /\ breaks => Spoilt
  /\ mode = "verify" /\ kind = "bool" /\ chosen # 0 /\ typed # Blank => breaks
  /\ busy' = TRUE
  /\ readings' = readings + 1
  /\ flight' = [n |-> readings + 1, hmi |-> typed, phase |-> next_phase,
                state |-> "asked", memory |-> Nothing, breaks |-> breaks]
  /\ UNCHANGED <<choiceVars, stuck, pumping, moments, tags, sessions>>

\* _make_reader raises after _busy was set (a rack or slot that is no number):
\* no worker, and nothing that resets _busy.
ReaderRaises ==
  /\ MayRecord
  /\ busy' = TRUE
  /\ stuck' = TRUE
  /\ UNCHANGED <<choiceVars, pumping, flight, readings, moments, tags, sessions>>

\* The worker reads the regions; what for is forgotten if nothing is shown to
\* compare it with.
WorkerReads(memory) ==
  /\ flight # Nothing
  /\ flight.state = "asked"
  /\ flight.hmi = Blank <=> memory = Nothing
  /\ memory # Nothing => [hmi |-> flight.hmi, memory |-> memory] \in Seen
  /\ flight' = [flight EXCEPT !.state = "read", !.memory = memory]
  /\ UNCHANGED <<choiceVars, busy, stuck, pumping, readings, moments, tags, sessions>>

WorkerFails ==
  /\ flight # Nothing
  /\ flight.state = "asked"
  /\ flight' = [flight EXCEPT !.state = "error"]
  /\ UNCHANGED <<choiceVars, busy, stuck, pumping, readings, moments, tags, sessions>>

\* A moment, with what the wall clock shows, which may have been set back.  Of a
\* find reading nobody looks at the time.
NewMoment ==
  \E at \in IF flight.phase = "find" THEN {0} ELSE 0 .. MaxTime :
    moments' = Append(moments, [n |-> flight.n, at |-> at, hmi |-> flight.hmi,
                                memory |-> flight.memory, phase |-> flight.phase])

\* Mutant: the button is not enabled again after an error.
Mutant_ErrorKeepsBusy ==
  /\ pumping
  /\ flight # Nothing
  /\ flight.state \in {"read", "error"}
  /\ IF flight.state = "error" THEN UNCHANGED moments ELSE NewMoment
  /\ flight' = Nothing
  /\ busy' = (flight.state = "error")
  /\ UNCHANGED <<choiceVars, stuck, pumping, readings, tags, sessions>>

\* _pump takes the result: a moment, or an error.  To
\* show a verify reading of an on/off tag of the list raises, and _pump, which
\* was to call itself again, does not.
Pump ==
  /\ pumping
  /\ flight # Nothing
  /\ flight.state \in {"read", "error"}
  /\ IF flight.state = "error" THEN UNCHANGED moments ELSE NewMoment
  /\ pumping' = ~(flight.state = "read" /\ flight.phase = "verify" /\ flight.breaks /\ Spoilt)
  /\ flight' = Nothing
  /\ busy' = FALSE
  /\ UNCHANGED <<choiceVars, stuck, readings, tags, sessions>>

-----------------------------------------------------------------------------
(* Addresses.                                                              *)

Moments == {moments[k] : k \in DOMAIN moments}

\* The readings find_tags searches.
Searched == {m \in Moments : m.phase = "find"}

\* What those that have a value of the signal say.
Used == {[hmi |-> m.hmi, memory |-> m.memory] : m \in {k \in Searched : k.hmi # Blank}}

\* Found, for all the readings there can be.
Listings ==
  UNION {{[kind |-> k, used |-> S, list |-> list] : list \in Found(S, k)} :
           k \in Kinds, S \in SUBSET Seen}

\* "Find tags": the first of the list is chosen.  Another signal may get an
\* address or lose it.
FindTags ==
  /\ Cardinality(Searched) >= 2
  /\ \E found \in Listings : found.kind = kind /\ found.used = Used /\ cands' = found.list
  /\ chosen' = IF cands' = <<>> THEN 0 ELSE 1
  /\ others' \in {"none", "some"}
  /\ used' = {m.n : m \in Searched}
  /\ UNCHANGED <<mode, kind, readVars, moments, tags, sessions>>

\* The engineer selects another candidate.  In "verify" mode there is one to
\* select, the list's, which self.cands does not have: the tag loses it.
Pick ==
  /\ \/ mode = "search" /\ chosen' \in DOMAIN cands \ {chosen} /\ UNCHANGED others
     \/ mode = "verify" /\ chosen' = 0 /\ UNCHANGED others
     \/ mode = "verify" /\ others # "none" /\ others' \in {"none", "some"} /\ UNCHANGED chosen
  /\ UNCHANGED <<mode, kind, cands, used, readVars, moments, tags, sessions>>

\* moments is emptied, a reading in flight is not called back.
StartSession ==
  /\ sessions < MaxSessions
  /\ sessions' = sessions + 1
  /\ moments' = <<>>
  /\ used' = {}
  /\ kind' \in Kinds
  /\ UNCHANGED <<readVars, tags>>

\* The questions are answered (again): _fill_readings.
QuestionsDone ==
  /\ StartSession
  /\ mode' = "search"
  /\ cands' = <<>>
  /\ chosen' = 0
  /\ others' = "none"

\* The programmer's list is imported: every address is chosen.
LoadImported ==
  /\ StartSession
  /\ mode' = "verify"
  /\ \E c \in Imported : cands' = <<c>>
  /\ chosen' = 1
  /\ others' \in {"none", "some", "onoff"}

-----------------------------------------------------------------------------
(* Review.                                                                 *)

\* The readings that have a value of the signal, as c reads them; one that
\* lacks its words is no evidence.
EvidenceFor(c, ms) ==
  {[n |-> m.n, at |-> m.at, hmi |-> m.hmi.value, phase |-> m.phase,
    match |-> Near(m.hmi, Decoded(m.memory, c))] :
     m \in {k \in ms : k.hmi # Blank /\ Decoded(k.memory, c) # NoData}}

Built(c, ms) ==
  LET ev == EvidenceFor(c, ms)
  IN [address |-> c, confidence |-> judge(ev), proof |-> {e.n : e \in Good(ev)}, used |-> used]

\* build_tags, for the addresses in list.
TagOf(list) == IF chosen = 0 THEN NoTag ELSE Built(list[chosen], Moments)

\* "Next: review", "Next: export", or a rename.
BuildTags ==
  /\ ~Spoilt
  /\ tags' = TagOf(cands)
  /\ UNCHANGED <<choiceVars, readVars, moments, sessions>>

\* Which readings have a value of the signal, and which of them have its words.
Valued == {k \in DOMAIN moments : moments[k].hmi # Blank}

Telling(c) == {k \in Valued : Raw(moments[k].memory, c) # NoData}

Place(k, S) == Cardinality({j \in S : j <= k})

\* None of the pairs matches.  A pair is compared by the tolerance of the
\* reading at its place, which is another's when words were missing.
NoneMatches(c) ==
  \A k \in Telling(c), l \in Valued :
    Place(k, Telling(c)) = Place(l, Valued) =>
      ~Near([value |-> moments[k].hmi.value, tolerance |-> moments[l].hmi.tolerance],
            Raw(moments[k].memory, c) * c.scale)

\* The scales for c: itself, if the readings point to no other.
Rescaled(c) ==
  LET pairs == {[shown |-> moments[k].hmi.value, raw |-> Raw(moments[k].memory, c)] :
                  k \in Telling(c)}
      scales == IF pairs # {} /\ NoneMatches(c) THEN suggest_scale(pairs) ELSE {}
  IN IF scales = {} THEN {c} ELSE {[c EXCEPT !.scale = s] : s \in scales}

\* "Apply suggested scales", and build_tags.
ApplySuggestedScales ==
  /\ IF kind = "bool" \/ chosen = 0 THEN UNCHANGED cands
     ELSE \E c \in Rescaled(cands[chosen]) : cands' = [cands EXCEPT ![chosen] = c]
  /\ tags' = IF Spoilt THEN tags ELSE TagOf(cands')
  /\ UNCHANGED <<mode, kind, chosen, others, used, readVars, moments, sessions>>

Next ==
  \/ \E typed \in Shown \cup {Blank}, breaks \in BOOLEAN : RecordReading(typed, breaks)
  \/ ReaderRaises
  \/ \E memory \in Memories \cup {Nothing} : WorkerReads(memory)
  \/ WorkerFails \/ Pump
  \/ FindTags \/ Pick \/ QuestionsDone \/ LoadImported
  \/ BuildTags \/ ApplySuggestedScales

Spec == Init /\ [][Next]_vars

-----------------------------------------------------------------------------
(* What must hold.                                                         *)

Moment == [n : 1 .. MaxReadings, at : 0 .. MaxTime, hmi : Shown \cup {Blank},
           memory : Memories \cup {Nothing}, phase : {"find", "verify"}]

Flight == [n : 1 .. MaxReadings, hmi : Shown \cup {Blank}, phase : {"find", "verify"},
           state : {"asked", "read", "error"}, memory : Memories \cup {Nothing},
           breaks : BOOLEAN]

ASSUME NothingIsNoReading == Nothing \notin Flight

TypeOK ==
  /\ mode \in {"search", "verify"}
  /\ kind \in Kinds
  /\ moments \in Seq(Moment)
  /\ \A k, l \in DOMAIN moments : k < l => moments[k].n < moments[l].n
  /\ cands \in Seq(Candidate)
  /\ chosen \in 0 .. Len(cands)
  /\ others \in {"none", "some", "onoff"}
  /\ busy \in BOOLEAN /\ stuck \in BOOLEAN /\ pumping \in BOOLEAN
  /\ flight # Nothing => flight \in Flight /\ flight.n = readings
  /\ \A k \in DOMAIN moments : moments[k].n <= readings /\ (flight # Nothing => moments[k].n < readings)
  /\ readings \in 0 .. MaxReadings
  /\ sessions \in 0 .. MaxSessions
  /\ used \subseteq 1 .. readings

\* The button is disabled (commissioning_screen.py 314-324, 371-383) while a
\* reading is under way, so there is never a second worker, and only then,
\* unless a reader could not be made: whatever fails, and whatever session is
\* started meanwhile.
BusyWhileReading ==
  /\ flight # Nothing => busy
  /\ busy => flight # Nothing \/ stuck

\* "Readings used to find an address cannot also prove it" (commissioning.py
\* 19-20): a confirmed tag has two agreeing readings that find_tags did not
\* search, however finding, picking, verifying and finding again interleave.
FindNeverProves ==
  tags.confidence = "confirmed" => \E i, j \in tags.proof \ tags.used : i # j

\* Why: find_tags searched readings that are not, and stay not, verify readings.
UsedAreFinds ==
  /\ \A k \in DOMAIN moments : moments[k].n \in used => moments[k].phase = "find"
  /\ flight # Nothing => flight.n \notin used

\* The inductive invariant of the wizard's session.
IInv == TypeOK /\ BusyWhileReading /\ UsedAreFinds /\ FindNeverProves

\* An address that "Find tags" offers agrees with a reading it was found from,
\* as review decodes it (commissioning_screen.py 552-564; the search has its
\* own way to line the words up), and applying suggested scales does not undo
\* that.
OfferedFits ==
  mode = "search" /\ used # {} =>
    \A k \in DOMAIN cands : \E m \in Moments :
      m.n \in used /\ m.hmi # Blank /\ Near(m.hmi, Decoded(m.memory, cands[k]))

\* The ways to read a number which, as review decodes them, agree with every
\* reading, and the bits that were as shown in every reading.
FittingNumbers(ms) ==
  {c \in NumberCandidate :
     /\ c.datatype \in {"int32", "uint32", "float32"} => \E k \in DOMAIN Orders : Orders[k] = c.order
     /\ c.scale \in ScalesOf(c.datatype)
     /\ \A m \in ms : Raw(m.memory, c) # NoData /\ Near(m.hmi, Decoded(m.memory, c))}

FittingBits(ms) ==
  {c \in BitCandidate :
     \A m \in ms : /\ c.addr \in DOMAIN m.memory
                   /\ Bit(m.memory[c.addr], c.bit) = Round(m.hmi.value)}

\* The same for every kind and every set of readings.
Fitting ==
  [k \in Kinds |-> [ms \in SUBSET Seen |->
     IF k = "bool" THEN FittingBits(ms) ELSE FittingNumbers(ms)]]

\* What the readings say that were searched last.
FoundFrom ==
  {[hmi |-> m.hmi, memory |-> m.memory] : m \in {k \in Moments : k.n \in used /\ k.hmi # Blank}}

\* The same but for the scale, which the session may set.
SameWords(c, d) == \A f \in DOMAIN c \ {"scale"} : f \in DOMAIN d /\ d[f] = c[f]

\* A list with what fits all of these readings, up to its length, and nothing
\* else if anything does.
LeavesNothingOut(k, ms, list) ==
  LET fitting == Fitting[k][ms]
      most == IF k = "bool" THEN 3 * MaxCandidates ELSE MaxCandidates
  IN /\ fitting # {} => \A i \in DOMAIN list : \E c \in fitting : SameWords(c, list[i])
     /\ \/ \A c \in fitting : \E i \in DOMAIN list : SameWords(c, list[i])
        \/ Len(list) = most /\ Cardinality(fitting) > most

\* "Returns the strong candidates (fit ALL readings)" (commissioning.py 640): of
\* the addresses that agree with every reading searched none is missing, but for
\* the length of the list, and then there is no other; whatever is recorded,
\* picked and rescaled since.  An on/off signal must have been shown in both
\* states.
NothingLeftOut ==
  mode = "search" /\ used # {} =>
    LET ms == FoundFrom
    IN ms # {} /\ (kind = "bool" => {Round(m.hmi.value) : m \in ms} = {0, 1}) =>
         LeavesNothingOut(kind, ms, cands)

=============================================================================
