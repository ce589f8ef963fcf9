------------------------------ MODULE TagRead ------------------------------
(***************************************************************************)
(* "plcread.py read": the tag list of the programmer is covered by memory  *)
(* regions (commissioning.import_regions), every region is read word by    *)
(* word with ProtoProbe's own driver (plc_reader.DriverReader), Samples    *)
(* times, and each tag is decoded from the words of its region, judged     *)
(* and flagged (plcread.cmd_read).  The PLC keeps running meanwhile: a     *)
(* word may change between two requests, the driver may leave a word out   *)
(* (a tag it skips), the connection may break, and over UDP, the default   *)
(* for Mitsubishi, a late or doubled answer to an earlier request may be   *)
(* taken for this one's (module McUdp; tried again once by default).       *)
(*                                                                         *)
(* A device area stands for an area and, for Siemens, its data block.  The *)
(* contents of a word are its cell and how often it changed, so that a     *)
(* word taken from the wrong place, or at the wrong time, is a different   *)
(* value.  Whether two words make a sane 32-bit float is a choice of the   *)
(* environment.                                                            *)
(***************************************************************************)
EXTENDS Integers, FiniteSets

CONSTANTS Areas,        \* device areas a tag may be in
          Numbers,      \* addresses a tag may have
          LastNumber,   \* none of them is higher
          Step,         \* how far the address moves per word (2 for Siemens)
          MaxGap,       \* import_regions: max_gap
          Samples,      \* --samples; 0 stands for a negative number too
          MaxTags,      \* bound on the tag list
          MaxChanges,   \* bound on the words the PLC changes
          MaxSkips,     \* bound on the words the driver leaves out
          MaxStrays     \* bound on the words whose answer is another word's

ASSUME StepAssumption == Step \in {1, 2}
(* A Siemens tag that starts at an odd byte is not imported (435-437). *)
ASSUME NumbersAssumption ==
  /\ LastNumber \in Nat /\ Numbers \subseteq 0 .. LastNumber
  /\ \A n \in Numbers : n % Step = 0
ASSUME GapAssumption == MaxGap \in Nat \ {0}
ASSUME BoundsAssumption == Samples \in Nat /\ MaxChanges \in Nat
(* Siemens is read over TCP, where no answer can be another request's. *)
ASSUME StraysAssumption == MaxStrays \in Nat /\ (Step = 2 => MaxStrays = 0)

VARIABLES tags,         \* the imported list
          pending,      \* tags of it that no region covers yet
          regions,      \* the regions that cover the others
          plc,          \* the PLC: how often each changed cell changed
          sample,       \* the sample being read
          left,         \* regions this sample still has to read
          todo,         \* addresses of the open region still to read
          connected,    \* a driver is connected
          memory,       \* of every sample: cell -> word, for the words read
          exit,         \* exit code, -1 while running
          flags,        \* the flags of every tag, once judged
          (* What happened, for the properties only. *)
          began,        \* of every sample: the PLC when it began
          moved,        \* of every sample: cells that changed during it
          skipped,      \* of every sample: cells the driver left out
          strayed,      \* of every sample: cells read with another's answer
          undone        \* the driver's disconnect raised

listVars == <<tags, pending, regions>>
pastVars == <<began, moved, skipped, strayed, undone>>
readVars == <<listVars, plc, sample, left, todo, connected, memory, exit, flags, pastVars>>

TagSpace == [area : Areas, number : Numbers, words : {1, 2}]

(* The cells of a tag: t["number"] and, of a 32-bit one, the next word. *)
LastWord(t) == t.number + (t.words - 1) * Step
Cells(t) == {<<t.area, t.number>>, <<t.area, LastWord(t)>>}

------------------------------------------------------------------------------
(* import_regions: the spans of an area in ascending order, merged unless   *)
(* the next one begins more than MaxGap words after the end so far.  The    *)
(* areas are independent of each other: any order of them.                  *)
SpanBefore(t, u) ==
  t.number < u.number \/ (t.number = u.number /\ LastWord(t) <= LastWord(u))

Larger(a, b) == IF a >= b THEN a ELSE b

(* The block that is open in its area is the one begun last. *)
OpenBlock(g) == g \in regions /\ \A h \in regions : h.area = g.area => h.start <= g.start

(* Mutant: The gap is measured from the start of the block, not from its end. *)
Mutant_GapFromStart(t, g) == t.number - g.start > MaxGap * Step

Beyond(t, g) == t.number - g.end > MaxGap * Step

Running == exit = -1

(* The next span of its area is taken, the regions become new. *)
TakeSpan(t, new) ==
  /\ Running
  /\ t \in pending
  /\ \A u \in pending : u.area = t.area => SpanBefore(t, u)
  /\ pending' = pending \ {t}
  /\ regions' = new
  /\ left' = new
  /\ UNCHANGED <<tags, plc, sample, todo, connected, memory, exit, flags, pastVars>>

BeginBlock(t) ==
  /\ \A g \in regions : g.area = t.area /\ OpenBlock(g) => Beyond(t, g)
  /\ TakeSpan(t, regions \cup
                   {[area |-> t.area, start |-> t.number, end |-> LastWord(t)]})

(* Mutant: A block ends where its last tag begins. *)
Mutant_EndsAtNumber(t, g) ==
  /\ g.area = t.area /\ OpenBlock(g) /\ ~Beyond(t, g)
  /\ TakeSpan(t, (regions \ {g}) \cup {[g EXCEPT !.end = Larger(@, t.number)]})

ExtendBlock(t, g) ==
  /\ g.area = t.area /\ OpenBlock(g) /\ ~Beyond(t, g)
  /\ TakeSpan(t, (regions \ {g}) \cup {[g EXCEPT !.end = Larger(@, LastWord(t))]})

(* The region a tag is decoded from: of its area, holding its number. *)
RegionOf(t) ==
  CHOOSE g \in regions : g.area = t.area /\ g.start <= t.number /\ t.number <= g.end

(* build_range_tags: the addresses of a region, one 16-bit word each. *)
RangeTags(g) == {n \in g.start .. g.end : (n - g.start) % Step = 0}
Asked(g) == {<<g.area, n>> : n \in RangeTags(g)}

------------------------------------------------------------------------------
Word(cell) == <<cell, plc[cell]>>
TagCells == UNION {Cells(t) : t \in tags}
AllCells == Areas \X (0 .. LastNumber + Step)

NoMemory == [c \in {} |-> 0]

ReadInit ==
  /\ tags \in {{t, u, v} : t, u, v \in TagSpace}
  /\ Cardinality(tags) <= MaxTags
  /\ pending = tags
  /\ regions = {}
  /\ plc = [c \in AllCells |-> 0]
  /\ sample = 1
  /\ left = regions
  /\ todo = {}
  /\ connected = FALSE
  /\ memory = [i \in 1 .. Samples |-> NoMemory]
  /\ exit = -1
  /\ flags = {}
  /\ began = [i \in 1 .. Samples |-> [c \in AllCells |-> 0]]
  /\ moved = [i \in 1 .. Samples |-> {}]
  /\ skipped = [i \in 1 .. Samples |-> {}]
  /\ strayed = [i \in 1 .. Samples |-> {}]
  /\ undone = FALSE

(* for i in range(args.samples): this one is read. *)
Reading == Running /\ pending = {} /\ sample <= Samples

(* The PLC is not waiting for us: any word may change at any time.  What it *)
(* did before the first sample is in its initial state.                     *)
PlcChanges(c) ==
  /\ Reading
  /\ plc' = [plc EXCEPT ![c] = @ + 1]
  /\ Cardinality({d \in AllCells : plc'[d] > 0}) <= MaxChanges
  /\ plc'[c] <= MaxChanges
  /\ moved' = [moved EXCEPT ![sample] = @ \cup {c}]
  /\ UNCHANGED <<listVars, sample, left, todo, connected, memory, exit, flags, began, skipped,
                 strayed, undone>>

(* read_region: a new driver connects and begins at the first address; the *)
(* regions of an area in order, the areas in any order.                    *)
Connect(g) ==
  /\ Reading /\ ~connected
  /\ g \in left
  /\ \A h \in left : h.area = g.area => g.start <= h.start
  /\ connected' = TRUE
  /\ todo' = Asked(g)
  /\ left' = left \ {g}
  /\ UNCHANGED <<listVars, plc, sample, memory, exit, flags, pastVars>>

IsNext(c) == c \in todo /\ \A d \in todo : c[2] <= d[2]

(* The answer w is put down for the next word of the batch. *)
TakeAnswer(c, w) ==
  /\ Running /\ IsNext(c)
  /\ todo' = todo \ {c}
  /\ memory' = [memory EXCEPT ![sample] =
                  [d \in DOMAIN @ \cup {c} |-> IF d = c THEN w ELSE @[d]]]
  /\ UNCHANGED <<listVars, plc, sample, left, connected, exit, flags, began, moved, skipped,
                 undone>>

(* Mutant: The words read before are kept for the next sample. *)
Mutant_KeepsFirst(c) ==
  /\ TakeAnswer(c, IF c \in DOMAIN memory[1] THEN memory[1][c] ELSE Word(c))
  /\ UNCHANGED strayed

(* poll: the next word of the batch is read ... *)
ReadWord(c) == TakeAnswer(c, Word(c)) /\ UNCHANGED strayed

(* The words that cells held while sample i was read. *)
Until(i) == IF i < sample THEN began[i + 1] ELSE plc
Held(i, cells) == UNION {{<<d, k>> : k \in began[i][d] .. Until(i)[d]} : d \in cells}

(* ... over UDP perhaps with a late answer to a request for an earlier word *)
(* of the region, which this driver asked for on this socket.  (A late one  *)
(* for the same word is that word, read earlier.)                           *)
ReadStray(c) ==
  /\ Cardinality(UNION {strayed[i] : i \in 1 .. Samples}) < MaxStrays
  /\ \E g \in regions \ left :
       /\ c \in Asked(g)
       /\ \E w \in Held(sample, {d \in Asked(g) : d[2] < c[2]}) : TakeAnswer(c, w)
  /\ strayed' = [strayed EXCEPT ![sample] = @ \cup {c}]

(* ... or skipped with a warning: "if t["name"] in values" leaves it out. *)
SkipWord(c) ==
  /\ Running /\ IsNext(c)
  /\ Cardinality(UNION {skipped[i] : i \in 1 .. Samples}) < MaxSkips
  /\ todo' = todo \ {c}
  /\ skipped' = [skipped EXCEPT ![sample] = @ \cup {c}]
  /\ UNCHANGED <<listVars, plc, sample, left, connected, memory, exit, flags, began, moved,
                 strayed, undone>>

(* The region is read: the driver disconnects (finally). *)
Disconnect ==
  /\ Running /\ connected /\ todo = {}
  /\ connected' = FALSE
  /\ UNCHANGED <<listVars, plc, sample, left, todo, memory, exit, flags, pastVars>>

(* An exception ends the command with a message and exit code 1. *)
Fails ==
  /\ Reading /\ (left # {} \/ connected)
  /\ todo' = {}
  /\ exit' = 1
  /\ UNCHANGED <<listVars, plc, sample, left, memory, flags, began, moved, skipped, strayed>>

(* Mutant: No "finally": an exception leaves the driver connected. *)
Mutant_NoFinally == Fails /\ UNCHANGED <<connected, undone>>

(* connect or poll raises; the latter in a try whose finally disconnects. *)
ReadFails == Fails /\ connected' = FALSE /\ UNCHANGED undone

(* The disconnect raises, of a driver that did well or not: whether it is   *)
(* closed is up to the driver.                                              *)
DisconnectFails == Fails /\ connected /\ connected' \in BOOLEAN /\ undone' = TRUE

(* All regions read: the next sample, after --interval seconds. *)
NextSample ==
  /\ Running /\ pending = {} /\ ~connected /\ left = {} /\ sample < Samples
  /\ sample' = sample + 1
  /\ left' = regions
  /\ began' = [began EXCEPT ![sample + 1] = plc]
  /\ UNCHANGED <<listVars, plc, todo, connected, memory, exit, flags, moved, skipped, strayed,
                 undone>>

------------------------------------------------------------------------------
(* "has": the sample holds every word of the tag, in its region. *)
InRegion(g, c) == c[1] = g.area /\ g.start <= c[2] /\ c[2] <= g.end
Has(t, i) == \A c \in Cells(t) : InRegion(RegionOf(t), c) /\ c \in DOMAIN memory[i]
Value(t, i) == <<memory[i][<<t.area, t.number>>], memory[i][<<t.area, LastWord(t)>>]>>

Flat(t) == /\ Samples >= 3
           /\ \A i \in 1 .. Samples : Has(t, i)
           /\ Cardinality({Value(t, i) : i \in 1 .. Samples}) = 1

(* Every tag is judged over all samples; the exit code counts the flagged.  *)
(* bad: the 32-bit values that are no float (there is no value then);       *)
(* suspect: those that are an absurd one.  Without a sample there is no     *)
(* last value: vals[-1] raises, and nothing is printed.                     *)
Judge(bad, suspect) ==
  /\ Running /\ pending = {} /\ ~connected
  /\ Samples = 0 \/ (left = {} /\ sample = Samples)
  /\ flags' =
       {<<t, "NO DATA">> : t \in {u \in tags : \E i \in 1 .. Samples : ~Has(u, i)}}
       \cup {<<t, "BAD FLOAT">> : t \in {u \in bad : \E i \in 1 .. Samples : Has(u, i)}}
       \cup {<<t, "SUSPECT">> :
               t \in {u \in suspect \ bad : \E i \in 1 .. Samples : Has(u, i)}}
       \cup {<<t, "FLAT">> : t \in {u \in tags \ bad : Flat(u)}}
  /\ exit' = IF Samples = 0 THEN 1 ELSE IF flags' = {} THEN 0 ELSE 2
  /\ UNCHANGED <<listVars, plc, sample, left, todo, connected, memory, pastVars>>

Command == \/ \E g \in left : Connect(g)
           \/ \E c \in todo : ReadWord(c) \/ ReadStray(c) \/ SkipWord(c)
           \/ Disconnect \/ ReadFails \/ DisconnectFails \/ NextSample
           \/ \E bad \in SUBSET {t \in tags : t.words = 2} :
                \E suspect \in SUBSET {t \in tags : t.words = 2} :
                  Judge(bad, suspect)

Import == \E t \in pending : BeginBlock(t) \/ \E g \in regions : ExtendBlock(t, g)

ReadNext == \/ \E c \in TagCells : PlcChanges(c)
            \/ Import \/ Command

ReadSpec == ReadInit /\ [][ReadNext]_readVars

------------------------------------------------------------------------------
(* Type correctness: the words of a sample are words its regions ask for,  *)
(* and nothing is left to read unless a driver is connected.               *)
ReadTypeOK ==
  /\ tags \subseteq TagSpace /\ pending \subseteq tags
  /\ regions \subseteq [area : Areas, start : 0 .. LastNumber, end : 0 .. LastNumber + Step]
  /\ plc \in [AllCells -> 0 .. MaxChanges]
  /\ sample \in Nat \ {0} /\ (sample <= Samples \/ Samples = 0)
  /\ left \subseteq regions
  /\ connected \in BOOLEAN /\ undone \in BOOLEAN
  /\ todo \subseteq AllCells /\ (todo # {} => connected)
  /\ \A c \in todo : \E g \in regions : c \in Asked(g)
  /\ DOMAIN memory = 1 .. Samples
  /\ began \in [1 .. Samples -> [AllCells -> 0 .. MaxChanges]]
  /\ {moved, skipped, strayed} \subseteq [1 .. Samples -> SUBSET AllCells]
  /\ exit \in {-1, 0, 1, 2}
  /\ pending # {} => /\ Running /\ sample = 1
                     /\ \A i \in 1 .. Samples : DOMAIN memory[i] = {}
  /\ pending # {} \/ Samples = 0 => left = regions /\ todo = {} /\ ~connected

(* What the command holds of a cell is a word the PLC held meanwhile, of a  *)
(* cell its region asked for: that cell, as it was when the sample began,   *)
(* unless it changed or a stray answer was taken for it; nothing is known   *)
(* of a later sample.                                                       *)
MemoryIsTrue ==
  \A i \in 1 .. Samples :
    /\ \A c \in DOMAIN memory[i] :
         /\ \E g \in regions : c \in Asked(g) /\ memory[i][c] \in Held(i, Asked(g))
         /\ c \notin moved[i] \cup strayed[i] => memory[i][c] = <<c, began[i][c]>>
    /\ i > sample => DOMAIN memory[i] = {} /\ moved[i] = {}

(* The PLC is as it was when the sample began, where it did not change. *)
PlcSinceBegan ==
  sample <= Samples =>
    \A c \in AllCells : /\ began[sample][c] <= plc[c]
                        /\ c \notin moved[sample] => plc[c] = began[sample][c]

(* What is printed for a tag is what the PLC held: whatever is late, both   *)
(* its words are words the PLC held while that sample was read (the two of  *)
(* them at different times perhaps), of the region the tag is in and of no  *)
(* other, for every region has its own socket; and they are exactly its own *)
(* words in a sample in which neither changed and no stray answer was taken *)
(* for either (import_regions, build_range_tags, read_region and            *)
(* decode_candidate agree on every address).                                *)
ReadsTheTag ==
  exit \in {0, 2} =>
    \A t \in tags, i \in 1 .. Samples :
      Has(t, i) =>
        /\ \A w \in {1, 2} : Value(t, i)[w] \in Held(i, Asked(RegionOf(t)))
        /\ Cells(t) \cap (moved[i] \cup strayed[i]) = {} =>
             Value(t, i) = <<<<<<t.area, t.number>>, began[i][<<t.area, t.number>>]>>,
                             <<<<t.area, LastWord(t)>>, began[i][<<t.area, LastWord(t)>>]>>>>

(* NO DATA blames the PLC: a tag is flagged so only if the driver really    *)
(* left one of its words out, never because the regions forgot to ask       *)
(* ("the PLC reply did not contain this address").                          *)
NoDataMeansSkipped ==
  \A t \in tags : <<t, "NO DATA">> \in flags =>
    \E i \in 1 .. Samples : Cells(t) \cap skipped[i] # {}

(* A list spread over a big gap does not read the gap: two regions of one   *)
(* area are more than MaxGap words apart, and inside a region no stretch of *)
(* MaxGap words or more is there without a tag in it.                       *)
RegionsApart ==
  /\ \A g, h \in regions :
       g # h /\ g.area = h.area => \/ h.start - g.end > MaxGap * Step
                                   \/ g.start - h.end > MaxGap * Step
  /\ \A g \in regions : \A n \in RangeTags(g) :
       n + (MaxGap - 1) * Step <= g.end =>
         \E k \in 0 .. MaxGap - 1 : <<g.area, n + k * Step>> \in TagCells

(* No driver stays connected behind the command's back, whatever failed but *)
(* the disconnect itself.                                                   *)
ClosedAtExit == ~Running => ~connected \/ undone

(* While the list is imported: the regions so far cover the tags so far,    *)
(* begin and end at words of tags, and begin no later than what is to come. *)
RegionsCover ==
  /\ \A g \in regions :
       /\ g.start <= g.end /\ g.start % Step = 0 /\ g.end % Step = 0
       /\ {<<g.area, g.start>>, <<g.area, g.end>>} \subseteq TagCells
       /\ \E h \in regions : h.area = g.area /\ OpenBlock(h)
       /\ \A t \in pending : t.area = g.area => g.start <= t.number
  /\ \A t \in tags \ pending : \E g \in regions : \A c \in Cells(t) : InRegion(g, c)

(* Every word of the regions done with was read or skipped, in every sample *)
(* so far; of the region that is open, it may be still to read.             *)
EveryWordAsked ==
  exit # 1 =>
    \A g \in regions : \A n \in RangeTags(g) :
      /\ \A i \in 1 .. sample - 1 : <<g.area, n>> \in DOMAIN memory[i] \cup skipped[i]
      /\ g \notin left => <<g.area, n>> \in todo \cup DOMAIN memory[sample] \cup skipped[sample]

(* No tag is flagged before it is judged, nor after a failure. *)
FlaggedOnceJudged == flags # {} => exit = 2

(* The inductive invariant: the import, the command's own state, at rest    *)
(* and under way, and what it remembers of the PLC.                         *)
ReadInv ==
  /\ ReadTypeOK /\ ClosedAtExit /\ MemoryIsTrue /\ PlcSinceBegan
  /\ RegionsCover /\ RegionsApart /\ EveryWordAsked
  /\ FlaggedOnceJudged /\ NoDataMeansSkipped

==============================================================================
