---------------------------- MODULE WizardProofs ----------------------------
(***************************************************************************)
(* What judge and the wizard's session guarantee for every set of          *)
(* addresses, every value shown and any number of readings.                *)
(***************************************************************************)
EXTENDS Wizard, FunctionTheorems, FiniteSetTheorems, SequenceTheorems, TLAPS

-----------------------------------------------------------------------------
(* The three decoders agree, for every size of a byte and all words.       *)

\* A word is its two bytes.
LEMMA BytesOfWord ==
  ASSUME NEW w \in Words
  PROVE  /\ High(w) \in 0 .. Base - 1
         /\ Low(w) \in 0 .. Base - 1
         /\ w = High(w) * Base + Low(w)
<1>1. Base \in Nat /\ Base > 1
  BY DecodeConstants
<1>2. w \in Nat /\ w < Base * Base
  BY <1>1 DEF Words, Word
<1>3. High(w) \in Int /\ Low(w) \in 0 .. Base - 1 /\ w = High(w) * Base + Low(w)
  BY <1>1, <1>2 DEF High, Low
<1>4. High(w) >= 0
  BY <1>1, <1>2, <1>3
<1>5. High(w) < Base
  BY <1>1, <1>2, <1>3
<1> QED BY <1>1, <1>3, <1>4, <1>5

\* The remainder is the only number between 0 and n that differs by a multiple.
LEMMA RemainderIs ==
  ASSUME NEW n \in Nat \ {0}, NEW w \in 0 .. n - 1
  PROVE  w % n = w /\ (w - n) % n = w
OBVIOUS

\* The size of a word.
LEMMA WordSize == Word \in Nat /\ Word > 1
<1>1. Base \in Nat /\ Base > 1
  BY DecodeConstants
<1> QED BY <1>1 DEF Word

\* Reading a word as int16 loses nothing: the word comes back by & 0xFFFF.
THEOREM WordsAlwaysComeBack == WordsComeBack
<1> SUFFICES ASSUME NEW w \in Words
             PROVE  raw_word_from_int16(decode_value(<<w>>, "int16")) = w
  BY DEF WordsComeBack
<1>1. Word \in Nat \ {0} /\ w \in 0 .. Word - 1
  BY WordSize DEF Words
<1>2. w % Word = w /\ (w - Word) % Word = w
  BY <1>1, RemainderIs
<1>3. decode_value(<<w>>, "int16") \in {w, w - Word}
  BY DEF decode_value, Signed
<1> QED BY <1>2, <1>3 DEF raw_word_from_int16

\* What a scan offers to search in is what the drivers decode.
THEOREM ScanAlwaysOffersDecodable == ScanOffersDecodable
<1> SUFFICES ASSUME NEW w0 \in Words, NEW w1 \in Words, NEW t \in DATA_TYPES_32
             PROVE  compute_32bit_candidates(decode_value(<<w0>>, "int16"),
                                             decode_value(<<w1>>, "int16"))[t]
                      = decode_value(<<w0, w1>>, t)
  BY DEF ScanOffersDecodable
<1> DEFINE cur == decode_value(<<w0>>, "int16")
           nxt == decode_value(<<w1>>, "int16")
<1>1. raw_word_from_int16(cur) = w0 /\ raw_word_from_int16(nxt) = w1
  BY WordsAlwaysComeBack DEF WordsComeBack
<1> HIDE DEF cur, nxt
<1>2. compute_32bit_candidates(cur, nxt) =
        [int32      |-> Signed(Packed(w0, w1), Word * Word),
         uint32     |-> Packed(w0, w1),
         float32_be |-> Float(PackedBytes(w0, w1)),
         float32_le |-> Float(PackedBytes(w1, w0))]
  BY <1>1 DEF compute_32bit_candidates
<1>3. compute_32bit_candidates(cur, nxt)[t] = decode_value(<<w0, w1>>, t)
  <2>1. CASE t = "int32"
    BY <1>2, <2>1 DEF decode_value
  <2>2. CASE t = "uint32"
    BY <1>2, <2>2 DEF decode_value
  <2>3. CASE t = "float32_be"
    BY <1>2, <2>3 DEF decode_value
  <2>4. CASE t = "float32_le"
    BY <1>2, <2>4 DEF decode_value
  <2> QED BY <2>1, <2>2, <2>3, <2>4 DEF DATA_TYPES_32
<1> QED BY <1>3 DEF cur, nxt

\* Four bytes, highest first, make the number that the two words do.
LEMMA BytesMakeWords ==
  ASSUME NEW w0 \in Words, NEW w1 \in Words
  PROVE  BigEndian(PackedBytes(w0, w1)) = Packed(w0, w1)
<1> DEFINE h0 == High(w0)  l0 == Low(w0)  h1 == High(w1)  l1 == Low(w1)
<1>1. /\ h0 \in Int /\ l0 \in Int /\ h1 \in Int /\ l1 \in Int
      /\ w0 = h0 * Base + l0 /\ w1 = h1 * Base + l1
      /\ Base \in Int
  BY BytesOfWord, DecodeConstants
<1>2. BigEndian(PackedBytes(w0, w1)) = ((h0 * Base + l0) * Base + h1) * Base + l1
  BY DEF BigEndian, PackedBytes
<1> HIDE DEF h0, l0, h1, l1
<1>3. ((h0 * Base + l0) * Base + h1) * Base + l1 = (w0 * Base + h1) * Base + l1
  BY <1>1
<1>4. w0 \in Int
  BY WordSize DEF Words
<1>5. (w0 * Base + h1) * Base + l1 = w0 * (Base * Base) + (h1 * Base + l1)
  BY <1>1, <1>4
<1> QED BY <1>1, <1>2, <1>3, <1>5 DEF Packed, Word

\* The wizard verifies a tag as the number the drivers will report.
THEOREM WizardAlwaysReadsAsDrivers == WizardReadsAsDrivers
<1> SUFFICES ASSUME NEW w0 \in Words, NEW w1 \in Words
             PROVE  /\ InterpretedShort(w0, "int16", "AB") = decode_value(<<w0>>, "int16")
                    /\ InterpretedShort(w0, "uint16", "AB") = decode_value(<<w0>>, "uint16")
                    /\ \A t \in DATA_TYPES_32 :
                         InterpretedLong(w0, w1, Same[t][1], Same[t][2]) = decode_value(<<w0, w1>>, t)
  BY DEF WizardReadsAsDrivers
<1>1. InterpretedShort(w0, "int16", "AB") = decode_value(<<w0>>, "int16")
  BY DEF InterpretedShort, decode_value
<1>2. InterpretedShort(w0, "uint16", "AB") = decode_value(<<w0>>, "uint16")
  BY DEF InterpretedShort, decode_value
<1>3. /\ Reordered(w0, w1, "ABCD") = PackedBytes(w0, w1)
      /\ Reordered(w0, w1, "CDAB") = PackedBytes(w1, w0)
  BY DEF Reordered, PackedBytes
<1>4. BigEndian(PackedBytes(w0, w1)) = Packed(w0, w1)
  BY BytesMakeWords
<1>5. ASSUME NEW t \in DATA_TYPES_32
      PROVE  InterpretedLong(w0, w1, Same[t][1], Same[t][2]) = decode_value(<<w0, w1>>, t)
  <2>1. CASE t = "int32"
    <3>1. Same[t] = <<"int32", "ABCD">>
      BY <2>1 DEF Same
    <3> QED BY <1>3, <1>4, <2>1, <3>1 DEF InterpretedLong, decode_value
  <2>2. CASE t = "uint32"
    <3>1. Same[t] = <<"uint32", "ABCD">>
      BY <2>2 DEF Same
    <3> QED BY <1>3, <1>4, <2>2, <3>1 DEF InterpretedLong, decode_value
  <2>3. CASE t = "float32_be"
    <3>1. Same[t] = <<"float32", "ABCD">>
      BY <2>3 DEF Same
    <3> QED BY <1>3, <2>3, <3>1 DEF InterpretedLong, decode_value
  <2>4. CASE t = "float32_le"
    <3>1. Same[t] = <<"float32", "CDAB">>
      BY <2>4 DEF Same
    <3> QED BY <1>3, <2>4, <3>1 DEF InterpretedLong, decode_value
  <2> QED BY <2>1, <2>2, <2>3, <2>4 DEF DATA_TYPES_32
<1> QED BY <1>1, <1>2, <1>5

-----------------------------------------------------------------------------
(* The judge.                                                              *)

\* Readings that found an address never help to confirm it: judge confirms on
\* all the evidence exactly when it confirms on the verify readings alone.
THEOREM FindReadingsAreMute ==
  ASSUME NEW ev
  PROVE  judge(ev) = "confirmed" <=> judge({e \in ev : e.phase # "find"}) = "confirmed"
<1> DEFINE fresh == {e \in ev : e.phase # "find"}
<1>1. Good(ev) = Good(fresh)
  BY DEF Good, Matching
<1>2. Confirmed(ev) <=> Confirmed(fresh)
  BY <1>1 DEF Confirmed
<1>3. ASSUME Confirmed(ev) PROVE Matching(ev) # {}
  BY <1>3 DEF Confirmed, Good
<1>4. ASSUME Confirmed(fresh) PROVE Matching(fresh) # {}
  BY <1>4 DEF Confirmed, Good
<1> HIDE DEF fresh
<1>5. judge(ev) = "confirmed" <=> Confirmed(ev)
  BY <1>3 DEF judge
<1>6. judge(fresh) = "confirmed" <=> Confirmed(fresh)
  BY <1>4 DEF judge
<1>7. judge(ev) = "confirmed" <=> judge(fresh) = "confirmed"
  BY <1>2, <1>5, <1>6
<1> QED BY <1>7 DEF fresh

\* More evidence never takes a confirmation away (commissioning.py 760-773
\* looks for one pair that proves): what the screen shows as confirmed stays
\* confirmed whatever is read next.
THEOREM MoreEvidenceKeepsConfirmed ==
  ASSUME NEW ev, NEW more, judge(ev) = "confirmed", ev \subseteq more
  PROVE  judge(more) = "confirmed"
<1>1. Confirmed(ev)
  BY DEF judge
<1>2. Good(ev) \subseteq Good(more)
  BY DEF Good, Matching
<1>3. Confirmed(more)
  BY <1>1, <1>2 DEF Confirmed
<1>4. Matching(more) # {}
  BY <1>3 DEF Confirmed, Good
<1> QED BY <1>3, <1>4 DEF judge

-----------------------------------------------------------------------------
\* What a sequence of moments holds.
LEMMA MomentsAre ==
  ASSUME NEW ms \in Seq(Moment), NEW k \in DOMAIN ms
  PROVE  /\ ms[k] \in Moment
         /\ ms[k].n \in Nat
         /\ ms[k].at \in Nat
         /\ k \in Nat
<1>1. ms[k] \in Moment /\ k \in Nat
  OBVIOUS
<1>2. MaxReadings \in Nat /\ MaxTime \in Nat
  BY WizardConstants
<1> QED BY <1>1, <1>2 DEF Moment

\* No two moments are the same reading.
LEMMA ReadingsDiffer ==
  ASSUME TypeOK, NEW k \in DOMAIN moments, NEW l \in DOMAIN moments,
         moments[k].n = moments[l].n
  PROVE  k = l
<1>1. moments \in Seq(Moment)
  BY DEF TypeOK
<1>2. moments[k].n \in Nat /\ moments[l].n \in Nat /\ k \in Nat /\ l \in Nat
  BY <1>1, MomentsAre
<1>3. \A i, j \in DOMAIN moments : i < j => moments[i].n < moments[j].n
  BY DEF TypeOK
<1> QED BY <1>2, <1>3

\* A list that the search returns holds candidates.
LEMMA ListsHoldCandidates ==
  ASSUME NEW found \in Listings
  PROVE  found.list \in Seq(Candidate)
<1>1. MaxCandidates \in Nat /\ 3 * MaxCandidates \in Nat
  BY CandidateConstants
<1>2. ASSUME NEW S, S \subseteq Candidate, NEW rank, NEW n \in Nat, NEW list \in FirstOf(S, rank, n)
      PROVE  list \in Seq(Candidate)
  <2>1. PICK k \in 0 .. n : list \in [1 .. k -> S]
    BY DEF FirstOf
  <2>2. k \in Nat /\ list \in [1 .. k -> Candidate]
    BY <1>2, <2>1
  <2> QED BY <2>2, SeqDef
<1>3. <<>> \in Seq(Candidate)
  OBVIOUS
<1>4. ASSUME NEW S, NEW list \in find_bits(S) PROVE list \in Seq(Candidate)
  <2> DEFINE hits == {c \in BitCandidate :
                /\ c.addr \in Have(S)
                /\ \A m \in S : Bit(m.memory[c.addr], c.bit) = Round(m.hmi.value)}
  <2>1. hits \subseteq Candidate
    BY DEF Candidate
  <2>2. list \in FirstOf(hits, [c \in hits |-> <<c.addr, c.bit>>], 3 * MaxCandidates) \/ list = <<>>
    BY DEF find_bits
  <2> HIDE DEF hits
  <2> QED BY <1>1, <1>2, <1>3, <2>1, <2>2
<1>5. ASSUME NEW S, NEW sort, NEW list \in find_numeric(S, sort) PROVE list \in Seq(Candidate)
  <2> DEFINE out == {c \in Tried(S) : Hits(S, c) > 0}
  <2>1. out \subseteq Candidate
    BY DEF Tried, Candidate
  <2>2. ASSUME list # <<>>
        PROVE  \E p \in SUBSET out :
                 list \in FirstOf(p, [c \in p |-> Rank(S, sort, c)], MaxCandidates)
    BY <2>2 DEF find_numeric
  <2>3. CASE list # <<>>
    <3>1. PICK p \in SUBSET out :
            list \in FirstOf(p, [c \in p |-> Rank(S, sort, c)], MaxCandidates)
      BY <2>2, <2>3
    <3> HIDE DEF out
    <3> QED BY <1>1, <1>2, <2>1, <3>1
  <2> QED BY <1>3, <2>3
<1>6. PICK k \in Kinds, S \in SUBSET Seen : found \in {[kind |-> k, used |-> S, list |-> list] : list \in Found(S, k)}
  BY DEF Listings
<1>7. found.list \in Found(S, k)
  BY <1>6
<1> QED BY <1>4, <1>5, <1>7 DEF Found

\* A candidate given another scale is a candidate.
LEMMA RescaledAreCandidates ==
  ASSUME NEW c \in Candidate, NEW d \in Rescaled(c)
  PROVE  d \in Candidate
<1>1. d = c \/ \E s \in AllScales : d = [c EXCEPT !.scale = s]
  BY DEF Rescaled, suggest_scale
<1>2. ASSUME NEW s \in AllScales, d = [c EXCEPT !.scale = s] PROVE d \in Candidate
  <2>1. CASE c \in NumberCandidate
    <3>1. PICK a \in Cells, w \in Short \cup Long, t \in AllScales :
            c = [addr |-> a, datatype |-> w[1], order |-> w[2], scale |-> t]
      BY <2>1 DEF NumberCandidate
    <3>2. d = [addr |-> a, datatype |-> w[1], order |-> w[2], scale |-> s]
      BY <1>2, <3>1
    <3>3. d \in NumberCandidate
      BY <3>2 DEF NumberCandidate
    <3> QED BY <3>3 DEF Candidate
  <2>2. CASE c \in BitCandidate
    <3>1. c \in [addr : Cells, bit : WordBits]
      BY <2>2 DEF BitCandidate
    <3>2. d = c
      BY <1>2, <3>1
    <3> QED BY <3>2
  <2> QED BY <2>1, <2>2 DEF Candidate
<1> QED BY <1>1, <1>2

\* What build_tags makes of moments that obey the invariant is not confirmed by
\* the readings find_tags searched.
LEMMA BuiltIsSound ==
  ASSUME NEW ms, NEW c,
         \A m \in ms : m.at \in Nat,
         \A m \in ms : m.n \in used => m.phase = "find",
         \A m, k \in ms : m.n = k.n => m = k,
         Built(c, ms).confidence = "confirmed"
  PROVE  \E i, j \in Built(c, ms).proof \ Built(c, ms).used : i # j
<1> DEFINE ev == EvidenceFor(c, ms)
<1>2. /\ judge(ev) = "confirmed"
      /\ Built(c, ms).proof = {e.n : e \in Good(ev)}
      /\ Built(c, ms).used = used
  BY DEF Built
<1>3. Confirmed(ev)
  BY <1>2 DEF judge
<1>4. PICK p, q \in Good(ev) : Prove(p, q)
  BY <1>3 DEF Confirmed
<1>5. \A e \in Good(ev) : /\ e \in ev
                          /\ e.phase # "find"
  BY DEF Good, Matching
<1>6. \A e \in ev : \E m \in ms : e.n = m.n /\ e.at = m.at /\ e.phase = m.phase
  BY DEF EvidenceFor
<1>7. PICK m1 \in ms : p.n = m1.n /\ p.at = m1.at /\ p.phase = m1.phase
  BY <1>5, <1>6
<1>8. PICK m2 \in ms : q.n = m2.n /\ q.at = m2.at /\ q.phase = m2.phase
  BY <1>5, <1>6
<1>9. m1.at # m2.at
  <2>1. q.at >= p.at + MinGap
    BY <1>4 DEF Prove
  <2>2. m1.at \in Nat /\ m2.at \in Nat /\ MinGap \in Nat \ {0}
    BY GateConstants
  <2> QED BY <1>7, <1>8, <2>1, <2>2
<1>10. p.n # q.n
  BY <1>7, <1>8, <1>9
<1>11. p.n \notin used /\ q.n \notin used
  BY <1>5, <1>7, <1>8
<1> QED BY <1>2, <1>4, <1>10, <1>11

-----------------------------------------------------------------------------
\* The parts of TypeOK that a step has to preserve.
Typed == /\ mode \in {"search", "verify"}
         /\ kind \in Kinds
         /\ cands \in Seq(Candidate)
         /\ chosen \in 0 .. Len(cands)
         /\ others \in {"none", "some", "onoff"}
         /\ readings \in 0 .. MaxReadings
         /\ sessions \in 0 .. MaxSessions

InFlight == /\ busy \in BOOLEAN /\ stuck \in BOOLEAN /\ pumping \in BOOLEAN
            /\ flight # Nothing => flight \in Flight /\ flight.n = readings
            /\ used \subseteq 1 .. readings

Recorded == /\ moments \in Seq(Moment)
            /\ \A k, l \in DOMAIN moments : k < l => moments[k].n < moments[l].n
            /\ \A k \in DOMAIN moments :
                 moments[k].n <= readings /\ (flight # Nothing => moments[k].n < readings)

\* The type invariant, in three parts.
LEMMA TypeParts ==
  /\ TypeOK <=> Typed /\ InFlight /\ Recorded
  /\ TypeOK' <=> (Typed /\ InFlight /\ Recorded)'
BY DEF TypeOK, Typed, InFlight, Recorded

\* A wizard just opened satisfies the invariant.
LEMMA InitHolds == Init => IInv
<1> SUFFICES ASSUME Init PROVE IInv
  OBVIOUS
<1>1. Typed
  <2>1. MaxReadings \in Nat /\ MaxTime \in Nat /\ MaxSessions \in Nat
    BY WizardConstants
  <2>2. cands \in Seq(Candidate) /\ chosen \in 0 .. Len(cands)
    BY DEF Init
  <2> QED BY <2>1, <2>2 DEF Init, Typed
<1>2. InFlight
  <2>1. busy \in BOOLEAN /\ stuck \in BOOLEAN /\ pumping \in BOOLEAN
    BY Zenon DEF Init
  <2> QED BY <2>1 DEF Init, InFlight
<1>3. moments \in Seq(Moment) /\ DOMAIN moments = {}
  BY DEF Init
<1>4. Recorded
  BY <1>3 DEF Recorded
<1>5. UsedAreFinds /\ BusyWhileReading
  BY <1>3 DEF Init, UsedAreFinds, BusyWhileReading
<1>6. FindNeverProves
  BY DEF Init, FindNeverProves, NoTag
<1> QED BY <1>1, <1>2, <1>4, <1>5, <1>6, TypeParts DEF IInv

\* The tags that build_tags leaves.
LEMMA BuildHolds ==
  ASSUME TypeOK, UsedAreFinds, NEW list, tags' = TagOf(list)
  PROVE  FindNeverProves'
<1>1. \A m \in Moments : m.at \in Nat
  BY MomentsAre DEF TypeOK, Moments
<1>2. \A m \in Moments : m.n \in used => m.phase = "find"
  BY DEF UsedAreFinds, Moments
<1>3. \A m, k \in Moments : m.n = k.n => m = k
  BY ReadingsDiffer DEF Moments
<1>4. CASE chosen = 0
  BY <1>4 DEF TagOf, NoTag, FindNeverProves
<1>5. CASE chosen # 0
  <2> DEFINE tag == Built(list[chosen], Moments)
  <2>1. tag.confidence = "confirmed" => \E i, j \in tag.proof \ tag.used : i # j
    BY <1>1, <1>2, <1>3, BuiltIsSound
  <2>2. tags' = tag
    BY <1>5 DEF TagOf
  <2> QED BY <2>1, <2>2 DEF FindNeverProves
<1> QED BY <1>4, <1>5

\* record_reading gives the reading the next number and disables the button.
LEMMA RecordReadingHolds ==
  ASSUME IInv, NEW typed \in Shown \cup {Blank}, NEW breaks \in BOOLEAN,
         RecordReading(typed, breaks)
  PROVE  IInv'
<1> USE DEF IInv
<1>1. Typed /\ InFlight /\ Recorded
  BY TypeParts
<1>2. readings' = readings + 1 /\ readings \in Nat /\ readings' \in 1 .. MaxReadings
  BY <1>1, WizardConstants DEF RecordReading, Typed
<1>3. Typed'
  BY <1>1, <1>2 DEF RecordReading, choiceVars, Typed
<1>4. next_phase \in {"find", "verify"}
  <2>1. Len(moments) \in Nat
    BY <1>1 DEF Recorded
  <2>2. CASE mode = "search" /\ Len(moments) < Len(READINGS_PLAN)
    <3>1. Len(READINGS_PLAN) = 4
      BY DEF READINGS_PLAN
    <3>2. Len(moments) + 1 \in 1 .. 4
      BY <2>1, <2>2, <3>1
    <3>3. \A k \in 1 .. 4 : READINGS_PLAN[k] \in {"find", "verify"}
      BY DEF READINGS_PLAN
    <3> QED BY <2>2, <3>2, <3>3 DEF next_phase
  <2>3. CASE ~(mode = "search" /\ Len(moments) < Len(READINGS_PLAN))
    BY <2>3 DEF next_phase
  <2> QED BY <2>2, <2>3
<1>5. flight' \in Flight /\ flight'.n = readings' /\ flight' # Nothing
  <2>1. flight' = [n |-> readings', hmi |-> typed, phase |-> next_phase,
                   state |-> "asked", memory |-> Nothing, breaks |-> breaks]
    BY DEF RecordReading
  <2>2. flight' \in Flight
    BY <1>2, <1>4, <2>1, typed \in Shown \cup {Blank}, breaks \in BOOLEAN DEF Flight
  <2>3. flight'.n = readings'
    BY <2>1
  <2> QED BY <2>2, <2>3, NothingIsNoReading
<1>6. InFlight' /\ BusyWhileReading'
  <2>1. busy' = TRUE /\ stuck' = stuck /\ pumping' = pumping /\ used' = used
    BY DEF RecordReading, choiceVars
  <2> QED BY <1>1, <1>2, <1>5, <2>1 DEF InFlight, BusyWhileReading
<1>7. \A k \in DOMAIN moments : moments[k].n \in Nat /\ moments[k].n <= readings
  BY <1>1, MomentsAre DEF Recorded
<1>8. Recorded'
  BY <1>1, <1>2, <1>7 DEF Recorded, RecordReading
<1>9. UsedAreFinds'
  BY <1>1, <1>2, <1>5 DEF UsedAreFinds, RecordReading, choiceVars, InFlight
<1>10. FindNeverProves'
  BY DEF FindNeverProves, RecordReading
<1> QED BY <1>3, <1>6, <1>8, <1>9, <1>10, TypeParts

\* The moment _pump appends is a new reading, which find_tags has not searched.
LEMMA PumpHolds ==
  ASSUME IInv, Pump
  PROVE  IInv'
<1> USE DEF IInv
<1>1. Typed /\ InFlight /\ Recorded
  BY TypeParts
<1>2. /\ Typed'
      /\ InFlight'
      /\ BusyWhileReading'
      /\ flight' = Nothing
  <2>1. busy' = FALSE /\ flight' = Nothing /\ pumping' \in BOOLEAN
    BY Zenon DEF Pump
  <2> QED BY <1>1, <2>1 DEF Pump, choiceVars, Typed, InFlight, BusyWhileReading
<1>3. FindNeverProves'
  BY DEF FindNeverProves, Pump
<1>4. CASE moments' = moments
  <2>1. Recorded'
    BY <1>1, <1>2, <1>4 DEF Recorded, Pump
  <2>2. UsedAreFinds'
    BY <1>2, <1>4 DEF UsedAreFinds, Pump, choiceVars
  <2> QED BY <1>2, <1>3, <2>1, <2>2, TypeParts
<1>5. CASE moments' # moments
  <2>0. PICK at \in 0 .. MaxTime :
          moments' = Append(moments, [n |-> flight.n, at |-> at, hmi |-> flight.hmi,
                                      memory |-> flight.memory, phase |-> flight.phase])
    <3>1. 0 \in 0 .. MaxTime
      BY WizardConstants
    <3>2. NewMoment
      BY <1>5 DEF Pump
    <3> QED BY <3>1, <3>2 DEF NewMoment
  <2> DEFINE m == [n |-> flight.n, at |-> at, hmi |-> flight.hmi,
                   memory |-> flight.memory, phase |-> flight.phase]
  <2>1. moments' = Append(moments, m) /\ flight # Nothing
    BY <2>0 DEF Pump
  <2>2. m \in Moment /\ m.n = readings /\ flight \in Flight
    BY <1>1, <2>1 DEF Moment, InFlight, Flight, Typed
  <2>3. m.n \notin used
    BY <2>1 DEF UsedAreFinds
  <2> HIDE DEF m
  <2>4. /\ moments' \in Seq(Moment)
        /\ DOMAIN moments' = 1 .. Len(moments) + 1
        /\ DOMAIN moments = 1 .. Len(moments)
        /\ Len(moments) \in Nat
        /\ moments'[Len(moments) + 1] = m
        /\ \A k \in DOMAIN moments : moments'[k] = moments[k]
    BY <1>1, <2>1, <2>2 DEF Recorded
  <2>5. \A k \in DOMAIN moments : moments[k].n \in Nat /\ moments[k].n < readings
    BY <1>1, <2>1, MomentsAre DEF Recorded
  <2>6. readings' = readings /\ readings \in Nat /\ used' = used
    BY <1>1 DEF Pump, choiceVars, Typed
  <2>7. Recorded'
    <3>1. ASSUME NEW k \in DOMAIN moments', NEW l \in DOMAIN moments', k < l
          PROVE  moments'[k].n < moments'[l].n
      <4>1. k \in DOMAIN moments /\ (l \in DOMAIN moments \/ l = Len(moments) + 1)
        BY <2>4, <3>1
      <4>2. CASE l \in DOMAIN moments
        BY <1>1, <2>4, <3>1, <4>1, <4>2 DEF Recorded
      <4>3. CASE l = Len(moments) + 1
        BY <2>2, <2>4, <2>5, <4>1, <4>3
      <4> QED BY <4>1, <4>2, <4>3
    <3>2. ASSUME NEW k \in DOMAIN moments' PROVE moments'[k].n <= readings'
      <4>1. CASE k \in DOMAIN moments
        BY <2>4, <2>5, <2>6, <4>1
      <4>2. CASE k = Len(moments) + 1
        BY <2>2, <2>4, <2>6, <4>2
      <4> QED BY <2>4, <4>1, <4>2
    <3> QED BY <1>2, <2>4, <3>1, <3>2 DEF Recorded
  <2>8. UsedAreFinds'
    <3>1. ASSUME NEW k \in DOMAIN moments', moments'[k].n \in used'
          PROVE  moments'[k].phase = "find"
      <4>1. CASE k \in DOMAIN moments
        BY <2>4, <2>6, <3>1, <4>1 DEF UsedAreFinds
      <4>2. CASE k = Len(moments) + 1
        BY <2>3, <2>4, <2>6, <3>1, <4>2
      <4> QED BY <2>4, <4>1, <4>2
    <3> QED BY <1>2, <3>1 DEF UsedAreFinds
  <2> QED BY <1>2, <1>3, <2>7, <2>8, TypeParts
<1> QED BY <1>4, <1>5

\* find_tags searches readings of the phase "find" only.
LEMMA FindTagsHolds ==
  ASSUME IInv, FindTags
  PROVE  IInv'
<1> USE DEF IInv
<1>1. Typed /\ InFlight /\ Recorded
  BY TypeParts
<1>2. cands' \in Seq(Candidate)
  BY ListsHoldCandidates DEF FindTags
<1>3. chosen' \in 0 .. Len(cands')
  BY <1>2 DEF FindTags
<1>4. UNCHANGED <<mode, kind, busy, stuck, pumping, flight, readings, moments, tags, sessions>>
  BY DEF FindTags, readVars
<1>5. others' \in {"none", "some"}
  BY DEF FindTags
<1>6. Typed'
  BY <1>1, <1>2, <1>3, <1>4, <1>5 DEF Typed
<1>7. \A k \in DOMAIN moments : moments[k].n \in 1 .. readings /\ moments[k].n \in Nat
  <2>1. \A k \in DOMAIN moments : moments[k] \in Moment
    BY <1>1, MomentsAre DEF Recorded
  <2> QED BY <1>1, <2>1, WizardConstants DEF Recorded, Moment, Typed
<1>8. used' = {m.n : m \in Searched} /\ Searched \subseteq Moments
  BY DEF FindTags, Searched
<1>9. InFlight' /\ BusyWhileReading'
  BY <1>1, <1>4, <1>7, <1>8 DEF InFlight, BusyWhileReading, Moments
<1>10. Recorded'
  BY <1>1, <1>4 DEF Recorded
<1>11. UsedAreFinds'
  <2>1. ASSUME NEW k \in DOMAIN moments, moments[k].n \in used' PROVE moments[k].phase = "find"
    <3>1. PICK l \in DOMAIN moments : moments[l].n = moments[k].n /\ moments[l].phase = "find"
      BY <1>8, <2>1 DEF Searched, Moments
    <3> QED BY <3>1, ReadingsDiffer
  <2>2. ASSUME flight # Nothing PROVE flight.n \notin used'
    <3>1. \A k \in DOMAIN moments : moments[k].n # flight.n
      BY <1>1, <1>7, <2>2 DEF Recorded, InFlight, Typed
    <3> QED BY <1>8, <3>1 DEF Moments
  <2> QED BY <1>4, <2>1, <2>2 DEF UsedAreFinds
<1>12. FindNeverProves'
  BY <1>4 DEF FindNeverProves
<1> QED BY <1>6, <1>9, <1>10, <1>11, <1>12, TypeParts

\* The actions that leave moments, used and readings alone and no tag behind.
LEMMA QuietHolds ==
  ASSUME IInv,
         \/ ReaderRaises
         \/ \E h \in Memories \cup {Nothing} : WorkerReads(h)
         \/ WorkerFails \/ Pick
  PROVE  IInv'
<1> USE DEF IInv
<1>1. Typed /\ InFlight /\ Recorded
  BY TypeParts
<1>2. UNCHANGED <<moments, used, readings, tags, sessions, mode, kind, cands, pumping>>
  BY DEF ReaderRaises, WorkerReads, WorkerFails, Pick, choiceVars, readVars
<1>3. Typed'
  <2>1. CASE Pick
    <3>1. chosen' \in 0 .. Len(cands)
      <4>1. DOMAIN cands = 1 .. Len(cands) /\ Len(cands) \in Nat
        BY <1>1 DEF Typed
      <4> QED BY <1>1, <2>1, <4>1 DEF Pick, Typed
    <3>2. others' \in {"none", "some", "onoff"}
      BY <1>1, <2>1 DEF Pick, Typed
    <3> QED BY <1>1, <1>2, <3>1, <3>2 DEF Typed
  <2>2. CASE ReaderRaises \/ (\E h \in Memories \cup {Nothing} : WorkerReads(h)) \/ WorkerFails
    <3>1. chosen' = chosen /\ others' = others
      BY <2>2 DEF ReaderRaises, WorkerReads, WorkerFails, choiceVars
    <3> QED BY <1>1, <1>2, <3>1 DEF Typed
  <2> QED BY <2>1, <2>2
<1>4. /\ InFlight'
      /\ BusyWhileReading'
      /\ flight' # Nothing => flight # Nothing /\ flight'.n = flight.n
  <2>1. CASE ReaderRaises
    <3>1. busy' = TRUE /\ stuck' = TRUE /\ flight' = flight
      BY <2>1 DEF ReaderRaises
    <3> QED BY <1>1, <1>2, <3>1 DEF InFlight, BusyWhileReading
  <2>2. CASE \E h \in Memories \cup {Nothing} : WorkerReads(h)
    <3>1. PICK h \in Memories \cup {Nothing} : WorkerReads(h)
      BY <2>2
    <3>2. flight \in Flight /\ flight.n = readings /\ flight # Nothing
      BY <1>1, <3>1 DEF WorkerReads, InFlight
    <3>3. flight' = [n |-> flight.n, hmi |-> flight.hmi, phase |-> flight.phase,
                     state |-> "read", memory |-> h, breaks |-> flight.breaks]
      BY <3>1, <3>2 DEF WorkerReads, Flight
    <3>4. flight' \in Flight /\ flight'.n = flight.n
      BY <3>2, <3>3 DEF Flight
    <3>5. UNCHANGED <<busy, stuck, used, readings>>
      BY <1>2, <3>1 DEF WorkerReads
    <3> QED BY <1>1, <1>2, <3>2, <3>4, <3>5, NothingIsNoReading DEF InFlight, BusyWhileReading
  <2>3. CASE WorkerFails
    <3>1. flight # Nothing /\ flight \in Flight /\ flight' = [flight EXCEPT !.state = "error"]
      BY <1>1, <2>3 DEF WorkerFails, InFlight
    <3>2. flight' \in Flight /\ flight'.n = flight.n
      BY <3>1 DEF Flight
    <3>3. UNCHANGED <<busy, stuck>>
      BY <2>3 DEF WorkerFails
    <3> QED BY <1>1, <1>2, <3>1, <3>2, <3>3, NothingIsNoReading DEF InFlight, BusyWhileReading
  <2>4. CASE Pick
    <3>1. UNCHANGED <<busy, stuck, pumping, flight, readings, used>>
      BY <2>4 DEF Pick, choiceVars, readVars
    <3> QED BY <1>1, <3>1 DEF InFlight, BusyWhileReading
  <2> QED BY <2>1, <2>2, <2>3, <2>4
<1>5. Recorded'
  BY <1>1, <1>2, <1>4 DEF Recorded
<1>6. UsedAreFinds'
  BY <1>2, <1>4 DEF UsedAreFinds
<1>7. FindNeverProves'
  BY <1>2 DEF FindNeverProves
<1> QED BY <1>3, <1>4, <1>5, <1>6, <1>7, TypeParts

\* A new session forgets the readings and what find_tags searched.
LEMMA SessionHolds ==
  ASSUME IInv, QuestionsDone \/ LoadImported
  PROVE  IInv'
<1> USE DEF IInv
<1>1. Typed /\ InFlight /\ Recorded
  BY TypeParts
<1>2. StartSession
  BY DEF QuestionsDone, LoadImported
<1>3. /\ mode' \in {"search", "verify"}
      /\ others' \in {"none", "some", "onoff"}
  BY DEF QuestionsDone, LoadImported
<1>4. cands' \in Seq(Candidate) /\ chosen' \in 0 .. Len(cands')
  <2>1. CASE QuestionsDone
    BY <2>1 DEF QuestionsDone
  <2>2. CASE LoadImported
    <3>1. PICK c \in Imported : cands' = <<c>> /\ chosen' = 1
      BY <2>2 DEF LoadImported
    <3>2. c \in Candidate
      BY <3>1, WizardConstants DEF Candidate
    <3> QED BY <3>1, <3>2
  <2> QED BY <2>1, <2>2
<1>5. Typed'
  <2>1. sessions' \in 0 .. MaxSessions
    BY <1>1, <1>2, WizardConstants DEF StartSession, Typed
  <2>2. kind' \in Kinds /\ readings' = readings
    BY <1>2 DEF StartSession, readVars
  <2> QED BY <1>1, <1>3, <1>4, <2>1, <2>2 DEF Typed
<1>6. /\ InFlight'
      /\ BusyWhileReading'
      /\ flight' = flight
      /\ used' = {}
  BY <1>1, <1>2 DEF StartSession, readVars, InFlight, BusyWhileReading
<1>7. moments' \in Seq(Moment) /\ DOMAIN moments' = {}
  BY <1>2 DEF StartSession
<1>8. Recorded' /\ UsedAreFinds'
  BY <1>6, <1>7 DEF Recorded, UsedAreFinds
<1>9. FindNeverProves'
  BY <1>2 DEF FindNeverProves, StartSession
<1> QED BY <1>5, <1>6, <1>8, <1>9, TypeParts

\* build_tags judges by the readings there are, also after a scale was set.
LEMMA ReviewHolds ==
  ASSUME IInv, BuildTags \/ ApplySuggestedScales
  PROVE  IInv'
<1> USE DEF IInv
<1>1. Typed /\ InFlight /\ Recorded
  BY TypeParts
<1>2. UNCHANGED <<mode, kind, chosen, others, used, busy, stuck, pumping, flight, readings, moments, sessions>>
  BY DEF BuildTags, ApplySuggestedScales, choiceVars, readVars
<1>3. cands' \in Seq(Candidate) /\ Len(cands') = Len(cands)
  <2>1. CASE cands' = cands
    BY <1>1, <2>1 DEF Typed
  <2>2. CASE cands' # cands
    <3>1. PICK c \in Rescaled(cands[chosen]) : cands' = [cands EXCEPT ![chosen] = c]
      BY <2>2 DEF BuildTags, ApplySuggestedScales, choiceVars
    <3>2. chosen \in DOMAIN cands
      BY <1>1, <2>2 DEF BuildTags, ApplySuggestedScales, choiceVars, Typed
    <3>3. cands[chosen] \in Candidate
      BY <1>1, <3>2 DEF Typed
    <3>4. c \in Candidate
      BY <3>1, <3>3, RescaledAreCandidates
    <3> QED BY <1>1, <3>1, <3>2, <3>4 DEF Typed
  <2> QED BY <2>1, <2>2
<1>4. Typed' /\ InFlight' /\ Recorded' /\ BusyWhileReading' /\ UsedAreFinds'
  BY <1>1, <1>2, <1>3 DEF Typed, InFlight, Recorded, BusyWhileReading, UsedAreFinds
<1>5. FindNeverProves'
  <2>1. tags' = tags \/ (\E list : tags' = TagOf(list))
    BY DEF BuildTags, ApplySuggestedScales
  <2>2. CASE tags' = tags
    BY <2>2 DEF FindNeverProves
  <2>3. CASE \E list : tags' = TagOf(list)
    BY <2>3, BuildHolds
  <2> QED BY <2>1, <2>2, <2>3
<1> QED BY <1>4, <1>5, TypeParts

\* IInv, which the run of Wizard_gate.cfg checks, holds in every state.
THEOREM InductiveInvariant == Spec => []IInv
<1>1. Init => IInv
  BY InitHolds
<1>2. ASSUME IInv, [Next]_vars PROVE IInv'
  <2>1. CASE \E typed \in Shown \cup {Blank}, breaks \in BOOLEAN : RecordReading(typed, breaks)
    BY <1>2, <2>1, RecordReadingHolds
  <2>2. CASE Pump
    BY <1>2, <2>2, PumpHolds
  <2>3. CASE FindTags
    BY <1>2, <2>3, FindTagsHolds
  <2>4. CASE \/ ReaderRaises
             \/ \E h \in Memories \cup {Nothing} : WorkerReads(h)
             \/ WorkerFails \/ Pick
    BY <1>2, <2>4, QuietHolds
  <2>5. CASE QuestionsDone \/ LoadImported
    BY <1>2, <2>5, SessionHolds
  <2>6. CASE BuildTags \/ ApplySuggestedScales
    BY <1>2, <2>6, ReviewHolds
  <2>7. CASE UNCHANGED vars
    <3>1. UNCHANGED <<mode, kind, cands, chosen, others, used, busy, stuck, pumping, flight, readings, moments, tags, sessions>>
      BY <2>7 DEF vars, choiceVars, readVars
    <3> QED BY <1>2, <3>1 DEF IInv, TypeOK, BusyWhileReading, UsedAreFinds, FindNeverProves
  <2> QED BY <1>2, <2>1, <2>2, <2>3, <2>4, <2>5, <2>6, <2>7 DEF Next
<1> QED BY <1>1, <1>2, PTL DEF Spec

\* "Readings used to find an address cannot also prove it" (commissioning.py
\* 19-20), for every number of addresses, readings, sessions and picks.
THEOREM FindReadingsNeverProve == Spec => []FindNeverProves
<1>1. IInv => FindNeverProves
  BY DEF IInv
<1> QED BY <1>1, InductiveInvariant, PTL

-----------------------------------------------------------------------------
(* "Find tags".                                                            *)

\* Words that every reading has are read from one of them as from all.
LEMMA HadWordsReadAlike ==
  ASSUME NEW ms, NEW m \in ms, NEW c \in NumberCandidate,
         Interpreted(m.memory, Have(ms), c.addr, c.datatype, c.order) # NoData
  PROVE  Decoded(m.memory, c) =
           Interpreted(m.memory, Have(ms), c.addr, c.datatype, c.order) * c.scale
<1>1. "bit" \notin DOMAIN c
  BY DEF NumberCandidate
<1>2. Have(ms) \subseteq DOMAIN m.memory
  BY DEF Have
<1>3. Raw(m.memory, c) = Interpreted(m.memory, Have(ms), c.addr, c.datatype, c.order)
  BY <1>2 DEF Raw, Interpreted
<1> QED BY <1>1, <1>3 DEF Decoded

\* What the search for a number returns can be read in every reading, and fits
\* one.
LEMMA FoundAreHits ==
  ASSUME NEW ms, NEW sort, NEW list \in find_numeric(ms, sort), NEW k \in DOMAIN list
  PROVE  list[k] \in Tried(ms) /\ Hits(ms, list[k]) > 0
<1> DEFINE out == {c \in Tried(ms) : Hits(ms, c) > 0}
<1>1. list # <<>>
  OBVIOUS
<1>2. PICK p \in SUBSET out :
        list \in FirstOf(p, [c \in p |-> Rank(ms, sort, c)], MaxCandidates)
  BY <1>1 DEF find_numeric
<1>3. list[k] \in p
  <2>1. PICK n \in 0 .. MaxCandidates : list \in [1 .. n -> p]
    BY <1>2 DEF FirstOf
  <2> QED BY <2>1
<1> QED BY <1>3

\* A number that the search returns agrees, as review decodes it, with one of
\* the readings searched.
LEMMA NumbersFit ==
  ASSUME NEW ms, NEW sort, NEW list \in find_numeric(ms, sort), NEW k \in DOMAIN list
  PROVE  \E m \in ms : Near(m.hmi, Decoded(m.memory, list[k]))
<1> DEFINE c == list[k]
<1>1. c \in Tried(ms) /\ Hits(ms, c) > 0
  BY FoundAreHits
<1> HIDE DEF c
<1> DEFINE near == {m \in ms :
             Near(m.hmi, Interpreted(m.memory, Have(ms), c.addr, c.datatype, c.order) * c.scale)}
<1>2. near # {}
  <2>1. Hits(ms, c) = Cardinality(near)
    BY DEF Hits
  <2> QED BY <1>1, <2>1, FS_EmptySet
<1>3. PICK m \in near : TRUE
  BY <1>2
<1>4. /\ c \in NumberCandidate
      /\ Interpreted(m.memory, Have(ms), c.addr, c.datatype, c.order) # NoData
  BY <1>1, <1>3 DEF Tried
<1>5. Decoded(m.memory, c) =
        Interpreted(m.memory, Have(ms), c.addr, c.datatype, c.order) * c.scale
  BY <1>3, <1>4, HadWordsReadAlike
<1>6. m \in ms /\ Near(m.hmi, Decoded(m.memory, c))
  BY <1>3, <1>5
<1> QED BY <1>6 DEF c

\* A bit that the search returns is as shown in every reading searched, once
\* what was shown is rounded to on or off.
LEMMA BitsFit ==
  ASSUME NEW ms, NEW list \in find_bits(ms), NEW k \in DOMAIN list, NEW m \in ms
  PROVE  Decoded(m.memory, list[k]) = 1000 * Round(m.hmi.value)
<1> DEFINE found == {c \in BitCandidate :
                  /\ c.addr \in Have(ms)
                  /\ \A n \in ms : Bit(n.memory[c.addr], c.bit) = Round(n.hmi.value)}
<1>1. list # <<>>
  OBVIOUS
<1>2. list \in FirstOf(found, [c \in found |-> <<c.addr, c.bit>>], 3 * MaxCandidates)
  BY <1>1 DEF find_bits
<1>3. list[k] \in found
  <2> HIDE DEF found
  <2>1. PICK n \in 0 .. 3 * MaxCandidates : list \in [1 .. n -> found]
    BY <1>2 DEF FirstOf
  <2> QED BY <2>1
<1>4. "bit" \in DOMAIN list[k]
  BY <1>3 DEF BitCandidate
<1>5. list[k].addr \in DOMAIN m.memory
  BY <1>3 DEF Have
<1>6. Decoded(m.memory, list[k]) = 1000 * Bit(m.memory[list[k].addr], list[k].bit)
  BY <1>4, <1>5 DEF Decoded
<1> QED BY <1>3, <1>6

\* An on/off signal whose HMI shows on or off, or a number that rounds to one of
\* them within its tolerance: "0.4" does not (parse_hmi_value takes it).
ShownWhole == \A s \in Shown : Near(s, 1000 * Round(s.value))

\* What "Find tags" offers agrees, as review decodes it, with a reading it was
\* found from: every number, and every bit if what the HMI shows is on or off.
THEOREM FindTagsOffersWhatFits ==
  Spec => [][FindTags /\ (kind = "bool" => ShownWhole) => OfferedFits']_vars
<1> SUFFICES ASSUME IInv, FindTags, kind = "bool" => ShownWhole
             PROVE  OfferedFits'
  BY InductiveInvariant, PTL
<1> SUFFICES ASSUME NEW k \in DOMAIN cands'
             PROVE  \E m \in Moments' :
                      m.n \in used' /\ m.hmi # Blank /\ Near(m.hmi, Decoded(m.memory, cands'[k]))
  BY DEF OfferedFits
<1>1. cands' \in Found(Used, kind)
  BY DEF FindTags, Listings
<1>2. Moments' = Moments /\ used' = {m.n : m \in Searched}
  BY DEF FindTags, Moments
<1>3. ASSUME NEW u \in Used
      PROVE  \E m \in Moments : m.n \in used' /\ m.hmi # Blank /\ m.hmi = u.hmi /\ m.memory = u.memory
  <2>1. PICK m \in Searched : m.hmi # Blank /\ u = [hmi |-> m.hmi, memory |-> m.memory]
    BY <1>3 DEF Used
  <2> QED BY <1>2, <2>1 DEF Searched
<1>4. \E u \in Used : Near(u.hmi, Decoded(u.memory, cands'[k]))
  <2>1. CASE kind # "bool"
    BY <1>1, <2>1, NumbersFit DEF Found
  <2>2. CASE kind = "bool"
    <3>1. cands' \in find_bits(Used)
      BY <1>1, <2>2 DEF Found
    <3>2. Used # {}
      <4>1. cands' # <<>>
        OBVIOUS
      <4>2. {Round(m.hmi.value) : m \in Used} = {0, 1}
        BY <3>1, <4>1 DEF find_bits
      <4> QED BY <4>2
    <3>3. PICK u \in Used : TRUE
      BY <3>2
    <3>4. Decoded(u.memory, cands'[k]) = 1000 * Round(u.hmi.value)
      BY <3>1, <3>3, BitsFit
    <3>5. u.hmi \in Shown
      <4>1. moments \in Seq(Moment)
        BY DEF IInv, TypeOK
      <4>2. PICK m \in Moments : m.hmi # Blank /\ m.hmi = u.hmi
        BY <1>3, <3>3
      <4>3. m \in Moment
        BY <4>1, <4>2 DEF Moments
      <4> QED BY <4>2, <4>3 DEF Moment
    <3> QED BY <2>2, <3>3, <3>4, <3>5 DEF ShownWhole
  <2> QED BY <2>1, <2>2
<1>5. PICK u \in Used : Near(u.hmi, Decoded(u.memory, cands'[k]))
  BY <1>4
<1>6. PICK m \in Moments : m.n \in used' /\ m.hmi # Blank /\ m.hmi = u.hmi /\ m.memory = u.memory
  BY <1>3, <1>5
<1> QED BY <1>2, <1>5, <1>6

\* The candidates of a session in which addresses are searched are of its kind.
CandsOfKind ==
  mode = "search" /\ kind # "bool" => \A k \in DOMAIN cands : "bit" \notin DOMAIN cands[k]

\* Nothing but "Find tags", a new session and a new scale touches them.
LEMMA OthersKeepCands ==
  ASSUME \/ \E typed \in Shown \cup {Blank}, breaks \in BOOLEAN : RecordReading(typed, breaks)
         \/ ReaderRaises
         \/ \E h \in Memories \cup {Nothing} : WorkerReads(h)
         \/ WorkerFails \/ Pump \/ Pick \/ BuildTags
         \/ UNCHANGED vars
  PROVE  UNCHANGED <<mode, kind, cands, used>>
BY DEF RecordReading, ReaderRaises, WorkerReads, WorkerFails, Pump, Pick, BuildTags,
       vars, choiceVars

\* A number that gets another scale stays a number.
LEMMA RescaledKeepFields ==
  ASSUME NEW c, NEW d \in Rescaled(c)
  PROVE  DOMAIN d = DOMAIN c
BY DEF Rescaled

\* A number's candidates are never bits, so review takes each apart as what it is.
THEOREM CandidatesAreOfTheirKind == Spec => []CandsOfKind
<1>1. Init => CandsOfKind
  BY DEF Init, CandsOfKind
<1>2. ASSUME IInv, CandsOfKind, [Next]_vars PROVE CandsOfKind'
  <2>1. CASE FindTags
    <3> SUFFICES ASSUME kind # "bool", NEW k \in DOMAIN cands'
                 PROVE  "bit" \notin DOMAIN cands'[k]
      BY <2>1 DEF CandsOfKind, FindTags
    <3>1. cands' \in find_numeric(Used, kind)
      BY <2>1 DEF FindTags, Listings, Found
    <3>2. cands'[k] \in NumberCandidate
      BY <3>1, FoundAreHits DEF Tried
    <3> QED BY <3>2 DEF NumberCandidate
  <2>2. CASE QuestionsDone \/ LoadImported
    BY <2>2 DEF QuestionsDone, LoadImported, CandsOfKind
  <2>3. CASE ApplySuggestedScales
    <3> SUFFICES ASSUME mode = "search", kind # "bool", NEW k \in DOMAIN cands'
                 PROVE  "bit" \notin DOMAIN cands'[k]
      BY <2>3 DEF CandsOfKind, ApplySuggestedScales
    <3>1. CASE cands' = cands
      BY <1>2, <3>1 DEF CandsOfKind
    <3>2. CASE cands' # cands
      <4>1. PICK c \in Rescaled(cands[chosen]) : cands' = [cands EXCEPT ![chosen] = c]
        BY <2>3, <3>2 DEF ApplySuggestedScales
      <4>2. k \in DOMAIN cands
        BY <4>1
      <4>3. CASE k = chosen
        <5>1. cands'[k] = c
          BY <4>1, <4>2, <4>3
        <5> QED BY <1>2, <4>1, <4>2, <4>3, <5>1, RescaledKeepFields DEF CandsOfKind
      <4>4. CASE k # chosen
        BY <1>2, <4>1, <4>2, <4>4 DEF CandsOfKind
      <4> QED BY <4>3, <4>4
    <3> QED BY <3>1, <3>2
  <2>4. CASE UNCHANGED <<mode, kind, cands, used>>
    BY <1>2, <2>4 DEF CandsOfKind
  <2> QED BY <1>2, <2>1, <2>2, <2>3, <2>4, OthersKeepCands DEF Next
<1> QED BY <1>1, <1>2, InductiveInvariant, PTL DEF Spec

\* Applying suggested scales leaves alone an address that fits a reading, unless
\* readings with a value lack its words.
LEMMA ScalesKeepWhatFits ==
  ASSUME OfferedFits, CandsOfKind, mode = "search", used # {}, kind # "bool",
         chosen \in DOMAIN cands, Telling(cands[chosen]) = Valued
  PROVE  Rescaled(cands[chosen]) = {cands[chosen]}
<1> DEFINE c == cands[chosen]
<1>1. PICK m \in Moments : m.hmi # Blank /\ Near(m.hmi, Decoded(m.memory, c))
  BY DEF OfferedFits
<1>2. PICK k \in DOMAIN moments : m = moments[k]
  BY DEF Moments
<1>3. k \in Valued /\ k \in Telling(c)
  BY <1>1, <1>2 DEF Valued
<1>4. Decoded(m.memory, c) = Raw(m.memory, c) * c.scale
  BY <1>2, <1>3 DEF CandsOfKind, Decoded, Telling
<1>5. Near([value |-> m.hmi.value, tolerance |-> m.hmi.tolerance], Raw(m.memory, c) * c.scale)
  BY <1>1, <1>4 DEF Near
<1>6. ~NoneMatches(c)
  BY <1>2, <1>3, <1>5 DEF NoneMatches
<1> QED BY <1>6 DEF Rescaled

\* What "Find tags" offers goes on fitting a reading it was found from, whatever
\* is recorded, picked and reviewed; there are two ways to lose it: an on/off
\* signal for which the HMI showed neither, and scales applied when a reading
\* with a value lacks words of the address, so that the pairs are compared by
\* one another's tolerance (commissioning_screen.py 481).
THEOREM OfferedGoesOnFitting ==
  Spec => [][OfferedFits => \/ OfferedFits'
                            \/ FindTags /\ kind = "bool" /\ ~ShownWhole
                            \/ ApplySuggestedScales /\ Telling(cands[chosen]) # Valued]_vars
<1>1. Spec => [][FindTags /\ (kind = "bool" => ShownWhole) => OfferedFits']_vars
  BY FindTagsOffersWhatFits
<1>2. ASSUME IInv, CandsOfKind, OfferedFits, Next, ~FindTags,
             ~(ApplySuggestedScales /\ Telling(cands[chosen]) # Valued)
      PROVE  OfferedFits'
  <2>1. CASE QuestionsDone \/ LoadImported
    BY <2>1 DEF QuestionsDone, LoadImported, StartSession, OfferedFits
  <2>2. CASE UNCHANGED <<mode, kind, cands, used>> /\ Moments \subseteq Moments'
    BY <1>2, <2>2 DEF OfferedFits
  <2>3. CASE ApplySuggestedScales
    <3>1. UNCHANGED <<mode, used, moments>>
      BY <2>3 DEF ApplySuggestedScales
    <3>2. CASE mode # "search" \/ used = {}
      BY <3>1, <3>2 DEF OfferedFits
    <3>3. CASE mode = "search" /\ used # {} /\ cands' # cands
      <4>1. kind # "bool" /\ chosen # 0
        BY <2>3, <3>3 DEF ApplySuggestedScales
      <4>2. chosen \in DOMAIN cands
        BY <1>2, <4>1, TypeParts DEF IInv, Typed
      <4>3. Rescaled(cands[chosen]) = {cands[chosen]}
        BY <1>2, <2>3, <3>3, <4>1, <4>2, ScalesKeepWhatFits
      <4>4. cands' = [cands EXCEPT ![chosen] = cands[chosen]]
        BY <2>3, <4>1, <4>3 DEF ApplySuggestedScales
      <4>5. cands' = cands
        BY <1>2, <4>2, <4>4, TypeParts DEF IInv, Typed
      <4> QED BY <3>3, <4>5
    <3>4. CASE cands' = cands
      BY <1>2, <3>1, <3>4 DEF OfferedFits, Moments
    <3> QED BY <3>2, <3>3, <3>4
  <2>4. ASSUME \/ \E typed \in Shown \cup {Blank}, breaks \in BOOLEAN :
                    RecordReading(typed, breaks)
               \/ ReaderRaises
               \/ \E h \in Memories \cup {Nothing} : WorkerReads(h)
               \/ WorkerFails \/ Pump \/ Pick \/ BuildTags
        PROVE  Moments \subseteq Moments'
    <3>1. CASE Pump
      <4>1. moments \in Seq(Moment)
        BY <1>2, TypeParts DEF IInv, Typed, Recorded
      <4>2. moments' = moments \/ \E m : moments' = Append(moments, m)
        BY <3>1 DEF Pump, NewMoment
      <4>3. \A k \in DOMAIN moments : k \in DOMAIN moments' /\ moments'[k] = moments[k]
        BY <4>1, <4>2
      <4> QED BY <4>3 DEF Moments
    <3>2. CASE ~Pump
      <4>1. moments' = moments
        BY <2>4, <3>2 DEF RecordReading, ReaderRaises, WorkerReads, WorkerFails, Pick,
                          BuildTags
      <4> QED BY <4>1 DEF Moments
    <3> QED BY <3>1, <3>2
  <2> QED BY <1>2, <2>1, <2>2, <2>3, <2>4, OthersKeepCands DEF Next
<1>3. UNCHANGED vars => (OfferedFits => OfferedFits')
  BY DEF vars, choiceVars, OfferedFits, Moments
<1> QED BY <1>1, <1>2, <1>3, InductiveInvariant, CandidatesAreOfTheirKind, PTL DEF Spec

-----------------------------------------------------------------------------
(* What the search does not leave out.                                     *)

\* Sets written out are finite.
LEMMA PairsAreFinite ==
  ASSUME NEW a, NEW b
  PROVE  IsFiniteSet({a, b})
<1>1. {a, b} = {a} \cup {b}
  OBVIOUS
<1>2. IsFiniteSet({a}) /\ IsFiniteSet({b})
  BY FS_Singleton
<1> QED BY <1>1, <1>2, FS_Union

\* There are finitely many candidates.
LEMMA FinitelyManyCandidates ==
  IsFiniteSet(NumberCandidate) /\ IsFiniteSet(BitCandidate)
<1>1. IsFiniteSet(Short \cup Long)
  <2>1. IsFiniteSet({"int16", "uint16"} \X {"AB", "BA"})
    BY PairsAreFinite, FS_Product
  <2>2. IsFiniteSet({"int32", "uint32", "float32"})
    <3>1. {"int32", "uint32", "float32"} = {"int32", "uint32"} \cup {"float32"}
      OBVIOUS
    <3> QED BY <3>1, PairsAreFinite, FS_AddElement
  <2>3. IsFiniteSet(BYTE_ORDERS_32)
    <3>1. BYTE_ORDERS_32 = {"ABCD", "CDAB"} \cup {"BADC", "DCBA"}
      BY DEF BYTE_ORDERS_32
    <3> QED BY <3>1, PairsAreFinite, FS_Union
  <2>4. IsFiniteSet({"int32", "uint32", "float32"} \X BYTE_ORDERS_32)
    BY <2>2, <2>3, FS_Product
  <2> QED BY <2>1, <2>4, FS_Union DEF Short, Long
<1>2. IsFiniteSet(AllScales)
  <2> DEFINE f == [k \in 1 .. 6 |-> SCALES[k]]
  <2>1. DOMAIN SCALES = 1 .. 6
    BY DEF SCALES
  <2>2. f \in [1 .. 6 -> AllScales] /\ \A s \in AllScales : \E k \in 1 .. 6 : f[k] = s
    BY <2>1 DEF AllScales
  <2>3. f \in Surjection(1 .. 6, AllScales)
    BY <2>2, Fun_IsSurj
  <2>4. IsFiniteSet(1 .. 6)
    BY FS_Interval, 1 \in Int, 6 \in Int
  <2> HIDE DEF f
  <2> QED BY <2>3, <2>4, FS_Surjection
<1>3. IsFiniteSet(NumberCandidate)
  <2> DEFINE T == (Cells \X (Short \cup Long)) \X AllScales
             f == [t \in T |-> [addr |-> t[1][1], datatype |-> t[1][2][1],
                                order |-> t[1][2][2], scale |-> t[2]]]
  <2>1. IsFiniteSet(T)
    BY <1>1, <1>2, FS_Product, CandidateConstants
  <2>2. f \in [T -> NumberCandidate]
    BY DEF NumberCandidate
  <2>3. \A c \in NumberCandidate : \E t \in T : f[t] = c
    <3> SUFFICES ASSUME NEW c \in NumberCandidate
                 PROVE  \E t \in T : f[t] = c
      OBVIOUS
    <3>1. PICK a \in Cells, w \in Short \cup Long, s \in AllScales :
            c = [addr |-> a, datatype |-> w[1], order |-> w[2], scale |-> s]
      BY DEF NumberCandidate
    <3>2. <<<<a, w>>, s>> \in T
      OBVIOUS
    <3>3. f[<<<<a, w>>, s>>] = c
      BY <3>1, <3>2
    <3> QED BY <3>2, <3>3
  <2>4. f \in Surjection(T, NumberCandidate)
    BY <2>2, <2>3, Fun_IsSurj
  <2> QED BY <2>1, <2>4, FS_Surjection
<1>4. IsFiniteSet(BitCandidate)
  <2> DEFINE T == Cells \X WordBits
             f == [t \in T |-> [addr |-> t[1], bit |-> t[2]]]
  <2>1. IsFiniteSet(WordBits)
    <3>1. IsFiniteSet(0 .. 15)
      BY FS_Interval, 0 \in Int, 15 \in Int
    <3>2. WordBits \in SUBSET (0 .. 15)
      BY DEF WordBits
    <3> QED BY <3>1, <3>2, FS_Subset
  <2>2. IsFiniteSet(T)
    BY <2>1, FS_Product, CandidateConstants
  <2>3. \A c \in BitCandidate : \E t \in T : f[t] = c
    <3> SUFFICES ASSUME NEW c \in BitCandidate
                 PROVE  \E t \in T : f[t] = c
      OBVIOUS
    <3>1. <<c.addr, c.bit>> \in T /\ c = [addr |-> c.addr, bit |-> c.bit]
      BY DEF BitCandidate
    <3> QED BY <3>1
  <2>4. f \in Surjection(T, BitCandidate)
    BY <2>3, Fun_IsSurj DEF BitCandidate
  <2> QED BY <2>2, <2>4, FS_Surjection
<1> QED BY <1>3, <1>4

\* The first n of a set are n of it or all of it, and what is left out is not
\* better than any of them.
LEMMA FirstAreTheBest ==
  ASSUME NEW S, IsFiniteSet(S), NEW rank, NEW n \in Nat, NEW list \in FirstOf(S, rank, n)
  PROVE  /\ \A k \in DOMAIN list : list[k] \in S
         /\ Cardinality(S) >= n => Len(list) = n
         /\ Cardinality(S) <= n => \A c \in S : \E k \in DOMAIN list : list[k] = c
         /\ \A c \in S : (\A k \in DOMAIN list : list[k] # c) =>
              \A k \in DOMAIN list : ~Less(rank[c], rank[list[k]])
<1>1. PICK l \in 0 .. n : list \in [1 .. l -> S]
  BY DEF FirstOf
<1>2. l \in Nat /\ DOMAIN list = 1 .. l /\ Len(list) = l
  BY <1>1
<1>3. Cardinality(S) \in Nat
  BY FS_CardinalityType
<1>4. l = Smaller(n, Cardinality(S))
  BY <1>2 DEF FirstOf
<1>5. \A k \in DOMAIN list : \A j \in 1 .. k - 1 : list[j] # list[k]
  BY DEF FirstOf
<1>6. ASSUME Cardinality(S) <= n, NEW c \in S
      PROVE  \E k \in DOMAIN list : list[k] = c
  <2>1. l = Cardinality(S)
    BY <1>3, <1>4, <1>6 DEF Smaller
  <2>2. \A j, k \in 1 .. l : list[j] = list[k] => j = k
    <3> SUFFICES ASSUME NEW j \in 1 .. l, NEW k \in 1 .. l, j < k
                 PROVE  list[j] # list[k]
      BY <1>2
    <3> QED BY <1>2, <1>5
  <2>3. list \in Injection(1 .. l, S)
    BY <1>1, <2>2 DEF Injection, IsInjective
  <2>4. Cardinality(1 .. l) = l
    BY <1>2, FS_Interval
  <2>5. list \in Surjection(1 .. l, S)
    BY <2>1, <2>3, <2>4, FS_Injection
  <2> QED BY <1>2, <2>5, Fun_SurjectionProperties
<1>7. ASSUME NEW c \in S, \A k \in DOMAIN list : list[k] # c, NEW k \in DOMAIN list,
             Less(rank[c], rank[list[k]])
      PROVE  FALSE
  <2>1. PICK j \in 1 .. k - 1 : list[j] = c
    BY <1>7 DEF FirstOf
  <2>2. j \in DOMAIN list
    BY <1>2, <1>7, <2>1
  <2> QED BY <1>7, <2>1, <2>2
<1> QED BY <1>1, <1>2, <1>3, <1>4, <1>6, <1>7 DEF Smaller

\* What agrees with every reading is what the search tries and finds to hit all.
LEMMA FittingAreStrong ==
  ASSUME NEW ms, IsFiniteSet(ms), \A m \in ms : DOMAIN m.memory \subseteq Cells
  PROVE  FittingNumbers(ms) = {c \in Tried(ms) : Hits(ms, c) = Cardinality(ms)}
<1> DEFINE Read(m, c) == Interpreted(m.memory, Have(ms), c.addr, c.datatype, c.order)
           near(c) == {m \in ms : Near(m.hmi, Read(m, c) * c.scale)}
<1>1. ASSUME NEW c \in NumberCandidate, \A m \in ms : Raw(m.memory, c) # NoData, NEW m \in ms
      PROVE  Read(m, c) # NoData
  <2>1. c.addr \in Have(ms)
    <3>1. \A i \in ms : c.addr \in DOMAIN i.memory
      BY <1>1 DEF Raw, Interpreted
    <3>2. c.addr \in Cells
      BY <3>1, <1>1
    <3> QED BY <3>1, <3>2 DEF Have
  <2>2. CASE <<c.datatype, c.order>> \in Short
    <3>1. Raw(m.memory, c) = Read(m, c)
      BY <1>1, <2>1, <2>2 DEF Raw, Interpreted, Have
    <3> QED BY <1>1, <3>1
  <2>3. CASE <<c.datatype, c.order>> \notin Short
    <3>1. \A i \in ms : c.addr + Step \in DOMAIN i.memory
      BY <1>1, <2>3 DEF Raw, Interpreted
    <3>2. c.addr + Step \in Have(ms)
      BY <1>1, <3>1 DEF Have
    <3>3. Raw(m.memory, c) = Read(m, c)
      BY <1>1, <2>1, <2>3, <3>2 DEF Raw, Interpreted, Have
    <3> QED BY <1>1, <3>3
  <2> QED BY <2>2, <2>3
<1>2. ASSUME NEW c \in NumberCandidate, NEW m \in ms, Read(m, c) # NoData
      PROVE  Decoded(m.memory, c) = Read(m, c) * c.scale /\ Raw(m.memory, c) # NoData
  <2>1. Decoded(m.memory, c) = Read(m, c) * c.scale
    BY <1>2, HadWordsReadAlike
  <2>2. Have(ms) \subseteq DOMAIN m.memory
    BY DEF Have
  <2>3. Raw(m.memory, c) = Read(m, c)
    BY <1>2, <2>2 DEF Raw, Interpreted
  <2> QED BY <1>2, <2>1, <2>3
<1>3. ASSUME NEW c
      PROVE  Hits(ms, c) = Cardinality(ms) <=> \A m \in ms : Near(m.hmi, Read(m, c) * c.scale)
  <2>1. Hits(ms, c) = Cardinality(near(c))
    BY DEF Hits
  <2>2. near(c) \in SUBSET ms
    OBVIOUS
  <2>3. Cardinality(ms) = Cardinality(near(c)) => ms = near(c)
    <3> HIDE DEF near
    <3> QED BY <2>2, FS_Subset
  <2> QED BY <2>1, <2>3
<1> HIDE DEF Read
<1>4. ASSUME NEW c \in FittingNumbers(ms)
      PROVE  c \in Tried(ms) /\ Hits(ms, c) = Cardinality(ms)
  <2>1. \A m \in ms : Read(m, c) # NoData
    BY <1>1, <1>4 DEF FittingNumbers
  <2>2. c \in Tried(ms)
    BY <1>4, <2>1 DEF FittingNumbers, Tried, Read
  <2>3. \A m \in ms : Near(m.hmi, Read(m, c) * c.scale)
    BY <1>2, <1>4, <2>1 DEF FittingNumbers
  <2> QED BY <1>3, <2>2, <2>3
<1>5. ASSUME NEW c \in Tried(ms), Hits(ms, c) = Cardinality(ms)
      PROVE  c \in FittingNumbers(ms)
  <2>1. c \in NumberCandidate /\ \A m \in ms : Read(m, c) # NoData
    BY DEF Tried, Read
  <2>2. \A m \in ms : Raw(m.memory, c) # NoData /\ Near(m.hmi, Decoded(m.memory, c))
    BY <1>2, <1>3, <1>5, <2>1
  <2> QED BY <2>1, <2>2 DEF Tried, FittingNumbers
<1> QED BY <1>4, <1>5

\* The search for a number offers nothing that misses a reading if something
\* fits all; it offers everything that does, or as many as it offers at most,
\* none of them worse than what is left out.
THEOREM SearchLeavesNothingOut ==
  ASSUME NEW ms, IsFiniteSet(ms), ms # {}, \A m \in ms : DOMAIN m.memory \subseteq Cells,
         NEW sort, NEW list \in find_numeric(ms, sort), FittingNumbers(ms) # {}
  PROVE  /\ \A k \in DOMAIN list : list[k] \in FittingNumbers(ms)
         /\ Cardinality(FittingNumbers(ms)) <= MaxCandidates =>
              \A c \in FittingNumbers(ms) : \E k \in DOMAIN list : list[k] = c
         /\ \A c \in FittingNumbers(ms) : (\A k \in DOMAIN list : list[k] # c) =>
              /\ Len(list) = MaxCandidates
              /\ \A k \in DOMAIN list : ~Less(Rank(ms, sort, c), Rank(ms, sort, list[k]))
<1> DEFINE F == FittingNumbers(ms)
           out == {c \in Tried(ms) : Hits(ms, c) > 0}
           strong == {c \in out : Hits(ms, c) = Cardinality(ms)}
<1>1. F = strong
  <2>1. Cardinality(ms) \in Nat /\ Cardinality(ms) # 0
    BY FS_CardinalityType, FS_EmptySet
  <2> QED BY <2>1, FittingAreStrong
<1>2. list \in FirstOf(strong, [c \in strong |-> Rank(ms, sort, c)], MaxCandidates)
  BY <1>1 DEF find_numeric
<1>3. IsFiniteSet(F) /\ Cardinality(F) \in Nat
  <2>1. F \in SUBSET NumberCandidate
    BY DEF FittingNumbers
  <2> QED BY <2>1, FinitelyManyCandidates, FS_Subset, FS_CardinalityType
<1> DEFINE rank == [c \in F |-> Rank(ms, sort, c)]
<1>4. list \in FirstOf(F, rank, MaxCandidates)
  BY <1>1, <1>2
<1> HIDE DEF F, rank
<1>5. /\ \A k \in DOMAIN list : list[k] \in F
      /\ Cardinality(F) >= MaxCandidates => Len(list) = MaxCandidates
      /\ Cardinality(F) <= MaxCandidates => \A c \in F : \E k \in DOMAIN list : list[k] = c
      /\ \A c \in F : (\A k \in DOMAIN list : list[k] # c) =>
           \A k \in DOMAIN list : ~Less(rank[c], rank[list[k]])
  BY <1>3, <1>4, FirstAreTheBest, CandidateConstants
<1>6. \A c \in F : rank[c] = Rank(ms, sort, c)
  BY DEF rank
<1>7. ASSUME NEW c \in F, \A k \in DOMAIN list : list[k] # c
      PROVE  /\ Len(list) = MaxCandidates
             /\ \A k \in DOMAIN list : ~Less(Rank(ms, sort, c), Rank(ms, sort, list[k]))
  BY <1>3, <1>5, <1>6, <1>7, CandidateConstants
<1> QED BY <1>5, <1>7 DEF F

\* Of the bits that were as shown in every reading, the search offers all, or as
\* many as it offers at most, if both states were shown; it offers no other.
THEOREM BitSearchLeavesNothingOut ==
  ASSUME NEW ms, \A m \in ms : DOMAIN m.memory \subseteq Cells,
         {Round(m.hmi.value) : m \in ms} = {0, 1}, NEW list \in find_bits(ms)
  PROVE  /\ \A k \in DOMAIN list : list[k] \in FittingBits(ms)
         /\ Cardinality(FittingBits(ms)) <= 3 * MaxCandidates =>
              \A c \in FittingBits(ms) : \E k \in DOMAIN list : list[k] = c
         /\ \A c \in FittingBits(ms) : (\A k \in DOMAIN list : list[k] # c) =>
              Len(list) = 3 * MaxCandidates
<1> DEFINE F == FittingBits(ms)
           found == {c \in BitCandidate :
                       /\ c.addr \in Have(ms)
                       /\ \A m \in ms : Bit(m.memory[c.addr], c.bit) = Round(m.hmi.value)}
<1>1. F = found
  BY DEF FittingBits, Have, BitCandidate
<1>2. list \in FirstOf(found, [c \in found |-> <<c.addr, c.bit>>], 3 * MaxCandidates)
  BY DEF find_bits
<1>3. IsFiniteSet(F) /\ Cardinality(F) \in Nat
  <2>1. F \in SUBSET BitCandidate
    BY DEF FittingBits
  <2> QED BY <2>1, FinitelyManyCandidates, FS_Subset, FS_CardinalityType
<1> DEFINE rank == [c \in F |-> <<c.addr, c.bit>>]
<1>4. list \in FirstOf(F, rank, 3 * MaxCandidates)
  BY <1>1, <1>2
<1>5. 3 * MaxCandidates \in Nat
  BY CandidateConstants
<1> HIDE DEF F, rank
<1>6. /\ \A k \in DOMAIN list : list[k] \in F
      /\ Cardinality(F) >= 3 * MaxCandidates => Len(list) = 3 * MaxCandidates
      /\ Cardinality(F) <= 3 * MaxCandidates => \A c \in F : \E k \in DOMAIN list : list[k] = c
  BY <1>3, <1>4, <1>5, FirstAreTheBest
<1> QED BY <1>3, <1>5, <1>6 DEF F

LEMMA UsedAreFinitelyMany ==
  ASSUME IInv
  PROVE  IsFiniteSet(Used)
<1>1. IsFiniteSet(Moments)
  <2> DEFINE f == [k \in 1 .. Len(moments) |-> moments[k]]
  <2>1. Len(moments) \in Nat /\ DOMAIN moments = 1 .. Len(moments)
    BY DEF IInv, TypeOK
  <2>2. f \in [1 .. Len(moments) -> Moments] /\ \A m \in Moments : \E k \in 1 .. Len(moments) : f[k] = m
    BY <2>1 DEF Moments
  <2>3. f \in Surjection(1 .. Len(moments), Moments)
    BY <2>2, Fun_IsSurj
  <2>4. IsFiniteSet(1 .. Len(moments))
    BY <2>1, FS_Interval, 1 \in Int, Len(moments) \in Int
  <2> HIDE DEF f
  <2> QED BY <2>3, <2>4, FS_Surjection
<1> DEFINE S == {m \in Searched : m.hmi # Blank}
           f == [m \in S |-> [hmi |-> m.hmi, memory |-> m.memory]]
<1>2. IsFiniteSet(S)
  <2>1. S \in SUBSET Moments
    BY DEF Searched
  <2> QED BY <1>1, <2>1, FS_Subset
<1>3. f \in [S -> Used] /\ \A u \in Used : \E m \in S : f[m] = u
  BY DEF Used
<1>4. f \in Surjection(S, Used)
  BY <1>3, Fun_IsSurj
<1> HIDE DEF f
<1> QED BY <1>2, <1>4, FS_Surjection

\* "Find tags" lists what agrees with every reading searched.
LEMMA FindTagsListsWhatFits ==
  ASSUME IInv, FindTags, Used # {}, kind = "bool" => {Round(m.hmi.value) : m \in Used} = {0, 1}
  PROVE  LeavesNothingOut(kind, Used, cands')
<1> DEFINE fitting == IF kind = "bool" THEN FittingBits(Used) ELSE FittingNumbers(Used)
           most == IF kind = "bool" THEN 3 * MaxCandidates ELSE MaxCandidates
<1>1. cands' \in Found(Used, kind) /\ Used \in SUBSET Seen
  BY DEF FindTags, Listings
<1>2. \A m \in Used : DOMAIN m.memory \subseteq Cells
  BY <1>1, WizardConstants
<1>3. Fitting[kind][Used] = fitting
  <2>1. kind \in Kinds
    BY DEF IInv, TypeOK
  <2> QED BY <1>1, <2>1 DEF Fitting
<1>4. IsFiniteSet(fitting) /\ Cardinality(fitting) \in Nat /\ most \in Nat
  <2>1. IsFiniteSet(FittingBits(Used)) /\ IsFiniteSet(FittingNumbers(Used))
    <3>1. FittingBits(Used) \in SUBSET BitCandidate /\ FittingNumbers(Used) \in SUBSET NumberCandidate
      BY DEF FittingBits, FittingNumbers
    <3> QED BY <3>1, FinitelyManyCandidates, FS_Subset
  <2> QED BY <2>1, FS_CardinalityType, CandidateConstants
<1>5. /\ fitting # {} => \A k \in DOMAIN cands' : cands'[k] \in fitting
      /\ Cardinality(fitting) <= most => \A c \in fitting : \E k \in DOMAIN cands' : cands'[k] = c
      /\ \A c \in fitting : (\A k \in DOMAIN cands' : cands'[k] # c) => Len(cands') = most
  <2>1. CASE kind = "bool"
    <3>1. cands' \in find_bits(Used)
      BY <1>1, <2>1 DEF Found
    <3> QED BY <1>2, <2>1, <3>1, BitSearchLeavesNothingOut
  <2>2. CASE kind # "bool"
    <3>1. cands' \in find_numeric(Used, kind)
      BY <1>1, <2>2 DEF Found
    <3>2. CASE FittingNumbers(Used) = {}
      BY <2>2, <3>2
    <3>3. CASE FittingNumbers(Used) # {}
      BY <1>2, <2>2, <3>1, <3>3, UsedAreFinitelyMany, SearchLeavesNothingOut
    <3> QED BY <3>2, <3>3
  <2> QED BY <2>1, <2>2
<1>6. \A c : SameWords(c, c)
  BY DEF SameWords
<1> HIDE DEF fitting, most
<1>7. \/ \A c \in fitting : \E k \in DOMAIN cands' : SameWords(c, cands'[k])
      \/ Len(cands') = most /\ Cardinality(fitting) > most
  BY <1>4, <1>5, <1>6
<1>8. fitting # {} => \A k \in DOMAIN cands' : \E c \in fitting : SameWords(c, cands'[k])
  BY <1>5, <1>6
<1> QED BY <1>3, <1>7, <1>8 DEF LeavesNothingOut, fitting, most

\* The readings that are searched are those that are remembered as searched.
LEMMA FoundFromUsed ==
  ASSUME IInv, FindTags
  PROVE  FoundFrom' = Used
<1>1. Moments' = Moments /\ used' = {m.n : m \in Searched}
  BY DEF FindTags, Moments
<1>2. ASSUME NEW m \in Moments, m.n \in used' PROVE m \in Searched
  <2>1. PICK l \in Searched : l.n = m.n
    BY <1>1, <1>2
  <2>2. PICK i \in DOMAIN moments, j \in DOMAIN moments : m = moments[i] /\ l = moments[j]
    BY DEF Moments, Searched
  <2>3. i = j
    BY <2>1, <2>2, ReadingsDiffer DEF IInv
  <2> QED BY <2>2, <2>3
<1>3. \A m \in Searched : m \in Moments /\ m.n \in used'
  BY <1>1 DEF Searched
<1>4. {k \in Moments : k.n \in used' /\ k.hmi # Blank} = {k \in Searched : k.hmi # Blank}
  BY <1>2, <1>3
<1>5. FoundFrom' = {[hmi |-> m.hmi, memory |-> m.memory] :
                      m \in {k \in Moments : k.n \in used' /\ k.hmi # Blank}}
  BY <1>1 DEF FoundFrom
<1> QED BY <1>4, <1>5 DEF Used

\* Nothing else touches what the addresses were found from.
LEMMA FoundFromStays ==
  ASSUME IInv,
         \/ \E typed \in Shown \cup {Blank}, breaks \in BOOLEAN : RecordReading(typed, breaks)
         \/ ReaderRaises
         \/ \E h \in Memories \cup {Nothing} : WorkerReads(h)
         \/ WorkerFails \/ Pump \/ Pick \/ BuildTags \/ ApplySuggestedScales
         \/ UNCHANGED vars
  PROVE  FoundFrom' = FoundFrom
<1>1. CASE Pump
  <2>1. moments \in Seq(Moment) /\ used' = used
    BY <1>1 DEF IInv, TypeOK, Pump, choiceVars
  <2>2. CASE moments' = moments
    BY <2>1, <2>2 DEF FoundFrom, Moments
  <2>3. CASE moments' # moments
    <3>1. PICK m : moments' = Append(moments, m) /\ m.n = flight.n
      <4> DEFINE new(at) == [n |-> flight.n, at |-> at, hmi |-> flight.hmi,
                             memory |-> flight.memory, phase |-> flight.phase]
      <4>1. \E at : moments' = Append(moments, new(at))
        BY <1>1, <2>3 DEF Pump, NewMoment
      <4>2. \A at : new(at).n = flight.n
        OBVIOUS
      <4> HIDE DEF new
      <4> QED BY <4>1, <4>2
    <3>2. m.n \notin used
      BY <1>1, <3>1 DEF IInv, UsedAreFinds, Pump
    <3>3. Moments' = Moments \cup {m}
      <4>1. Len(moments) \in Nat /\ DOMAIN moments = 1 .. Len(moments)
        BY <2>1
      <4>2. DOMAIN moments' = DOMAIN moments \cup {Len(moments) + 1}
        BY <2>1, <3>1, <4>1
      <4>3. \A k \in DOMAIN moments : moments'[k] = moments[k]
        BY <2>1, <3>1
      <4>4. moments'[Len(moments) + 1] = m
        BY <2>1, <3>1
      <4> QED BY <4>2, <4>3, <4>4 DEF Moments
    <3>4. {k \in Moments' : k.n \in used' /\ k.hmi # Blank} = {k \in Moments : k.n \in used /\ k.hmi # Blank}
      BY <2>1, <3>2, <3>3
    <3> QED BY <3>4 DEF FoundFrom
  <2> QED BY <2>2, <2>3
<1>2. CASE ~Pump
  <2>1. UNCHANGED <<moments, used>>
    BY <1>2 DEF RecordReading, ReaderRaises, WorkerReads, WorkerFails, Pick, BuildTags,
                ApplySuggestedScales, vars, choiceVars
  <2> QED BY <2>1 DEF FoundFrom, Moments
<1> QED BY <1>1, <1>2

\* Another scale, the same words.
LEMMA ScalesKeepWords ==
  ASSUME NEW k, NEW ms, NEW list, NEW i \in DOMAIN list, NEW d \in Rescaled(list[i]),
         list \in Seq(Candidate), LeavesNothingOut(k, ms, list)
  PROVE  LeavesNothingOut(k, ms, [list EXCEPT ![i] = d])
<1> DEFINE new == [list EXCEPT ![i] = d]
<1>1. DOMAIN new = DOMAIN list /\ Len(new) = Len(list)
  OBVIOUS
<1>2. DOMAIN d = DOMAIN list[i] /\ \A f \in DOMAIN d \ {"scale"} : d[f] = list[i][f]
  <2> DEFINE c == list[i]
  <2>1. d = c \/ \E s : d = [c EXCEPT !.scale = s]
    BY DEF Rescaled
  <2> QED BY <2>1
<1>3. ASSUME NEW c, NEW j \in DOMAIN list
      PROVE  SameWords(c, list[j]) => SameWords(c, new[j])
  <2>1. CASE j = i
    <3>1. new[j] = d
      BY <1>3, <2>1
    <3> QED BY <1>2, <2>1, <3>1 DEF SameWords
  <2>2. CASE j # i
    <3>1. new[j] = list[j]
      BY <1>3, <2>2
    <3> QED BY <3>1
  <2> QED BY <2>1, <2>2
<1> HIDE DEF new
<1>4. LeavesNothingOut(k, ms, new)
  BY <1>1, <1>3 DEF LeavesNothingOut
<1> QED BY <1>4 DEF new

\* "Find tags" leaves out no address that agrees with every reading searched, but
\* for the length of the list, and lists no other if there is one; and so it
\* stays, whatever is recorded, picked and rescaled.
THEOREM WhatFitsIsListed == Spec => []NothingLeftOut
<1>1. Init => NothingLeftOut
  BY DEF Init, NothingLeftOut
<1>2. ASSUME IInv, NothingLeftOut, [Next]_vars PROVE NothingLeftOut'
  <2>1. CASE FindTags
    <3>1. FoundFrom' = Used /\ kind' = kind
      BY <1>2, <2>1, FoundFromUsed DEF FindTags
    <3> QED BY <1>2, <2>1, <3>1, FindTagsListsWhatFits DEF NothingLeftOut, LeavesNothingOut
  <2>2. CASE QuestionsDone \/ LoadImported
    BY <2>2 DEF QuestionsDone, LoadImported, StartSession, NothingLeftOut
  <2>3. CASE ApplySuggestedScales
    <3>1. FoundFrom' = FoundFrom /\ UNCHANGED <<mode, kind, used>>
      BY <1>2, <2>3, FoundFromStays DEF ApplySuggestedScales
    <3>2. CASE cands' = cands
      BY <1>2, <3>1, <3>2 DEF NothingLeftOut, LeavesNothingOut
    <3>3. CASE cands' # cands
      <4>1. PICK d \in Rescaled(cands[chosen]) : cands' = [cands EXCEPT ![chosen] = d]
        BY <2>3, <3>3 DEF ApplySuggestedScales
      <4>2. cands \in Seq(Candidate) /\ chosen \in DOMAIN cands
        <5>1. cands \in Seq(Candidate) /\ chosen \in 0 .. Len(cands) /\ chosen # 0
          BY <1>2, <2>3, <3>3 DEF ApplySuggestedScales, IInv, TypeOK
        <5> QED BY <5>1
      <4>3. ASSUME NEW k, NEW ms, LeavesNothingOut(k, ms, cands)
            PROVE  LeavesNothingOut(k, ms, cands')
        BY <4>1, <4>2, <4>3, ScalesKeepWords
      <4> QED BY <1>2, <3>1, <4>3 DEF NothingLeftOut
    <3> QED BY <3>2, <3>3
  <2>4. CASE UNCHANGED <<mode, kind, cands, used>> /\ FoundFrom' = FoundFrom
    BY <1>2, <2>4 DEF NothingLeftOut, LeavesNothingOut
  <2> QED BY <1>2, <2>1, <2>2, <2>3, <2>4, OthersKeepCands, FoundFromStays DEF Next
<1> QED BY <1>1, <1>2, InductiveInvariant, PTL DEF Spec

=============================================================================
