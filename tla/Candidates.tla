------------------------------ MODULE Candidates ------------------------------
(***************************************************************************)
(* The search for the address of a signal (commissioning.py): every way to *)
(* read the words of the PLC is tried against what the HMI showed.         *)
(*                                                                         *)
(* A memory is one reading of a region: a function from the addresses that *)
(* were read to words.  A value is counted in thousandths, so a scale is   *)
(* one of 1000, 100, 10, 1, 10000, 100000.  Coils, whose region is off     *)
(* unless somebody enables it, are left out.                               *)
(***************************************************************************)
EXTENDS Decode, FiniteSets

CONSTANTS Cells,         \* the addresses of the region
          Step,          \* Region.step: to the next word
          Orders,        \* derive's byte_orders: the make's usual one first
          Scales,        \* those of SCALES that are tried
          MaxCandidates  \* MAX_CANDIDATES

ASSUME CandidateConstants ==
  /\ Cells \subseteq Nat /\ IsFiniteSet(Cells)
  /\ Step \in Nat \ {0}
  /\ Scales \subseteq Nat \ {0}
  /\ MaxCandidates \in Nat \ {0}

Distance(v, w) == IF v < w THEN w - v ELSE v - w

\* What the HMI shows, with the tolerance of its last digit and of the drift.
hmi_reading(value, decimals, drift) ==
  [value |-> value,
   tolerance |-> 500 \div 10^decimals + (drift * Distance(value, 0)) \div 1000]

Near(hmi, value) == Distance(hmi.value, value) <= hmi.tolerance

-----------------------------------------------------------------------------
(* Decoding.                                                               *)

\* The word at a, and the one after it, read as a data type; have are the
\* addresses there are words for.
Interpreted(memory, have, a, datatype, order) ==
  IF a \notin have THEN NoData
  ELSE IF <<datatype, order>> \in Short THEN InterpretedShort(memory[a], datatype, order)
  ELSE IF a + Step \notin have THEN NoData
  ELSE InterpretedLong(memory[a], memory[a + Step], datatype, order)

\* A bit of a word.
Bit(w, b) == (w \div 2^b) % 2

WordBits == {b \in 0 .. 15 : 2^b < Word}

-----------------------------------------------------------------------------
(* Candidates.                                                             *)

ScalesOf(datatype) == IF datatype = "float32" THEN {1000} ELSE Scales

\* The candidates of a number, a scale that is set later included, and of an
\* on/off signal.
SCALES == <<1000, 100, 10, 1, 10000, 100000>>

AllScales == {SCALES[k] : k \in DOMAIN SCALES}

NumberCandidate ==
  {[addr |-> a, datatype |-> w[1], order |-> w[2], scale |-> s] :
     a \in Cells, w \in Short \cup Long, s \in AllScales}

BitCandidate == [addr : Cells, bit : WordBits]

Candidate == NumberCandidate \cup BitCandidate

\* decode_candidate without its scale.
Raw(memory, c) == Interpreted(memory, DOMAIN memory, c.addr, c.datatype, c.order)

\* Mutant: the scale is left out.
Mutant_Unscaled(memory, c) ==
  IF "bit" \in DOMAIN c
  THEN IF c.addr \in DOMAIN memory THEN 1000 * Bit(memory[c.addr], c.bit) ELSE NoData
  ELSE IF Raw(memory, c) = NoData THEN NoData ELSE 1000 * Raw(memory, c)

\* decode_candidate, decode_bit: what a candidate is in a reading.
Decoded(memory, c) ==
  IF "bit" \in DOMAIN c
  THEN IF c.addr \in DOMAIN memory THEN 1000 * Bit(memory[c.addr], c.bit) ELSE NoData
  ELSE IF Raw(memory, c) = NoData THEN NoData ELSE Raw(memory, c) * c.scale

-----------------------------------------------------------------------------
(* The search.  A reading is a record of what the HMI showed and of the    *)
(* memory; readings that are the same count once (there are two at most).  *)

\* The addresses that every reading has.
Have(ms) == {a \in Cells : \A m \in ms : a \in DOMAIN m.memory}

\* What can be tried in every reading: a float that is not finite in one of
\* them hides no other way to read the words.
Tried(ms) ==
  {c \in NumberCandidate :
     /\ c.datatype \in {"int32", "uint32", "float32"} => \E k \in DOMAIN Orders : Orders[k] = c.order
     /\ c.scale \in ScalesOf(c.datatype)
     /\ \A m \in ms : Interpreted(m.memory, Have(ms), c.addr, c.datatype, c.order) # NoData}

Hits(ms, c) ==
  Cardinality({m \in ms :
    Near(m.hmi, Interpreted(m.memory, Have(ms), c.addr, c.datatype, c.order) * c.scale)})

\* _simplicity, after the number of readings that fit; then the address.
Rank(ms, sort, c) ==
  LET width == IF <<c.datatype, c.order>> \in Short THEN 1 ELSE 2
      places == {k \in DOMAIN Orders : Orders[k] = c.order}
      unsigned == c.datatype \in {"uint16", "uint32"}
  IN << Cardinality(ms) - Hits(ms, c),
        CHOOSE k \in DOMAIN SCALES : SCALES[k] = c.scale,
        IF places # {} THEN CHOOSE k \in places : TRUE ELSE IF width = 1 THEN 1 ELSE 10,
        width,
        IF unsigned = (sort = "counter") THEN 0 ELSE 1,
        c.addr >>

Less(p, q) ==
  \E i \in DOMAIN p : p[i] < q[i] /\ \A j \in 1 .. i - 1 : p[j] = q[j]

Smaller(m, n) == IF m < n THEN m ELSE n

\* The first n of S by rank.  Ranks may be equal: the order of those comes from
\* a set of strings and is another in every run of the program.
FirstOf(S, rank, n) ==
  {list \in UNION {[1 .. k -> S] : k \in 0 .. n} :
     /\ Len(list) = Smaller(n, Cardinality(S))
     /\ \A k \in DOMAIN list :
          /\ \A j \in 1 .. k - 1 : list[j] # list[k]
          /\ \A c \in S : Less(rank[c], rank[list[k]]) => \E j \in 1 .. k - 1 : list[j] = c}

\* Mutant: the simplest are listed, however many readings they fit.
Mutant_SimplestFirst(ms, sort) ==
  LET out == {c \in Tried(ms) : Hits(ms, c) > 0}
  IN IF ms = {} THEN {<<>>}
     ELSE FirstOf(out, [c \in out |-> Tail(Rank(ms, sort, c))], MaxCandidates)

\* The lists find_numeric may return: what fits all readings, else the best of
\* the partial fits that are looked at, the more hits and the lower address first.
find_numeric(ms, sort) ==
  LET out == {c \in Tried(ms) : Hits(ms, c) > 0}
      strong == {c \in out : Hits(ms, c) = Cardinality(ms)}
      pools == IF strong # {} THEN {strong}
               ELSE IF Cardinality(out) <= 4 * MaxCandidates THEN {out}
               ELSE {p \in SUBSET out :
                       /\ Cardinality(p) = Smaller(4 * MaxCandidates, Cardinality(out))
                       /\ \A c \in p, d \in out \ p :
                            ~Less(<<-Hits(ms, d), d.addr>>, <<-Hits(ms, c), c.addr>>)}
  IN IF ms = {} THEN {<<>>}
     ELSE UNION {FirstOf(p, [c \in p |-> Rank(ms, sort, c)], MaxCandidates) : p \in pools}

\* To the next whole number, halves down.
Round(v) == (v + 499) \div 1000

\* The list find_bits returns: every bit that was as shown in all readings, if
\* both states were shown.
find_bits(ms) ==
  LET found == {c \in BitCandidate :
                  /\ c.addr \in Have(ms)
                  /\ \A m \in ms : Bit(m.memory[c.addr], c.bit) = Round(m.hmi.value)}
  IN IF {Round(m.hmi.value) : m \in ms} = {0, 1}
     THEN FirstOf(found, [c \in found |-> <<c.addr, c.bit>>], 3 * MaxCandidates)
     ELSE {<<>>}

\* What "Find tags" may list for a signal.
Found(ms, sort) == IF sort = "bool" THEN find_bits(ms) ELSE find_numeric(ms, sort)

-----------------------------------------------------------------------------
\* The scales that all pairs of a value shown and a raw value point to, zeros
\* apart.
suggest_scale(pairs) ==
  LET telling == {p \in pairs : p.shown # 0 /\ p.raw # 0}
  IN {s \in AllScales \ {1000} :
        /\ telling # {}
        /\ \A p \in telling : 50 * Distance(p.shown, p.raw * s) <= Distance(p.raw, 0) * s}

=============================================================================
