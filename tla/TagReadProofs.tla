--------------------------- MODULE TagReadProofs ---------------------------
(***************************************************************************)
(* What "plcread.py read" guarantees, for every list of tags, gap between  *)
(* regions and number of samples.                                          *)
(***************************************************************************)
EXTENDS TagRead, TLAPS

-----------------------------------------------------------------------------
(* Addresses.                                                              *)

\* A gap in addresses.
Gap == MaxGap * Step

\* What the arithmetic below needs of the constants.
LEMMA GapSizes ==
  /\ Step \in Nat /\ Step > 0 /\ MaxGap \in Nat
  /\ Gap \in Nat /\ Gap >= Step /\ (MaxGap - 1) * Step = Gap - Step
<1>1. MaxGap \in Nat /\ MaxGap >= 1
  BY GapAssumption
<1>2. CASE Step = 1
  BY <1>1, <1>2 DEF Gap
<1>3. CASE Step = 2
  BY <1>1, <1>3 DEF Gap
<1> QED BY <1>2, <1>3, StepAssumption

\* Among the words of a gap is every word between its first and its last.
LEMMA WordInGap ==
  ASSUME NEW n \in Int, NEW x \in Int, n % Step = 0, x % Step = 0,
         n <= x, x <= n + Gap - Step
  PROVE  \E k \in 0 .. MaxGap - 1 : n + k * Step = x
<1>1. MaxGap \in Nat
  BY GapAssumption
<1>2. CASE Step = 1
  <2>1. x - n \in 0 .. MaxGap - 1 /\ n + (x - n) * Step = x
    BY <1>1, <1>2 DEF Gap
  <2> QED BY <2>1
<1>3. CASE Step = 2
  <2>1. PICK i \in Int : x = 2 * i
    BY <1>3
  <2>2. PICK j \in Int : n = 2 * j
    BY <1>3
  <2>3. i - j \in 0 .. MaxGap - 1 /\ n + (i - j) * Step = x
    BY <1>1, <1>3, <2>1, <2>2 DEF Gap
  <2> QED BY <2>3
<1> QED BY <1>2, <1>3, StepAssumption

\* The words of a tag: at most two, next to each other, cells of the PLC.
LEMMA WordsOfTag ==
  ASSUME tags \subseteq TagSpace, NEW t \in tags
  PROVE  /\ t.area \in Areas /\ t.number \in 0 .. LastNumber
         /\ t.number \in Nat /\ LastWord(t) \in Nat
         /\ LastWord(t) \in 0 .. LastNumber + Step
         /\ LastWord(t) \in {t.number, t.number + Step}
         /\ t.number % Step = 0 /\ LastWord(t) % Step = 0
         /\ {<<t.area, t.number>>, <<t.area, LastWord(t)>>} \subseteq TagCells
         /\ Cells(t) \subseteq AllCells
<1>1. t.area \in Areas /\ t.number \in Numbers /\ t.words \in {1, 2}
  BY DEF TagSpace
<1>2. t.number \in 0 .. LastNumber /\ LastNumber \in Nat /\ t.number % Step = 0
  BY <1>1, NumbersAssumption
<1>3. LastWord(t) \in {t.number, t.number + Step}
  <2>1. CASE t.words = 1
    BY <1>2, <2>1, GapSizes DEF LastWord
  <2>2. CASE t.words = 2
    BY <1>2, <2>2, GapSizes DEF LastWord
  <2> QED BY <1>1, <2>1, <2>2
<1>4. t.number \in 0 .. LastNumber + Step /\ LastWord(t) \in 0 .. LastNumber + Step
  BY <1>2, <1>3, GapSizes
<1>5. LastWord(t) % Step = 0
  <2>1. CASE Step = 1
    BY <1>2, <1>3, <2>1
  <2>2. CASE Step = 2
    BY <1>2, <1>3, <2>2
  <2> QED BY <2>1, <2>2, StepAssumption
<1>6. {<<t.area, t.number>>, <<t.area, LastWord(t)>>} \subseteq TagCells
  BY DEF TagCells, Cells
<1>7. Cells(t) \subseteq AllCells
  BY <1>1, <1>4 DEF Cells, AllCells
<1> QED BY <1>1, <1>2, <1>3, <1>4, <1>5, <1>6, <1>7

\* build_range_tags asks for the aligned addresses of a region and no others.
LEMMA RangeIs ==
  ASSUME NEW g, g.start \in Nat, g.end \in Nat, g.start % Step = 0
  PROVE  \A n \in Int : n \in RangeTags(g) <=> g.start <= n /\ n <= g.end /\ n % Step = 0
<1> SUFFICES ASSUME NEW n \in Int
             PROVE  n \in RangeTags(g) <=> g.start <= n /\ n <= g.end /\ n % Step = 0
  OBVIOUS
<1>1. CASE Step = 1
  BY <1>1 DEF RangeTags
<1>2. CASE Step = 2
  BY <1>2 DEF RangeTags
<1> QED BY <1>1, <1>2, StepAssumption

-----------------------------------------------------------------------------
(* The regions (import_regions).                                           *)

Region == [area : Areas, start : 0 .. LastNumber, end : 0 .. LastNumber + Step]

\* What the regions are while the list is imported.
ImportInv ==
  /\ tags \subseteq TagSpace /\ pending \subseteq tags /\ regions \subseteq Region
  /\ RegionsCover /\ RegionsApart

\* The addresses of a region are numbers.
LEMMA RegionNumbers ==
  ASSUME ImportInv, NEW g \in regions
  PROVE  /\ g.area \in Areas /\ g.start \in Nat /\ g.end \in Nat /\ g.start <= g.end
         /\ g.start \in 0 .. LastNumber /\ g.end \in 0 .. LastNumber + Step
         /\ g.start % Step = 0 /\ g.end % Step = 0
         /\ {<<g.area, g.start>>, <<g.area, g.end>>} \subseteq TagCells
<1>1. g \in Region
  BY DEF ImportInv
<1>2. LastNumber \in Nat /\ Step \in Nat
  BY NumbersAssumption, GapSizes
<1>3. g.start \in Nat /\ g.end \in Nat
  BY <1>1, <1>2 DEF Region
<1> QED BY <1>1, <1>3 DEF Region, ImportInv, RegionsCover

\* The other regions of its area end a gap before the open block.
LEMMA BlocksBehind ==
  ASSUME ImportInv, NEW g, OpenBlock(g), NEW h \in regions, h.area = g.area, h # g
  PROVE  g.start - h.end > Gap
<1>1. g \in regions /\ h.start <= g.start
  BY DEF OpenBlock
<1>2. g.start - h.end > Gap \/ h.start - g.end > Gap
  BY <1>1 DEF ImportInv, RegionsApart, Gap
<1>3. g.start \in Nat /\ g.end \in Nat /\ h.start \in Nat /\ g.start <= g.end
  BY <1>1, RegionNumbers
<1> QED BY <1>1, <1>2, <1>3, GapSizes

\* A tag that follows a gap begins after every region of its area.
LEMMA AllBehind ==
  ASSUME ImportInv, NEW t \in tags,
         \A g \in regions : g.area = t.area /\ OpenBlock(g) => Beyond(t, g),
         NEW h \in regions, h.area = t.area
  PROVE  t.number - h.end > Gap
<1>1. PICK g \in regions : g.area = h.area /\ OpenBlock(g)
  BY DEF ImportInv, RegionsCover
<1>2. t.number - g.end > Gap
  BY <1>1 DEF Beyond, Gap
<1>3. CASE h = g
  BY <1>2, <1>3
<1>4. CASE h # g
  <2>1. g.start - h.end > Gap
    BY <1>1, <1>4, BlocksBehind
  <2>2. t.number \in Nat
    <3>1. tags \subseteq TagSpace
      BY DEF ImportInv
    <3> QED BY <3>1, WordsOfTag
  <2>3. g.start \in Nat /\ g.end \in Nat /\ h.end \in Nat /\ g.start <= g.end
    BY <1>1, RegionNumbers
  <2> QED BY <1>2, <2>1, <2>2, <2>3, GapSizes
<1> QED BY <1>3, <1>4

\* The words of a region are asked for in stretches of a gap, each with a tag.
LEMMA Dense ==
  ASSUME ImportInv, NEW g \in regions, NEW n \in Int, n % Step = 0,
         g.start <= n, n + Gap - Step <= g.end
  PROVE  \E k \in 0 .. MaxGap - 1 : <<g.area, n + k * Step>> \in TagCells
<1>1. n \in RangeTags(g)
  <2>1. g.start \in Nat /\ g.end \in Nat /\ g.start % Step = 0
    BY RegionNumbers
  <2>2. n <= g.end
    BY <2>1, GapSizes
  <2> QED BY <2>1, <2>2, RangeIs
<1>2. n + (MaxGap - 1) * Step <= g.end
  BY GapSizes
<1> QED BY <1>1, <1>2 DEF ImportInv, RegionsApart

\* The step of the import that begins a block.
LEMMA BeginBlockHolds ==
  ASSUME ImportInv, NEW t \in pending, BeginBlock(t)
  PROVE  ImportInv'
<1> DEFINE b == [area |-> t.area, start |-> t.number, end |-> LastWord(t)]
<1>1. /\ regions' = regions \cup {b} /\ pending' = pending \ {t} /\ tags' = tags
      /\ \A u \in pending : u.area = t.area => SpanBefore(t, u)
      /\ \A g \in regions : g.area = t.area /\ OpenBlock(g) => Beyond(t, g)
  BY DEF BeginBlock, TakeSpan
<1>2. /\ t \in tags /\ t.area \in Areas /\ t.number \in 0 .. LastNumber
      /\ LastWord(t) \in 0 .. LastNumber + Step
      /\ LastWord(t) \in {t.number, t.number + Step}
      /\ t.number % Step = 0 /\ LastWord(t) % Step = 0
      /\ {<<t.area, t.number>>, <<t.area, LastWord(t)>>} \subseteq TagCells
  BY WordsOfTag DEF ImportInv
<1>3. b \in Region /\ t.number \in Nat /\ LastWord(t) \in Nat /\ t.number <= LastWord(t)
  BY <1>2, NumbersAssumption, GapSizes DEF Region
<1>4. \A h \in regions : h.area = t.area => t.number - h.end > Gap /\ h.start <= t.number
  <2> SUFFICES ASSUME NEW h \in regions, h.area = t.area
               PROVE  t.number - h.end > Gap /\ h.start <= t.number
    OBVIOUS
  <2>1. t.number - h.end > Gap
    BY <1>1, <1>2, AllBehind
  <2>2. h.start \in Nat /\ h.end \in Nat /\ h.start <= h.end
    BY RegionNumbers
  <2> QED BY <2>1, <2>2, <1>3, GapSizes
<1>5. TagCells' = TagCells /\ (\A u : Cells(u)' = Cells(u) /\ LastWord(u)' = LastWord(u))
  BY <1>1 DEF TagCells, Cells, LastWord
<1>6. b.area = t.area /\ b.start = t.number /\ b.end = LastWord(t)
  OBVIOUS
<1> HIDE DEF b
<1>7. OpenBlock(b)'
  BY <1>1, <1>3, <1>4, <1>6 DEF OpenBlock
<1>8. RegionsCover'
  <2>1. ASSUME NEW g \in regions'
        PROVE  /\ g.start <= g.end /\ g.start % Step = 0 /\ g.end % Step = 0
               /\ {<<g.area, g.start>>, <<g.area, g.end>>} \subseteq TagCells
    <3>1. CASE g = b
      BY <1>2, <1>3, <1>6, <3>1
    <3>2. CASE g \in regions
      BY <3>2, RegionNumbers
    <3> QED BY <1>1, <2>1, <3>1, <3>2
  <2>2. ASSUME NEW g \in regions'
        PROVE  \E h \in regions' : h.area = g.area /\ OpenBlock(h)'
    <3>1. CASE g.area = t.area
      BY <1>1, <1>6, <1>7, <3>1
    <3>2. CASE g.area # t.area
      <4>1. g \in regions
        BY <1>1, <1>6, <2>2, <3>2
      <4>2. PICK h \in regions : h.area = g.area /\ OpenBlock(h)
        BY <4>1 DEF ImportInv, RegionsCover
      <4>3. OpenBlock(h)'
        BY <1>1, <1>6, <3>2, <4>2 DEF OpenBlock
      <4> QED BY <1>1, <4>2, <4>3
    <3> QED BY <3>1, <3>2
  <2>3. ASSUME NEW g \in regions', NEW u \in pending', u.area = g.area
        PROVE  g.start <= u.number
    <3>1. CASE g = b
      <4>1. SpanBefore(t, u)
        BY <1>1, <1>6, <2>3, <3>1
      <4>2. u.number \in Nat
        <5>1. u \in tags /\ tags \subseteq TagSpace
          BY <1>1, <2>3 DEF ImportInv
        <5> QED BY <5>1, WordsOfTag
      <4> QED BY <1>3, <1>6, <3>1, <4>1, <4>2 DEF SpanBefore
    <3>2. CASE g \in regions
      BY <1>1, <2>3, <3>2 DEF ImportInv, RegionsCover
    <3> QED BY <1>1, <2>3, <3>1, <3>2
  <2>4. ASSUME NEW u \in tags \ pending'
        PROVE  \E g \in regions' : \A c \in Cells(u) : InRegion(g, c)
    <3>1. CASE u = t
      <4>1. \A c \in Cells(t) : InRegion(b, c)
        BY <1>2, <1>3, <1>6 DEF Cells, InRegion
      <4> QED BY <1>1, <3>1, <4>1
    <3>2. CASE u # t
      BY <1>1, <2>4, <3>2 DEF ImportInv, RegionsCover
    <3> QED BY <3>1, <3>2
  <2> QED BY <1>1, <1>5, <2>1, <2>2, <2>3, <2>4 DEF RegionsCover, InRegion
<1>9. RegionsApart'
  <2>1. ASSUME NEW g \in regions', NEW h \in regions', g # h, g.area = h.area
        PROVE  h.start - g.end > Gap \/ g.start - h.end > Gap
    <3>1. CASE g \in regions /\ h \in regions
      BY <2>1, <3>1 DEF ImportInv, RegionsApart, Gap
    <3>2. CASE g = b /\ h \in regions
      BY <1>4, <1>6, <2>1, <3>2
    <3>3. CASE h = b /\ g \in regions
      BY <1>4, <1>6, <2>1, <3>3
    <3> QED BY <1>1, <2>1, <3>1, <3>2, <3>3
  <2>2. ASSUME NEW g \in regions', NEW n \in RangeTags(g), n + (MaxGap - 1) * Step <= g.end
        PROVE  \E k \in 0 .. MaxGap - 1 : <<g.area, n + k * Step>> \in TagCells
    <3>1. CASE g \in regions
      BY <2>2, <3>1 DEF ImportInv, RegionsApart
    <3>2. CASE g = b
      <4>1. n \in Int /\ t.number <= n /\ n <= LastWord(t) /\ n % Step = 0
        <5>1. n \in Int
          BY <2>2, <3>2, <1>3, <1>6 DEF RangeTags
        <5> QED BY <1>2, <1>3, <1>6, <2>2, <3>2, <5>1, RangeIs
      <4>2. n = t.number \/ n = LastWord(t)
        <5>1. CASE Step = 1
          BY <1>2, <1>3, <4>1, <5>1
        <5>2. CASE Step = 2
          BY <1>2, <1>3, <4>1, <5>2
        <5> QED BY <5>1, <5>2, StepAssumption
      <4>3. 0 \in 0 .. MaxGap - 1 /\ n + 0 * Step = n
        BY <4>1, GapSizes, GapAssumption
      <4>4. <<g.area, n>> \in TagCells
        BY <1>2, <1>6, <3>2, <4>2
      <4> QED BY <4>3, <4>4
    <3> QED BY <1>1, <2>2, <3>1, <3>2
  <2> QED BY <1>5, <2>1, <2>2 DEF RegionsApart, Gap, RangeTags
<1> QED BY <1>1, <1>3, <1>8, <1>9 DEF ImportInv, TagSpace, Region

\* The step of the import that extends the open block.
LEMMA ExtendBlockHolds ==
  ASSUME ImportInv, NEW t \in pending, NEW g \in regions, ExtendBlock(t, g)
  PROVE  ImportInv'
<1> DEFINE b == [g EXCEPT !.end = Larger(@, LastWord(t))]
<1>1. /\ regions' = (regions \ {g}) \cup {b} /\ pending' = pending \ {t} /\ tags' = tags
      /\ \A u \in pending : u.area = t.area => SpanBefore(t, u)
      /\ g.area = t.area /\ OpenBlock(g) /\ ~Beyond(t, g)
  BY DEF ExtendBlock, TakeSpan
<1>2. t \in tags /\ tags \subseteq TagSpace
  BY DEF ImportInv
<1>3. /\ t.area \in Areas /\ t.number \in 0 .. LastNumber
      /\ LastWord(t) \in 0 .. LastNumber + Step
      /\ t.number \in Nat /\ LastWord(t) \in Nat
      /\ LastWord(t) \in {t.number, t.number + Step}
      /\ t.number % Step = 0 /\ LastWord(t) % Step = 0
      /\ <<t.area, LastWord(t)>> \in TagCells
  BY <1>2, WordsOfTag
<1>4. /\ g.area \in Areas /\ g.start \in Nat /\ g.end \in Nat /\ g.start <= g.end
      /\ g.start \in 0 .. LastNumber /\ g.end \in 0 .. LastNumber + Step
      /\ g.start % Step = 0 /\ g.end % Step = 0
      /\ {<<g.area, g.start>>, <<g.area, g.end>>} \subseteq TagCells
  BY RegionNumbers
<1>5. b.area = t.area /\ b.start = g.start /\ b.end = Larger(g.end, LastWord(t)) /\ b \in Region
  <2>1. g \in Region /\ Larger(g.end, LastWord(t)) \in 0 .. LastNumber + Step
    BY <1>3, <1>4 DEF ImportInv, Larger
  <2> QED BY <1>1, <2>1 DEF Region
<1> HIDE DEF b
<1>6. /\ b.end \in Nat /\ g.end <= b.end /\ LastWord(t) <= b.end
      /\ b.end = g.end \/ b.end = LastWord(t)
  BY <1>3, <1>4, <1>5 DEF Larger
<1>7. g.start <= t.number /\ t.number <= LastWord(t) /\ t.number - g.end <= Gap
  <2>1. g.start <= t.number
    BY <1>1 DEF ImportInv, RegionsCover
  <2>2. ~(t.number - g.end > Gap)
    BY <1>1 DEF Beyond, Gap
  <2> QED BY <1>3, <1>4, <2>1, <2>2, GapSizes
<1>8. \A h \in regions : h.area = t.area /\ h # g => g.start - h.end > Gap /\ h.start <= g.start
  BY <1>1, BlocksBehind DEF OpenBlock
<1>9. TagCells' = TagCells /\ (\A u : Cells(u)' = Cells(u) /\ LastWord(u)' = LastWord(u))
  BY <1>1 DEF TagCells, Cells, LastWord
<1>10. OpenBlock(b)'
  BY <1>1, <1>4, <1>5, <1>8 DEF OpenBlock
<1>11. RegionsCover'
  <2>1. ASSUME NEW h \in regions'
        PROVE  /\ h.start <= h.end /\ h.start % Step = 0 /\ h.end % Step = 0
               /\ {<<h.area, h.start>>, <<h.area, h.end>>} \subseteq TagCells
    <3>1. CASE h = b
      <4>1. h.start <= h.end
        BY <1>4, <1>5, <1>6, <3>1
      <4> QED BY <1>1, <1>3, <1>4, <1>5, <1>6, <3>1, <4>1
    <3>2. CASE h \in regions
      BY <3>2, RegionNumbers
    <3> QED BY <1>1, <2>1, <3>1, <3>2
  <2>2. ASSUME NEW h \in regions'
        PROVE  \E k \in regions' : k.area = h.area /\ OpenBlock(k)'
    <3>1. CASE h.area = t.area
      BY <1>1, <1>5, <1>10, <3>1
    <3>2. CASE h.area # t.area
      <4>1. h \in regions
        BY <1>1, <1>5, <2>2, <3>2
      <4>2. PICK k \in regions : k.area = h.area /\ OpenBlock(k)
        BY <4>1 DEF ImportInv, RegionsCover
      <4>3. k # g /\ k \in regions'
        BY <1>1, <3>2, <4>2
      <4>4. OpenBlock(k)'
        BY <1>1, <1>5, <3>2, <4>2, <4>3 DEF OpenBlock
      <4> QED BY <4>2, <4>3, <4>4
    <3> QED BY <3>1, <3>2
  <2>3. ASSUME NEW h \in regions', NEW u \in pending', u.area = h.area
        PROVE  h.start <= u.number
    <3>1. CASE h = b
      <4>1. u \in pending /\ u.area = g.area
        BY <1>1, <1>5, <2>3, <3>1
      <4> QED BY <1>5, <3>1, <4>1 DEF ImportInv, RegionsCover
    <3>2. CASE h \in regions
      BY <1>1, <2>3, <3>2 DEF ImportInv, RegionsCover
    <3> QED BY <1>1, <2>3, <3>1, <3>2
  <2>4. ASSUME NEW u \in tags \ pending'
        PROVE  \E h \in regions' : \A c \in Cells(u) : InRegion(h, c)
    <3>1. CASE u = t
      <4>1. \A c \in Cells(t) : InRegion(b, c)
        BY <1>3, <1>4, <1>5, <1>6, <1>7 DEF Cells, InRegion
      <4> QED BY <1>1, <3>1, <4>1
    <3>2. CASE u # t
      <4>1. PICK h \in regions : \A c \in Cells(u) : InRegion(h, c)
        BY <1>1, <2>4, <3>2 DEF ImportInv, RegionsCover
      <4>2. CASE h # g
        BY <1>1, <4>1, <4>2
      <4>3. CASE h = g
        <5>1. u.number \in Nat /\ LastWord(u) \in Nat
          BY <1>2, <2>4, WordsOfTag
        <5>2. \A c \in Cells(u) : c[2] \in Nat
          BY <5>1 DEF Cells
        <5>3. \A c \in Cells(u) : InRegion(b, c)
          BY <1>1, <1>4, <1>5, <1>6, <4>1, <4>3, <5>2 DEF InRegion
        <5> QED BY <1>1, <5>3
      <4> QED BY <4>2, <4>3
    <3> QED BY <3>1, <3>2
  <2> QED BY <1>1, <1>9, <2>1, <2>2, <2>3, <2>4 DEF RegionsCover, InRegion
<1>12. ASSUME NEW n \in RangeTags(b), n + Gap - Step <= b.end
       PROVE  \E k \in 0 .. MaxGap - 1 : <<b.area, n + k * Step>> \in TagCells
  <2>1. n \in Int /\ g.start <= n /\ n % Step = 0
    <3>1. n \in Int
      BY <1>12, <1>4, <1>5, <1>6 DEF RangeTags
    <3> QED BY <1>4, <1>5, <1>6, <1>12, <3>1, RangeIs
  <2>2. ASSUME NEW x \in Nat, x % Step = 0, n <= x, x <= n + Gap - Step, <<t.area, x>> \in TagCells
        PROVE  \E k \in 0 .. MaxGap - 1 : <<b.area, n + k * Step>> \in TagCells
    BY <1>5, <2>1, <2>2, WordInGap
  <2>3. CASE n + Gap - Step <= g.end
    BY <1>1, <1>5, <2>1, <2>3, Dense
  <2>4. CASE n <= g.end /\ g.end <= n + Gap - Step
    BY <1>1, <1>4, <2>2, <2>4
  <2>5. CASE g.end < n /\ n <= t.number
    <3>1. g.end + Step <= n
      <4>1. CASE Step = 1
        BY <1>4, <2>1, <2>5, <4>1
      <4>2. CASE Step = 2
        BY <1>4, <2>1, <2>5, <4>2
      <4> QED BY <4>1, <4>2, StepAssumption
    <3>2. t.number <= n + Gap - Step
      BY <1>3, <1>4, <1>7, <2>1, <3>1, GapSizes
    <3>3. <<t.area, t.number>> \in TagCells
      BY <1>2, WordsOfTag
    <3> QED BY <1>3, <2>2, <2>5, <3>2, <3>3
  <2>6. CASE g.end < n /\ t.number < n
    <3>1. n = LastWord(t)
      <4>1. n <= b.end
        BY <1>6, <1>12, <2>1, GapSizes
      <4>2. n <= LastWord(t)
        BY <1>3, <1>4, <1>6, <2>1, <2>6, <4>1
      <4>3. CASE Step = 1
        BY <1>3, <2>1, <2>6, <4>2, <4>3
      <4>4. CASE Step = 2
        <5>1. PICK i \in Int : n = 2 * i
          BY <2>1, <4>4
        <5>2. PICK j \in Int : t.number = 2 * j
          BY <1>3, <4>4
        <5> QED BY <1>3, <2>6, <4>2, <4>4, <5>1, <5>2
      <4> QED BY <4>3, <4>4, StepAssumption
    <3>2. n <= n + Gap - Step
      BY <2>1, GapSizes
    <3> QED BY <1>3, <2>2, <3>1, <3>2
  <2>7. n + Gap - Step \in Int
    BY <2>1, GapSizes
  <2> QED BY <1>3, <1>4, <2>1, <2>3, <2>4, <2>5, <2>6, <2>7
<1>13. RegionsApart'
  <2>1. ASSUME NEW h \in regions', NEW k \in regions', h # k, h.area = k.area
        PROVE  k.start - h.end > Gap \/ h.start - k.end > Gap
    <3>1. CASE h \in regions /\ k \in regions
      BY <2>1, <3>1 DEF ImportInv, RegionsApart, Gap
    <3>2. CASE h = b /\ k \in regions
      BY <1>1, <1>5, <1>8, <2>1, <3>2
    <3>3. CASE k = b /\ h \in regions
      BY <1>1, <1>5, <1>8, <2>1, <3>3
    <3> QED BY <1>1, <2>1, <3>1, <3>2, <3>3
  <2>2. ASSUME NEW h \in regions', NEW n \in RangeTags(h), n + (MaxGap - 1) * Step <= h.end
        PROVE  \E k \in 0 .. MaxGap - 1 : <<h.area, n + k * Step>> \in TagCells
    <3>1. CASE h \in regions
      BY <2>2, <3>1 DEF ImportInv, RegionsApart
    <3>2. CASE h = b
      <4>1. n \in Int
        BY <1>4, <1>5, <1>6, <2>2, <3>2 DEF RangeTags
      <4>2. n + Gap - Step <= b.end
        BY <1>6, <2>2, <3>2, <4>1, GapSizes
      <4> QED BY <1>12, <2>2, <3>2, <4>2
    <3> QED BY <1>1, <2>2, <3>1, <3>2
  <2> QED BY <1>9, <2>1, <2>2 DEF RegionsApart, Gap, RangeTags
<1> QED BY <1>1, <1>5, <1>11, <1>13 DEF ImportInv, TagSpace, Region

-----------------------------------------------------------------------------
(* The command: what no step but one of its own disturbs.                  *)

\* The words of the tags are cells of the PLC.
LEMMA TagCellsAreCells ==
  ASSUME ReadTypeOK
  PROVE  /\ TagCells \subseteq AllCells
         /\ \A t \in tags : Cells(t) \subseteq AllCells
<1>1. tags \subseteq TagSpace
  BY DEF ReadTypeOK
<1>2. \A t \in tags : Cells(t) \subseteq AllCells
  BY <1>1, WordsOfTag
<1> QED BY <1>2 DEF TagCells

\* So are the words a region asks for.
LEMMA AskedAreCells ==
  ASSUME ReadTypeOK, NEW g \in regions
  PROVE  Asked(g) \subseteq AllCells
<1> SUFFICES ASSUME NEW n \in RangeTags(g) PROVE <<g.area, n>> \in AllCells
  BY DEF Asked
<1>1. /\ n \in g.start .. g.end /\ g.area \in Areas
      /\ g.start \in 0 .. LastNumber /\ g.end \in 0 .. LastNumber + Step
  BY DEF RangeTags, ReadTypeOK
<1>2. n \in 0 .. LastNumber + Step
  BY <1>1, NumbersAssumption, GapSizes
<1> QED BY <1>1, <1>2 DEF AllCells

\* The sample that is read is one of them.
LEMMA SampleRange ==
  ASSUME ReadTypeOK
  PROVE  /\ Samples \in Nat /\ sample \in Nat
         /\ sample <= Samples => sample \in 1 .. Samples
         /\ connected \/ todo # {} => sample \in 1 .. Samples
BY BoundsAssumption DEF ReadTypeOK

\* A step that imports nothing leaves the regions as they are.
LEMMA RegionsStay ==
  ASSUME ReadInv, UNCHANGED <<tags, pending, regions>>
  PROVE  RegionsCover' /\ RegionsApart'
BY DEF ReadInv, RegionsCover, RegionsApart, OpenBlock, TagCells, Cells, LastWord, InRegion,
       RangeTags

\* A step that reads no word and does not change the PLC or the sample keeps
\* what is remembered.
LEMMA MemoryStays ==
  ASSUME ReadInv, UNCHANGED <<regions, plc, sample, memory, began, moved, strayed>>
  PROVE  MemoryIsTrue' /\ PlcSinceBegan'
BY DEF ReadInv, MemoryIsTrue, PlcSinceBegan, AllCells, Held, Until, Asked, RangeTags

\* While the command runs nothing is flagged.
LEMMA NothingFlagged ==
  ASSUME ReadInv, Running
  PROVE  /\ flags = {}
         /\ flags' = flags => FlaggedOnceJudged' /\ NoDataMeansSkipped'
<1>1. flags = {}
  BY DEF ReadInv, FlaggedOnceJudged, Running
<1> QED BY <1>1 DEF FlaggedOnceJudged, NoDataMeansSkipped

\* While the list is imported nothing is read.
LEMMA ImportFirst ==
  ASSUME ReadInv
  PROVE  /\ todo # {} \/ connected => pending = {}
         /\ ~connected => todo = {}
BY DEF ReadInv, ReadTypeOK

\* A step of the import.
LEMMA ImportHolds ==
  ASSUME ReadInv, Import
  PROVE  ReadInv'
<1>1. PICK t \in pending : BeginBlock(t) \/ \E g \in regions : ExtendBlock(t, g)
  BY DEF Import
<1>2. ImportInv
  BY DEF ReadInv, ReadTypeOK, ImportInv, Region
<1>3. ImportInv'
  BY <1>1, <1>2, BeginBlockHolds, ExtendBlockHolds
<1>4. /\ Running /\ pending' \subseteq pending /\ left' = regions'
      /\ UNCHANGED <<tags, plc, sample, todo, connected, memory, exit, flags, pastVars>>
  BY <1>1 DEF BeginBlock, ExtendBlock, TakeSpan
<1>5. /\ ReadTypeOK /\ pending # {}
      /\ left = regions /\ todo = {} /\ ~connected /\ sample = 1
      /\ \A i \in 1 .. Samples : DOMAIN memory[i] = {}
  BY <1>1 DEF ReadInv, ReadTypeOK
<1>6. ReadTypeOK'
  <2>1. /\ tags' \subseteq TagSpace /\ pending' \subseteq tags'
        /\ regions' \subseteq [area : Areas, start : 0 .. LastNumber, end : 0 .. LastNumber + Step]
    BY <1>3, <1>4 DEF ImportInv, TagSpace, Region
  <2> QED BY <1>4, <1>5, <2>1 DEF ReadTypeOK, TagSpace, AllCells, Running, pastVars
<1>7. EveryWordAsked'
  <2>1. 1 .. sample' - 1 = {}
    BY <1>4, <1>5
  <2> QED BY <1>4, <2>1 DEF EveryWordAsked
<1>8. ClosedAtExit'
  BY <1>4, <1>5 DEF ClosedAtExit
<1>9. MemoryIsTrue' /\ PlcSinceBegan'
  BY <1>4, <1>5 DEF ReadInv, MemoryIsTrue, PlcSinceBegan, AllCells, pastVars
<1> QED BY <1>3, <1>4, <1>6, <1>7, <1>8, <1>9, NothingFlagged DEF ReadInv, ImportInv

-----------------------------------------------------------------------------
(* The command: its steps.                                                 *)

\* A cell that changes keeps the invariant: the sample under way is excused for
\* it, the earlier ones are done and the later ones have not begun.
LEMMA PlcChangesHolds ==
  ASSUME ReadInv, NEW c \in AllCells, PlcChanges(c)
  PROVE  ReadInv'
<1>1. /\ Reading /\ plc' = [plc EXCEPT ![c] = @ + 1] /\ plc'[c] <= MaxChanges
      /\ moved' = [moved EXCEPT ![sample] = @ \cup {c}]
      /\ UNCHANGED <<tags, pending, regions, sample, left, todo, connected, memory, exit, flags,
                     began, skipped, strayed, undone>>
  BY DEF PlcChanges, listVars
<1>2. /\ plc \in [AllCells -> 0 .. MaxChanges] /\ sample \in 1 .. Samples
      /\ moved \in [1 .. Samples -> SUBSET AllCells]
      /\ began \in [1 .. Samples -> [AllCells -> 0 .. MaxChanges]]
      /\ ReadTypeOK /\ MaxChanges \in Nat /\ Running /\ Samples \in Nat
  BY <1>1, BoundsAssumption, SampleRange DEF ReadInv, ReadTypeOK, Reading
<1>3. plc'[c] \in 0 .. MaxChanges
  <2>1. plc[c] \in 0 .. MaxChanges /\ plc'[c] = plc[c] + 1
    BY <1>1, <1>2
  <2> QED BY <1>1, <1>2, <2>1
<1>4. plc' \in [AllCells -> 0 .. MaxChanges]
  BY <1>1, <1>2, <1>3
<1>5. moved' \in [1 .. Samples -> SUBSET AllCells]
  BY <1>1, <1>2
<1>6. /\ moved'[sample] = moved[sample] \cup {c}
      /\ \A i \in 1 .. Samples : i # sample => moved'[i] = moved[i]
      /\ \A d \in AllCells : d # c => plc'[d] = plc[d]
      /\ plc'[c] = plc[c] + 1
  BY <1>1, <1>2
<1>7. ReadTypeOK'
  BY <1>1, <1>2, <1>4, <1>5 DEF ReadTypeOK, Asked, RangeTags, AllCells, TagSpace, Running
<1>8. ClosedAtExit' /\ EveryWordAsked'
  BY <1>1 DEF ReadInv, ClosedAtExit, Running, EveryWordAsked, RangeTags
<1>9. ASSUME NEW i \in 1 .. Samples, NEW g \in regions
      PROVE  Held(i, Asked(g)) \subseteq Held(i, Asked(g))'
  <2> SUFFICES ASSUME NEW d \in Asked(g), NEW k \in began[i][d] .. Until(i)[d]
               PROVE  k \in began'[i][d] .. Until(i)'[d] /\ d \in Asked(g)'
    BY DEF Held
  <2>1. d \in AllCells
    BY <1>2, AskedAreCells
  <2>2. d \in Asked(g)'
    BY <1>1 DEF Asked, RangeTags
  <2>3. CASE i < sample
    BY <1>1, <2>2, <2>3 DEF Until
  <2>4. CASE ~(i < sample)
    <3>1. k \in began[i][d] .. plc[d] /\ Until(i)'[d] = plc'[d]
      BY <1>1, <2>4 DEF Until
    <3>2. plc[d] \in Int /\ began[i][d] \in Int
      BY <1>2, <2>1
    <3>3. plc'[d] \in Int /\ plc[d] <= plc'[d]
      BY <1>6, <2>1, <3>2
    <3> QED BY <1>1, <2>2, <3>1, <3>2, <3>3
  <2> QED BY <2>3, <2>4
<1>10. MemoryIsTrue'
  <2> SUFFICES ASSUME NEW i \in 1 .. Samples
               PROVE  /\ \A d \in DOMAIN memory[i] :
                           /\ \E g \in regions : d \in Asked(g)' /\ memory[i][d] \in Held(i, Asked(g))'
                           /\ d \notin moved'[i] \cup strayed[i] => memory[i][d] = <<d, began[i][d]>>
                      /\ i > sample => DOMAIN memory[i] = {} /\ moved'[i] = {}
    BY <1>1 DEF MemoryIsTrue
  <2>1. moved[i] \subseteq moved'[i] /\ (i > sample => moved'[i] = moved[i])
    BY <1>2, <1>6
  <2>2. ASSUME NEW d \in DOMAIN memory[i]
        PROVE  \E g \in regions : d \in Asked(g)' /\ memory[i][d] \in Held(i, Asked(g))'
    <3>1. PICK g \in regions : d \in Asked(g) /\ memory[i][d] \in Held(i, Asked(g))
      BY DEF ReadInv, MemoryIsTrue
    <3>2. Asked(g)' = Asked(g)
      BY <1>1 DEF Asked, RangeTags
    <3> QED BY <1>9, <3>1, <3>2
  <2> QED BY <2>1, <2>2 DEF ReadInv, MemoryIsTrue
<1>11. PlcSinceBegan'
  <2> SUFFICES ASSUME NEW d \in AllCells
               PROVE  /\ began[sample][d] <= plc'[d]
                      /\ d \notin moved'[sample] => plc'[d] = began[sample][d]
    BY <1>1 DEF PlcSinceBegan, AllCells
  <2>1. /\ began[sample][d] <= plc[d] /\ began[sample][d] \in Int /\ plc[d] \in Int
        /\ d \notin moved[sample] => plc[d] = began[sample][d]
    BY <1>2 DEF ReadInv, PlcSinceBegan
  <2> QED BY <1>6, <2>1
<1> QED BY <1>1, <1>2, <1>7, <1>8, <1>10, <1>11, RegionsStay, NothingFlagged DEF ReadInv

\* A sample begins with the PLC as it is, and with nothing read or moved.
LEMMA NextSampleHolds ==
  ASSUME ReadInv, NextSample
  PROVE  ReadInv'
<1>1. /\ sample' = sample + 1 /\ sample < Samples /\ left' = regions
      /\ Running /\ left = {} /\ ~connected /\ pending = {}
      /\ began' = [began EXCEPT ![sample + 1] = plc]
      /\ UNCHANGED <<tags, pending, regions, plc, todo, connected, memory, exit, flags, moved,
                     skipped, strayed, undone>>
  BY DEF NextSample, listVars
<1>2. /\ ReadTypeOK /\ sample \in 1 .. Samples /\ Samples \in Nat
      /\ plc \in [AllCells -> 0 .. MaxChanges]
      /\ began \in [1 .. Samples -> [AllCells -> 0 .. MaxChanges]]
  BY <1>1, SampleRange DEF ReadInv, ReadTypeOK
<1>3. sample' \in 1 .. Samples /\ sample' = sample + 1
  BY <1>1, <1>2
<1>4. /\ began' \in [1 .. Samples -> [AllCells -> 0 .. MaxChanges]]
      /\ began'[sample'] = plc
      /\ \A i \in 1 .. Samples : i # sample' => began'[i] = began[i]
  BY <1>1, <1>2, <1>3
<1>5. ReadTypeOK'
  BY <1>1, <1>2, <1>3, <1>4, ImportFirst DEF ReadTypeOK, Asked, RangeTags, AllCells, TagSpace
<1>6. ClosedAtExit'
  BY <1>1 DEF ReadInv, ClosedAtExit, Running
<1>7. ASSUME NEW i \in 1 .. Samples, i <= sample
      PROVE  /\ began'[i] = began[i] /\ Until(i)' = Until(i)
             /\ \A g : Held(i, Asked(g))' = Held(i, Asked(g))
  <2>1. began'[i] = began[i]
    BY <1>2, <1>3, <1>4, <1>7
  <2>2. Until(i)' = Until(i)
    <3>1. CASE i = sample
      BY <1>1, <1>2, <1>3, <1>4, <3>1 DEF Until
    <3>2. CASE i < sample
      <4>1. i + 1 \in 1 .. Samples /\ i + 1 # sample' /\ i < sample'
        BY <1>2, <1>3, <3>2
      <4> QED BY <1>4, <3>2, <4>1 DEF Until
    <3> QED BY <1>2, <1>7, <3>1, <3>2
  <2> QED BY <1>1, <2>1, <2>2 DEF Held, Asked, RangeTags
<1>8. MemoryIsTrue'
  <2> SUFFICES ASSUME NEW i \in 1 .. Samples
               PROVE  /\ \A d \in DOMAIN memory[i] :
                           /\ \E g \in regions : d \in Asked(g) /\ memory[i][d] \in Held(i, Asked(g))'
                           /\ d \notin moved[i] \cup strayed[i] => memory[i][d] = <<d, began'[i][d]>>
                      /\ i > sample' => DOMAIN memory[i] = {} /\ moved[i] = {}
    BY <1>1 DEF MemoryIsTrue, Asked, RangeTags
  <2>1. i > sample' \/ i = sample' => i > sample
    BY <1>2, <1>3
  <2>2. CASE i <= sample
    BY <1>2, <1>3, <1>7, <2>2 DEF ReadInv, MemoryIsTrue
  <2>3. CASE i > sample
    BY <2>3 DEF ReadInv, MemoryIsTrue
  <2> QED BY <1>2, <2>2, <2>3
<1>9. PlcSinceBegan'
  BY <1>1, <1>2, <1>4 DEF PlcSinceBegan, AllCells
<1>10. EveryWordAsked'
  <2> SUFFICES ASSUME NEW g \in regions, NEW n \in RangeTags(g), NEW i \in 1 .. sample
               PROVE  <<g.area, n>> \in DOMAIN memory[i] \cup skipped[i]
    <3>1. sample' - 1 = sample
      BY <1>1, <1>2
    <3> QED BY <1>1, <3>1 DEF EveryWordAsked, RangeTags
  <2>1. todo = {} /\ exit # 1
    BY <1>1, ImportFirst DEF Running
  <2>2. CASE i = sample
    BY <1>1, <2>1, <2>2 DEF ReadInv, EveryWordAsked
  <2>3. CASE i # sample
    <3>1. i \in 1 .. sample - 1
      BY <1>2, <2>3
    <3> QED BY <2>1, <3>1 DEF ReadInv, EveryWordAsked
  <2> QED BY <2>2, <2>3
<1> QED BY <1>1, <1>5, <1>6, <1>8, <1>9, <1>10, RegionsStay, NothingFlagged DEF ReadInv

\* The answer that is put down for a word is one the PLC had meanwhile; it is
\* the word's own unless it is said to have strayed.
LEMMA TakeAnswerHolds ==
  ASSUME ReadInv, NEW c \in todo, NEW w, TakeAnswer(c, w),
         strayed' \in [1 .. Samples -> SUBSET AllCells],
         \A i \in 1 .. Samples : strayed[i] \subseteq strayed'[i],
         NEW g \in regions, c \in Asked(g), w \in Held(sample, Asked(g)),
         w = Word(c) \/ c \in strayed'[sample]
  PROVE  ReadInv'
<1>1. /\ todo' = todo \ {c} /\ Running
      /\ memory' = [memory EXCEPT ![sample] =
                      [d \in DOMAIN @ \cup {c} |-> IF d = c THEN w ELSE @[d]]]
      /\ UNCHANGED <<tags, pending, regions, plc, sample, left, connected, exit, flags, began,
                     moved, skipped, undone>>
  BY DEF TakeAnswer, listVars
<1>2. /\ ReadTypeOK /\ sample \in 1 .. Samples /\ Samples \in Nat /\ DOMAIN memory = 1 .. Samples
      /\ pending = {} /\ c \in AllCells
  BY ImportFirst, SampleRange DEF ReadInv, ReadTypeOK
<1> DEFINE new == [d \in DOMAIN memory[sample] \cup {c} |->
                     IF d = c THEN w ELSE memory[sample][d]]
<1>3. memory' = [memory EXCEPT ![sample] = new]
  BY <1>1
<1>4. /\ DOMAIN new = DOMAIN memory[sample] \cup {c}
      /\ new[c] = w
      /\ \A d \in DOMAIN memory[sample] : d # c => new[d] = memory[sample][d]
  OBVIOUS
<1> HIDE DEF new
<1>5. /\ DOMAIN memory' = 1 .. Samples /\ memory'[sample] = new
      /\ \A i \in 1 .. Samples : i # sample => memory'[i] = memory[i]
  BY <1>2, <1>3
<1>6. ReadTypeOK'
  <2>1. /\ tags' \subseteq TagSpace /\ pending' \subseteq tags'
        /\ todo' \subseteq AllCells /\ (todo' # {} => connected')
        /\ \A d \in todo' : \E h \in regions' : d \in Asked(h)'
    BY <1>1, <1>2 DEF ReadTypeOK, Asked, RangeTags, TagSpace, AllCells
  <2>2. pending' = {} /\ Samples # 0
    BY <1>1, <1>2
  <2>3. {moved, skipped, strayed}' \subseteq [1 .. Samples -> SUBSET AllCells]
    BY <1>1, <1>2 DEF ReadTypeOK
  <2>4. AllCells' = AllCells
    BY DEF AllCells
  <2> QED BY <1>1, <1>2, <1>5, <2>1, <2>2, <2>3, <2>4 DEF ReadTypeOK
<1>7. ClosedAtExit'
  BY <1>1 DEF ReadInv, ClosedAtExit, Running
<1>8. MemoryIsTrue'
  <2> SUFFICES ASSUME NEW i \in 1 .. Samples
               PROVE  /\ \A d \in DOMAIN memory'[i] :
                           /\ \E h \in regions : d \in Asked(h)' /\ memory'[i][d] \in Held(i, Asked(h))'
                           /\ d \notin moved[i] \cup strayed'[i] => memory'[i][d] = <<d, began[i][d]>>
                      /\ i > sample => DOMAIN memory'[i] = {} /\ moved[i] = {}
    BY <1>1 DEF MemoryIsTrue
  <2>1. ASSUME NEW h PROVE Asked(h)' = Asked(h) /\ Held(i, Asked(h))' = Held(i, Asked(h))
    BY <1>1 DEF Held, Until, Asked, RangeTags
  <2>2. CASE i # sample
    BY <1>5, <2>1, <2>2 DEF ReadInv, MemoryIsTrue
  <2>3. CASE i = sample
    <3>1. ~(i > sample)
      BY <1>2, <2>3
    <3>2. ASSUME NEW d \in DOMAIN memory'[i]
          PROVE  /\ \E h \in regions : d \in Asked(h)' /\ memory'[i][d] \in Held(i, Asked(h))'
                 /\ d \notin moved[i] \cup strayed'[i] => memory'[i][d] = <<d, began[i][d]>>
      <4>1. CASE d = c
        <5>1. memory'[i][d] = w
          BY <1>4, <1>5, <2>3, <4>1
        <5>2. d \notin moved[i] \cup strayed'[i] => w = <<d, began[i][d]>>
          BY <1>2, <2>3, <4>1 DEF ReadInv, PlcSinceBegan, Word
        <5> QED BY <2>1, <2>3, <4>1, <5>1, <5>2
      <4>2. CASE d # c
        <5>1. d \in DOMAIN memory[i] /\ memory'[i][d] = memory[i][d]
          BY <1>4, <1>5, <2>3, <3>2, <4>2
        <5> QED BY <2>1, <5>1 DEF ReadInv, MemoryIsTrue
      <4> QED BY <4>1, <4>2
    <3> QED BY <3>1, <3>2
  <2> QED BY <2>2, <2>3
<1>9. PlcSinceBegan'
  BY <1>1 DEF ReadInv, PlcSinceBegan, AllCells
<1>10. EveryWordAsked'
  <2>1. \A i \in 1 .. Samples : DOMAIN memory[i] \subseteq DOMAIN memory'[i]
    BY <1>4, <1>5
  <2>2. todo \cup DOMAIN memory[sample] \subseteq todo' \cup DOMAIN memory'[sample]
    BY <1>1, <1>4, <1>5
  <2>3. \A i \in 1 .. sample - 1 : i \in 1 .. Samples
    BY <1>2
  <2> QED BY <1>1, <2>1, <2>2, <2>3 DEF ReadInv, EveryWordAsked, RangeTags
<1> QED BY <1>1, <1>6, <1>7, <1>8, <1>9, <1>10, RegionsStay, NothingFlagged DEF ReadInv

\* A word that is read is put down as the PLC has it now, which is as it was
\* when the sample began unless it changed since.
LEMMA ReadWordHolds ==
  ASSUME ReadInv, NEW c \in todo, ReadWord(c)
  PROVE  ReadInv'
<1>1. TakeAnswer(c, Word(c)) /\ strayed' = strayed
  BY DEF ReadWord
<1>2. /\ strayed \in [1 .. Samples -> SUBSET AllCells] /\ ReadTypeOK
      /\ sample \in 1 .. Samples /\ c \in AllCells
  BY SampleRange DEF ReadInv, ReadTypeOK
<1>3. PICK g \in regions : c \in Asked(g)
  BY DEF ReadInv, ReadTypeOK
<1>4. plc[c] \in began[sample][c] .. Until(sample)[c]
  <2>1. /\ plc[c] \in Int /\ began[sample][c] \in Int /\ began[sample][c] <= plc[c]
        /\ ~(sample < sample)
    BY <1>2 DEF ReadInv, ReadTypeOK, PlcSinceBegan
  <2> QED BY <2>1 DEF Until
<1>5. Word(c) \in Held(sample, Asked(g))
  BY <1>3, <1>4 DEF Word, Held
<1> QED BY <1>1, <1>2, <1>3, <1>5, TakeAnswerHolds

\* A stray answer is a word its region asked for, as the PLC had it meanwhile.
LEMMA ReadStrayHolds ==
  ASSUME ReadInv, NEW c \in todo, ReadStray(c)
  PROVE  ReadInv'
<1>1. PICK g \in regions :
        /\ c \in Asked(g)
        /\ \E w \in Held(sample, {d \in Asked(g) : d[2] < c[2]}) : TakeAnswer(c, w)
  BY DEF ReadStray
<1>2. PICK w \in Held(sample, Asked(g)) : TakeAnswer(c, w)
  BY <1>1 DEF Held
<1>3. /\ strayed \in [1 .. Samples -> SUBSET AllCells] /\ ReadTypeOK
      /\ sample \in 1 .. Samples /\ c \in AllCells
      /\ strayed' = [strayed EXCEPT ![sample] = @ \cup {c}]
  BY SampleRange DEF ReadInv, ReadTypeOK, ReadStray
<1>4. /\ strayed' \in [1 .. Samples -> SUBSET AllCells]
      /\ \A i \in 1 .. Samples : strayed[i] \subseteq strayed'[i]
      /\ c \in strayed'[sample]
  BY <1>3
<1> QED BY <1>1, <1>2, <1>4, TakeAnswerHolds

\* The driver connects: the words of its region are to be read.
LEMMA ConnectHolds ==
  ASSUME ReadInv, NEW g \in left, Connect(g)
  PROVE  ReadInv'
<1>1. /\ UNCHANGED <<tags, pending, regions, plc, sample, memory, exit, flags, began, moved,
                     skipped, strayed, undone>>
      /\ todo' = Asked(g) /\ left' = left \ {g}
      /\ Running /\ pending = {} /\ ~connected /\ sample <= Samples
  BY DEF Connect, listVars, pastVars, Reading
<1>2. connected' /\ connected' \in BOOLEAN
  BY DEF Connect
<1>3. ReadTypeOK /\ g \in regions /\ sample \in 1 .. Samples /\ Samples \in Nat
  BY <1>1, SampleRange DEF ReadInv, ReadTypeOK
<1>4. ReadTypeOK'
  <2>1. todo' \subseteq AllCells /\ \A d \in todo' : d \in Asked(g)'
    BY <1>1, <1>3, AskedAreCells DEF Asked, RangeTags
  <2>2. /\ pending' = {} /\ Samples # 0 /\ g \in regions'
        /\ sample' \in Nat \ {0} /\ sample' <= Samples
    BY <1>1, <1>3
  <2> QED BY <1>1, <1>2, <1>3, <2>1, <2>2 DEF ReadTypeOK, AllCells, TagSpace
<1>5. ClosedAtExit'
  BY <1>1 DEF ClosedAtExit, Running
<1>6. EveryWordAsked'
  <2>1. todo = {}
    BY <1>1, ImportFirst
  <2>2. ASSUME NEW h \in regions, NEW n \in RangeTags(h), h \notin left', exit # 1
        PROVE  <<h.area, n>> \in todo' \cup DOMAIN memory[sample] \cup skipped[sample]
    <3>1. CASE h = g
      BY <1>1, <2>2, <3>1 DEF Asked
    <3>2. CASE h # g
      BY <1>1, <2>1, <2>2, <3>2 DEF ReadInv, EveryWordAsked
    <3> QED BY <3>1, <3>2
  <2> QED BY <1>1, <2>2 DEF ReadInv, EveryWordAsked, RangeTags
<1> QED BY <1>1, <1>4, <1>5, <1>6, RegionsStay, MemoryStays, NothingFlagged DEF ReadInv

\* A word is left out: it is one of the skipped from then on.
LEMMA SkipWordHolds ==
  ASSUME ReadInv, NEW c \in todo, SkipWord(c)
  PROVE  ReadInv'
<1>1. /\ UNCHANGED <<tags, pending, regions, plc, sample, left, connected, memory, exit, flags,
                     began, moved, strayed, undone>>
      /\ todo' = todo \ {c} /\ Running
      /\ skipped' = [skipped EXCEPT ![sample] = @ \cup {c}]
  BY DEF SkipWord, listVars
<1>2. /\ ReadTypeOK /\ sample \in 1 .. Samples /\ Samples \in Nat /\ c \in AllCells
      /\ skipped \in [1 .. Samples -> SUBSET AllCells]
      /\ pending = {}
  BY SampleRange, ImportFirst DEF ReadInv, ReadTypeOK
<1>3. /\ skipped' \in [1 .. Samples -> SUBSET AllCells]
      /\ skipped'[sample] = skipped[sample] \cup {c}
      /\ \A i \in 1 .. Samples : i # sample => skipped'[i] = skipped[i]
  BY <1>1, <1>2
<1>4. ReadTypeOK'
  <2>1. pending' = {} /\ Samples # 0
    BY <1>1, <1>2
  <2>2. /\ tags' \subseteq TagSpace /\ pending' \subseteq tags'
        /\ todo' \subseteq AllCells /\ (todo' # {} => connected')
        /\ \A d \in todo' : \E h \in regions' : d \in Asked(h)'
    BY <1>1, <1>2 DEF ReadTypeOK, Asked, RangeTags, TagSpace, AllCells
  <2>3. {moved, skipped, strayed}' \subseteq [1 .. Samples -> SUBSET AllCells]
    BY <1>1, <1>2, <1>3 DEF ReadTypeOK
  <2>4. AllCells' = AllCells
    BY DEF AllCells
  <2> QED BY <1>1, <1>2, <2>1, <2>2, <2>3, <2>4 DEF ReadTypeOK
<1>5. ClosedAtExit'
  BY <1>1 DEF ReadInv, ClosedAtExit, Running
<1>6. EveryWordAsked'
  <2>1. \A i \in 1 .. sample - 1 : skipped'[i] = skipped[i]
    BY <1>2, <1>3
  <2>2. todo \cup skipped[sample] \subseteq todo' \cup skipped'[sample]
    BY <1>1, <1>3
  <2> QED BY <1>1, <2>1, <2>2 DEF ReadInv, EveryWordAsked, RangeTags
<1> QED BY <1>1, <1>4, <1>5, <1>6, RegionsStay, MemoryStays, NothingFlagged DEF ReadInv

\* A region is read: nothing of it is left to read.
LEMMA DisconnectHolds ==
  ASSUME ReadInv, Disconnect
  PROVE  ReadInv'
<1>1. /\ UNCHANGED <<tags, pending, regions, plc, sample, left, todo, memory, exit, flags, began,
                     moved, skipped, strayed, undone>>
      /\ todo = {} /\ Running /\ pending = {}
  BY ImportFirst DEF Disconnect, listVars, pastVars
<1>2. ~connected' /\ connected' \in BOOLEAN
  BY DEF Disconnect
<1>3. ReadTypeOK' /\ ClosedAtExit'
  BY <1>1, <1>2 DEF ReadInv, ReadTypeOK, AllCells, TagSpace, ClosedAtExit, Running
<1>4. EveryWordAsked'
  BY <1>1 DEF ReadInv, EveryWordAsked, RangeTags
<1> QED BY <1>1, <1>3, <1>4, RegionsStay, MemoryStays, NothingFlagged DEF ReadInv

\* Whatever raises, nothing more is read, and only a disconnect that raises may
\* leave the driver connected.
LEMMA FailsHolds ==
  ASSUME ReadInv, Fails, connected' \in BOOLEAN, undone' \in BOOLEAN, ~connected' \/ undone'
  PROVE  ReadInv'
<1>1. /\ UNCHANGED <<tags, pending, regions, plc, sample, left, memory, flags, began, moved,
                     skipped, strayed>>
      /\ todo' = {} /\ exit' = 1 /\ Running /\ pending = {} /\ sample <= Samples
  BY DEF Fails, Reading, listVars
<1>2. ReadTypeOK /\ sample \in 1 .. Samples /\ Samples \in Nat /\ Samples # 0
  BY <1>1, SampleRange DEF ReadInv
<1>3. ReadTypeOK' /\ ClosedAtExit'
  BY <1>1, <1>2 DEF ReadTypeOK, AllCells, TagSpace, ClosedAtExit
<1>4. EveryWordAsked'
  BY <1>1 DEF EveryWordAsked
<1> QED BY <1>1, <1>3, <1>4, RegionsStay, MemoryStays, NothingFlagged DEF ReadInv

\* The region a tag is decoded from holds all its words: it is the one the
\* import put it in, and no other of its area holds its number.
LEMMA InItsRegion ==
  ASSUME ReadInv, pending = {}, NEW t \in tags
  PROVE  RegionOf(t) \in regions /\ \A c \in Cells(t) : InRegion(RegionOf(t), c)
<1> DEFINE Holds(g) == g.area = t.area /\ g.start <= t.number /\ t.number <= g.end
<1>1. PICK g \in regions : \A c \in Cells(t) : InRegion(g, c)
  BY DEF ReadInv, RegionsCover
<1>2. Holds(g)
  BY <1>1 DEF Cells, InRegion
<1>3. RegionOf(t) \in regions /\ Holds(RegionOf(t))
  BY <1>1, <1>2 DEF RegionOf
<1>4. RegionOf(t) = g
  <2> SUFFICES ASSUME NEW h \in regions, Holds(h), h # g PROVE FALSE
    BY <1>3
  <2>1. ImportInv /\ tags \subseteq TagSpace
    BY DEF ReadInv, ReadTypeOK, ImportInv, Region
  <2>2. /\ g.start \in Nat /\ g.end \in Nat /\ h.start \in Nat /\ h.end \in Nat
        /\ t.number \in Nat
    BY <1>1, <2>1, RegionNumbers, WordsOfTag
  <2>3. h.start - g.end > Gap \/ g.start - h.end > Gap
    BY <1>1, <1>2 DEF ReadInv, RegionsApart, Gap
  <2> QED BY <1>2, <2>2, <2>3, GapSizes
<1> QED BY <1>1, <1>4

\* No word is of two regions.
LEMMA OneRegion ==
  ASSUME ReadInv, NEW g \in regions, NEW h \in regions, NEW c, c \in Asked(g), InRegion(h, c)
  PROVE  g = h
<1> SUFFICES ASSUME g # h PROVE FALSE
  OBVIOUS
<1>1. ImportInv
  BY DEF ReadInv, ReadTypeOK, ImportInv, Region
<1>2. g.start \in Nat /\ g.end \in Nat /\ h.start \in Nat /\ h.end \in Nat
  BY <1>1, RegionNumbers
<1>3. PICK n \in g.start .. g.end : c = <<g.area, n>>
  BY DEF Asked, RangeTags
<1>4. g.area = h.area /\ h.start <= n /\ n <= h.end
  BY <1>3 DEF InRegion
<1>5. h.start - g.end > Gap \/ g.start - h.end > Gap
  BY <1>4 DEF ReadInv, RegionsApart, Gap
<1> QED BY <1>2, <1>3, <1>4, <1>5, GapSizes

\* A word of a tag that is not in a sample that is over was skipped in it.
LEMMA MissingWasSkipped ==
  ASSUME ReadInv, pending = {}, Running, ~connected, left = {}, sample = Samples,
         NEW t \in tags, NEW i \in 1 .. Samples, NEW c \in Cells(t), c \notin DOMAIN memory[i]
  PROVE  c \in skipped[i]
<1> DEFINE g == RegionOf(t)
<1>1. g \in regions /\ InRegion(g, c)
  BY InItsRegion
<1> HIDE DEF g
<1>2. ImportInv /\ tags \subseteq TagSpace /\ Samples \in Nat
  BY BoundsAssumption DEF ReadInv, ReadTypeOK, ImportInv, Region
<1>3. /\ t.number \in Nat /\ LastWord(t) \in Nat
      /\ t.number % Step = 0 /\ LastWord(t) % Step = 0
  BY <1>2, WordsOfTag
<1>4. c = <<g.area, c[2]>> /\ c[2] \in Nat /\ c[2] % Step = 0
  BY <1>1, <1>3 DEF Cells, InRegion
<1>5. g.start \in Nat /\ g.end \in Nat /\ g.start % Step = 0
  BY <1>1, <1>2, RegionNumbers
<1>6. c[2] \in RangeTags(g)
  BY <1>1, <1>4, <1>5, RangeIs DEF InRegion
<1>7. todo = {} /\ exit # 1
  BY ImportFirst DEF Running
<1>8. <<g.area, c[2]>> \in DOMAIN memory[i] \cup skipped[i]
  <2>1. CASE i = sample
    BY <1>1, <1>6, <1>7, <2>1 DEF ReadInv, EveryWordAsked
  <2>2. CASE i # sample
    <3>1. i \in 1 .. sample - 1
      BY <1>2, <2>2
    <3> QED BY <1>1, <1>6, <1>7, <3>1 DEF ReadInv, EveryWordAsked
  <2> QED BY <2>1, <2>2
<1> QED BY <1>4, <1>8

\* The tags are judged: NO DATA says of a tag that a word of it was skipped.
LEMMA JudgeHolds ==
  ASSUME ReadInv, NEW bad, NEW suspect, Judge(bad, suspect)
  PROVE  ReadInv'
<1>1. /\ UNCHANGED <<tags, pending, regions, plc, sample, left, todo, connected, memory, began,
                     moved, skipped, strayed, undone>>
      /\ Running /\ pending = {} /\ ~connected
      /\ Samples = 0 \/ (left = {} /\ sample = Samples)
      /\ exit' = IF Samples = 0 THEN 1 ELSE IF flags' = {} THEN 0 ELSE 2
  BY DEF Judge, listVars, pastVars
<1>2. Samples = 0 => flags' = {}
  <2> SUFFICES ASSUME Samples = 0 PROVE flags' = {}
    OBVIOUS
  <2>1. 1 .. Samples = {} /\ \A t : ~Flat(t)
    BY DEF Flat
  <2> QED BY <2>1 DEF Judge
<1>3. ReadTypeOK' /\ ClosedAtExit'
  BY <1>1 DEF ReadInv, ReadTypeOK, Asked, RangeTags, AllCells, TagSpace, ClosedAtExit
<1>4. EveryWordAsked'
  <2>1. exit # 1
    BY <1>1 DEF Running
  <2> QED BY <1>1, <2>1 DEF ReadInv, EveryWordAsked, RangeTags
<1>5. NoDataMeansSkipped'
  <2> SUFFICES ASSUME NEW t \in tags, <<t, "NO DATA">> \in flags'
               PROVE  \E i \in 1 .. Samples : Cells(t) \cap skipped[i] # {}
    BY <1>1 DEF NoDataMeansSkipped, Cells, LastWord
  <2>1. PICK i \in 1 .. Samples : ~Has(t, i)
    BY DEF Judge
  <2>2. PICK c \in Cells(t) : c \notin DOMAIN memory[i]
    BY <1>1, <2>1, InItsRegion DEF Has
  <2>3. left = {} /\ sample = Samples
    BY <1>1, <1>2
  <2>4. c \in skipped[i]
    BY <1>1, <2>2, <2>3, MissingWasSkipped
  <2> QED BY <2>2, <2>4
<1>6. FlaggedOnceJudged'
  BY <1>1, <1>2 DEF FlaggedOnceJudged
<1> QED BY <1>1, <1>3, <1>4, <1>5, <1>6, RegionsStay, MemoryStays DEF ReadInv

\* The command starts with nothing imported, nothing read and no driver.
LEMMA ReadInitHolds ==
  ASSUME ReadInit
  PROVE  ReadInv
<1>1. Samples \in Nat /\ MaxChanges \in Nat
  BY BoundsAssumption
<1>2. /\ sample = 1 /\ left = regions /\ regions = {} /\ pending = tags /\ todo = {}
      /\ exit = -1 /\ flags = {}
      /\ memory = [i \in 1 .. Samples |-> NoMemory]
      /\ moved = [i \in 1 .. Samples |-> {}]
      /\ skipped = [i \in 1 .. Samples |-> {}]
      /\ strayed = [i \in 1 .. Samples |-> {}]
  BY DEF ReadInit
<1>3. ~connected /\ connected \in BOOLEAN /\ undone \in BOOLEAN
  BY DEF ReadInit
<1>4. tags \subseteq TagSpace
  BY DEF ReadInit
<1>5. /\ plc = [c \in AllCells |-> 0]
      /\ began = [i \in 1 .. Samples |-> [c \in AllCells |-> 0]]
  BY DEF ReadInit
<1>6. /\ plc \in [AllCells -> 0 .. MaxChanges]
      /\ began \in [1 .. Samples -> [AllCells -> 0 .. MaxChanges]]
      /\ 1 <= Samples => began[1] = plc
      /\ 1 <= Samples \/ Samples = 0
  BY <1>1, <1>5
<1>7. \A i \in 1 .. Samples : DOMAIN memory[i] = {} /\ moved[i] = {}
  BY <1>2 DEF NoMemory
<1>8. ReadTypeOK
  BY <1>1, <1>2, <1>3, <1>4, <1>6, <1>7 DEF ReadTypeOK, Running
<1>9. ClosedAtExit /\ MemoryIsTrue /\ PlcSinceBegan
  BY <1>2, <1>3, <1>6, <1>7 DEF ClosedAtExit, MemoryIsTrue, PlcSinceBegan
<1>10. /\ RegionsCover /\ RegionsApart /\ EveryWordAsked /\ FlaggedOnceJudged
       /\ NoDataMeansSkipped
  BY <1>2 DEF RegionsCover, RegionsApart, EveryWordAsked, FlaggedOnceJudged, NoDataMeansSkipped
<1> QED BY <1>8, <1>9, <1>10 DEF ReadInv

-----------------------------------------------------------------------------

\* For every list of tags, gap and number of samples, whatever fails and
\* whatever the PLC does and whatever answers are late: the regions cover the
\* list, every word of them is asked for, the command holds for every cell a word
\* its region had meanwhile, and that cell's unless it changed or the answer was
\* a stray one, and it leaves no driver connected whose disconnect did not raise.
THEOREM ReadInvariant == ReadSpec => []ReadInv
<1>1. ReadInit => ReadInv
  BY ReadInitHolds
<1>2. ReadInv /\ [ReadNext]_readVars => ReadInv'
  <2> SUFFICES ASSUME ReadInv, [ReadNext]_readVars PROVE ReadInv'
    OBVIOUS
  <2>1. CASE UNCHANGED readVars
    <3>1. UNCHANGED <<tags, pending, regions, plc, sample, left, todo, connected, memory, exit,
                      flags, began, moved, skipped, strayed, undone>>
      BY <2>1 DEF readVars, listVars, pastVars
    <3>2. ReadTypeOK' /\ ClosedAtExit' /\ EveryWordAsked'
      BY <3>1 DEF ReadInv, ReadTypeOK, Asked, AllCells, TagSpace, ClosedAtExit, Running,
                  EveryWordAsked, RangeTags
    <3>3. FlaggedOnceJudged' /\ NoDataMeansSkipped'
      BY <3>1 DEF ReadInv, FlaggedOnceJudged, NoDataMeansSkipped, Cells, LastWord
    <3> QED BY <3>1, <3>2, <3>3, RegionsStay, MemoryStays DEF ReadInv
  <2>2. ASSUME NEW c \in TagCells, PlcChanges(c) PROVE ReadInv'
    BY <2>2, TagCellsAreCells, PlcChangesHolds DEF ReadInv
  <2>3. CASE Import
    BY <2>3, ImportHolds
  <2>4. CASE Command
    <3>1. CASE ReadFails \/ DisconnectFails
      BY <3>1, FailsHolds DEF ReadFails, DisconnectFails, ReadInv, ReadTypeOK
    <3> QED BY <2>4, <3>1, ConnectHolds, ReadWordHolds, ReadStrayHolds, SkipWordHolds,
               DisconnectHolds, NextSampleHolds, JudgeHolds DEF Command
  <2> QED BY <2>1, <2>2, <2>3, <2>4 DEF ReadNext
<1> QED BY <1>1, <1>2, PTL DEF ReadSpec

\* For every list of tags, gap and number of samples, whatever answers are late:
\* the words a value is made of were in the PLC, in the region of its tag, while
\* that sample was read; they are exactly its tag's own words in every sample in
\* which these did not change and no stray answer was taken for them.
THEOREM ValuesAreOfTheirTags == ReadSpec => []ReadsTheTag
<1>1. ReadInv => ReadsTheTag
  <2> SUFFICES ASSUME ReadInv, exit \in {0, 2}, NEW t \in tags, NEW i \in 1 .. Samples, Has(t, i)
               PROVE  /\ \A w \in {1, 2} : Value(t, i)[w] \in Held(i, Asked(RegionOf(t)))
                      /\ Cells(t) \cap (moved[i] \cup strayed[i]) = {} =>
                           Value(t, i) =
                             <<<<<<t.area, t.number>>, began[i][<<t.area, t.number>>]>>,
                               <<<<t.area, LastWord(t)>>, began[i][<<t.area, LastWord(t)>>]>>>>
    BY DEF ReadsTheTag
  <2>1. pending = {}
    BY DEF ReadInv, ReadTypeOK, Running
  <2>2. ASSUME NEW c \in Cells(t)
        PROVE  /\ memory[i][c] \in Held(i, Asked(RegionOf(t)))
               /\ c \notin moved[i] \cup strayed[i] => memory[i][c] = <<c, began[i][c]>>
    <3>1. c \in DOMAIN memory[i] /\ InRegion(RegionOf(t), c)
      BY DEF Has
    <3>2. PICK g \in regions : c \in Asked(g) /\ memory[i][c] \in Held(i, Asked(g))
      BY <3>1 DEF ReadInv, MemoryIsTrue
    <3>3. g = RegionOf(t)
      BY <2>1, <3>1, <3>2, InItsRegion, OneRegion
    <3> QED BY <3>1, <3>2, <3>3 DEF ReadInv, MemoryIsTrue
  <2>3. <<t.area, t.number>> \in Cells(t) /\ <<t.area, LastWord(t)>> \in Cells(t)
    BY DEF Cells
  <2> QED BY <2>2, <2>3 DEF Value
<1> QED BY <1>1, ReadInvariant, PTL

\* For every list of tags and every gap: a tag is said to have no data only if
\* the driver left out one of its own words; the regions ask for all of them.
THEOREM NoDataIsThePlcs == ReadSpec => []NoDataMeansSkipped
<1>1. ReadInv => NoDataMeansSkipped
  BY DEF ReadInv
<1> QED BY <1>1, ReadInvariant, PTL

\* For every list of tags and every gap: the regions lie more than a gap apart,
\* and none of them reads across a gap in which no tag is.
THEOREM RegionsLieApart == ReadSpec => []RegionsApart
<1>1. ReadInv => RegionsApart
  BY DEF ReadInv
<1> QED BY <1>1, ReadInvariant, PTL

=============================================================================
