------------------------------- MODULE MCWizard -------------------------------
\* An instance of Wizard for TLC: a region of two words of two bytes, a
\* byte of two bits.
EXTENDS Wizard, TLC

\* The decoders agree on every pair of words of this instance.
ASSUME DecodersAgree == WordsComeBack /\ ScanOffersDecodable /\ WizardReadsAsDrivers

MCCells == {0, 1}
MCOrders == <<"CDAB">>
MCScales == {1000, 100}

\* Half of the patterns are floats that are not finite.
MCFloats ==
  LET Bytes == (0 .. 3) \X (0 .. 3) \X (0 .. 3) \X (0 .. 3)
  IN [b \in {c \in Bytes : c[1] < 2} |-> b[2] + b[3] - b[4]]

MCMemories == {(0 :> 10) @@ (1 :> 1), 0 :> 1}
MCShown == {hmi_reading(1000, 0, 5), hmi_reading(0, 0, 5)}
\* All but one of the pairs.
MCSeen ==
  [hmi : MCShown, memory : MCMemories]
    \ {[hmi |-> hmi_reading(1000, 0, 5), memory |-> 0 :> 1]}
MCKinds == {"number", "bool"}
MCImported == {[addr |-> 0, datatype |-> "uint16", order |-> "AB", scale |-> 1000]}

=============================================================================
