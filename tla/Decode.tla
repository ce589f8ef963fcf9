-------------------------------- MODULE Decode --------------------------------
(***************************************************************************)
(* How the words of a PLC are read as numbers: by the drivers (base_driver *)
(* .py), by a range scan, which pairs what it read as words (protoprobe.py)*)
(* and by the commissioning engine (commissioning.py).                     *)
(*                                                                         *)
(* A word has two bytes.  The value of a float is a constant function of   *)
(* its four bytes, defined for those that are finite; values are whole     *)
(* numbers, which the rounding to four digits of a scan leaves as they are.*)
(***************************************************************************)
EXTENDS Integers, Sequences

CONSTANTS Base,    \* values of a byte: 256
          Floats,  \* what the finite 32-bit floats among 4 bytes stand for
          NoData   \* None; and NaN or infinity, which only the drivers return

ASSUME DecodeConstants ==
  /\ Base \in Nat \ {0, 1}
  /\ NoData \notin Int

Word == Base * Base

Words == 0 .. Word - 1

High(w) == w \div Base
Low(w) == w % Base

Signed(v, n) == IF 2 * v >= n THEN v - n ELSE v

Float(bytes) == IF bytes \in DOMAIN Floats THEN Floats[bytes] ELSE NoData

-----------------------------------------------------------------------------
(* The drivers and the scan.                                               *)

\* struct.pack(">HH", hi, lo), as a number and as bytes.
Packed(hi, lo) == hi * Word + lo
PackedBytes(hi, lo) == <<High(hi), Low(hi), High(lo), Low(lo)>>

DATA_TYPES_32 == {"int32", "uint32", "float32_be", "float32_le"}

\* The value of the words that were read.
decode_value(words, data_type) ==
  CASE data_type = "int16"      -> Signed(words[1], Word)
    [] data_type = "uint16"     -> words[1]
    [] data_type = "int32"      -> Signed(Packed(words[1], words[2]), Word * Word)
    [] data_type = "uint32"     -> Packed(words[1], words[2])
    [] data_type = "float32_be" -> Float(PackedBytes(words[1], words[2]))
    [] data_type = "float32_le" -> Float(PackedBytes(words[2], words[1]))

\* & 0xFFFF: the word again, of a value that was read as int16.
raw_word_from_int16(value) == value % Word

\* Every way the drivers could decode two values that a scan read as int16.
compute_32bit_candidates(current, next) ==
  LET hi == raw_word_from_int16(current)
      lo == raw_word_from_int16(next)
  IN [int32      |-> Signed(Packed(hi, lo), Word * Word),
      uint32     |-> Packed(hi, lo),
      float32_be |-> Float(PackedBytes(hi, lo)),
      float32_le |-> Float(PackedBytes(lo, hi))]

plausible_float(value) == value # NoData /\ -10000000 < value /\ value < 10000000

\* The float that two adjacent values of a scan may be.
guess_float32_pair(current, next) ==
  LET hi == raw_word_from_int16(current)
      lo == raw_word_from_int16(next)
      be == Float(PackedBytes(hi, lo))
      le == Float(PackedBytes(lo, hi))
  IN IF hi = 0 /\ lo = 0 THEN NoData
     ELSE IF plausible_float(be) THEN be
     ELSE IF plausible_float(le) THEN le ELSE NoData

-----------------------------------------------------------------------------
(* The commissioning engine.                                               *)

BYTE_ORDERS_32 == {"ABCD", "CDAB", "BADC", "DCBA"}

\* The four bytes of two words, put into an order.
Reordered(w0, w1, o) ==
  LET b == <<High(w0), Low(w0), High(w1), Low(w1)>>
  IN CASE o = "ABCD" -> b
       [] o = "CDAB" -> <<b[3], b[4], b[1], b[2]>>
       [] o = "BADC" -> <<b[2], b[1], b[4], b[3]>>
       [] o = "DCBA" -> <<b[4], b[3], b[2], b[1]>>

BigEndian(b) == ((b[1] * Base + b[2]) * Base + b[3]) * Base + b[4]

\* The data types of one word and of two, each with its byte orders.
Short == {"int16", "uint16"} \X {"AB", "BA"}
Long == {"int32", "uint32", "float32"} \X BYTE_ORDERS_32

\* One of interpretations, of w0 alone or of w0 and w1.
InterpretedShort(w0, datatype, order) ==
  LET v == IF order = "AB" THEN w0 ELSE Low(w0) * Base + High(w0)
  IN IF datatype = "uint16" THEN v ELSE Signed(v, Word)

InterpretedLong(w0, w1, datatype, order) ==
  LET b == Reordered(w0, w1, order)
  IN CASE datatype = "uint32"  -> BigEndian(b)
       [] datatype = "int32"   -> Signed(BigEndian(b), Word * Word)
       [] datatype = "float32" -> Float(b)

-----------------------------------------------------------------------------
(* What must hold.                                                         *)

\* A word that the drivers read as int16 is got back from the value, as the
\* range scan (protoprobe.py 289-292) and DriverReader (plc_reader.py 105) do.
WordsComeBack ==
  \A w \in Words : raw_word_from_int16(decode_value(<<w>>, "int16")) = w

\* What a scan offers for two adjacent values is what the drivers decode when
\* the tag is set up with that type (protoprobe.py 341-343).
ScanOffersDecodable ==
  \A w0 \in Words, w1 \in Words, t \in DATA_TYPES_32 :
    compute_32bit_candidates(decode_value(<<w0>>, "int16"), decode_value(<<w1>>, "int16"))[t]
      = decode_value(<<w0, w1>>, t)

\* The wizard and the drivers read the same words as the same number, for every
\* type the drivers have; they know one byte order of a float more, and of an
\* integer no other.
Same == [int32 |-> <<"int32", "ABCD">>, uint32 |-> <<"uint32", "ABCD">>,
         float32_be |-> <<"float32", "ABCD">>, float32_le |-> <<"float32", "CDAB">>]

WizardReadsAsDrivers ==
  \A w0 \in Words, w1 \in Words :
    /\ InterpretedShort(w0, "int16", "AB") = decode_value(<<w0>>, "int16")
    /\ InterpretedShort(w0, "uint16", "AB") = decode_value(<<w0>>, "uint16")
    /\ \A t \in DATA_TYPES_32 :
         InterpretedLong(w0, w1, Same[t][1], Same[t][2]) = decode_value(<<w0, w1>>, t)

=============================================================================
