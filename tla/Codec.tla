-------------------------------- MODULE Codec --------------------------------
(***************************************************************************)
(* The bitwise compression of doubles in src/app/src/dataCompression.c:    *)
(* each value becomes a code of three bits, when it is small or near to    *)
(* what the last three values predict, or the sign, the exponent and as    *)
(* many bits of the mantissa as the error bound asks for.  Nothing in the  *)
(* stream tells where a value ends: the decompression follows it bit by    *)
(* bit and must come to the same lengths.                                  *)
(*                                                                         *)
(* There are four pairs of functions, chosen by CT: myCompress_bitwise_    *)
(* double ("bitwise", CT 5, 8, 10), with no prediction ("np", CT 6), with  *)
(* a mask for the values that are like the mean ("mask", CT 7, 9), and     *)
(* with prediction or all the bits ("op", CT 11).                          *)
(***************************************************************************)
EXTENDS Floats

CONSTANTS
  Methods,     \* the pairs of functions used
  DataSets,    \* the sequences compressed
  Bound,       \* absErrorBound
  MaskBits,    \* mantissa bits of the mask: 8 in the program
  ByteBits     \* bits of a byte: 8 in the program

\* The data have been through toSmallDataset_double: their minimum is 0.  The
\* padding of the last byte is too short to be taken for another value.
ASSUME CodecAssumption ==
  /\ ByteBits \in 1..ExpoBits
  /\ MaskBits \in 1..MantBits
  /\ 2 ^ (MantBits + Bias - 1) <= Bound * 2 ^ BoundBits
  /\ Bound * 2 ^ (BoundBits - 1) < 2 ^ (MantBits + Bias - 1)
  /\ \A data \in DataSets :
       /\ \A k \in DOMAIN data : strtodbl(doubletostr(data[k])) = data[k]
       /\ \E k \in DOMAIN data : data[k] = 0

VARIABLES
  method, data,   \* what is compressed, and how (fixed)
  n,              \* values compressed
  stream,         \* data_bits, as a sequence of bits
  pos,            \* bits decompressed
  dec,            \* the locals of the decompression
  status          \* "compress", "decompress", "done"; "exit" on an error

vars == <<method, data, n, stream, pos, dec, status>>

Num == Len(data)

-----------------------------------------------------------------------------
(* The mask. *)

MaxValue == CHOOSE v \in {data[k] : k \in 1..Num} : \A k \in 1..Num : data[k] <= v
Mean == FoldLeft(LAMBDA x, y : x + y, 0, data) \div Num

\* No exponent begins with type ones (med_dataset_double); 0 when the values
\* are too large for any type.
type ==
  LET fits(t) == Expo(MaxValue) < 2 ^ ExpoBits - 2 ^ (ExpoBits - t)
  IN  IF \E t \in 1..(ExpoBits - 1) : fits(t)
      THEN CHOOSE t \in 1..(ExpoBits - 1) :
             fits(t) /\ \A s \in 1..(t - 1) : ~fits(s)
      ELSE 0

mask == SubSeq(doubletostr(Mean), 1, Header + MaskBits)
Marker == <<0>> \o [k \in 1..type |-> 1]

-----------------------------------------------------------------------------
(* Compression. *)

\* The predictions from the last three values b, the last one first.
Predict(c, b) ==
  CASE c = "a" -> b[1]
    [] c = "b" -> 2 * b[1] - b[2]
    [] c = "c" -> 3 * b[1] - 3 * b[2] + b[3]

CodeBits(c) ==
  CASE c = "a" -> <<1, 0, 1>>
    [] c = "b" -> <<1, 1, 0>>
    [] c = "c" -> <<1, 1, 1>>
    [] c = "d" -> <<1, 0, 0>>

Diff(x, y) == IF x < y THEN y - x ELSE x - y
Before(k) == <<data[k - 1], data[k - 2], data[k - 3]>>

\* the first of the three predictions that is nearest to value k
Best(k) ==
  LET diff(c) == Diff(Predict(c, Before(k)), data[k])
  IN  IF diff("c") < diff("a") /\ diff("c") < diff("b") THEN "c"
      ELSE IF diff("b") < diff("a") THEN "b" ELSE "a"

Small(v) == v < Bound
Predicted(k) ==
  /\ method # "np"
  /\ k > 3
  /\ ~Small(data[k])
  /\ Diff(Predict(Best(k), Before(k)), data[k]) <= Bound
Coded(k) == method # "np" /\ (Small(data[k]) \/ Predicted(k))

\* compress_bitwise_double
Truncated(v) == SubSeq(doubletostr(v), 1, Header + Kept(Expo(v)))

\* compress_bitwise_double_mask
Masked(v) ==
  LET s == doubletostr(v)
      same(k) == \A j \in 1..k : s[j] = mask[j]
      length == Header + Kept(Expo(v))
  IN  IF ~same(Header) THEN Truncated(v)
      ELSE IF same(Header + MaskBits)
           THEN Marker \o <<0>> \o SubSeq(s, Header + MaskBits + 1, length)
           ELSE Marker \o <<1>> \o SubSeq(s, Header + 1, length)

Stored(v) ==
  CASE method = "op"   -> doubletostr(v)
    [] method = "mask" -> Masked(v)
    [] OTHER           -> Truncated(v)

Token(k) ==
  IF Coded(k)
  THEN CodeBits(IF Small(data[k]) THEN "d" ELSE Best(k))
  ELSE Stored(data[k])

Init ==
  /\ method \in Methods
  /\ data \in DataSets
  /\ n = 0
  /\ stream = << >>
  /\ pos = 0
  /\ dec = [offset |-> 0, bits |-> << >>, pending |-> FALSE,
            before |-> <<-One, -One, -One>>, out |-> << >>]
  /\ status = "compress"

\* One turn of the loop over the values.
Compress ==
  /\ status = "compress"
  /\ n < Num
  /\ stream' = stream \o Token(n + 1)
  /\ n' = n + 1
  /\ UNCHANGED <<method, data, pos, dec, status>>

Padding(s) == [k \in 1..((-Len(s)) % ByteBits) |-> 0]

\* The last byte ends with zeros; the bytes go to the decompression.
Deliver ==
  /\ status = "compress"
  /\ n = Num
  /\ stream' = stream \o Padding(stream)
  /\ status' = "decompress"
  /\ UNCHANGED <<method, data, n, pos, dec>>

-----------------------------------------------------------------------------
(* Decompression. *)

\* Mutated form of Shift: before_value2 is forgotten.
ShiftTwo(b, v) ==
  IF -One \in {b[1], b[2], b[3]}
  THEN <<IF b[2] = -One \/ b[3] = -One THEN b[1] ELSE v,
         IF b[3] = -One THEN b[2] ELSE IF b[2] = -One THEN v ELSE b[2],
         IF b[3] = -One THEN v ELSE b[3]>>
  ELSE <<v, b[1], b[3]>>

\* before_value1..3 start as -1, and a value that is -1 counts as not set.
Shift(b, v) ==
  IF b[3] = -One THEN <<b[1], b[2], v>>
  ELSE IF b[2] = -One THEN <<b[1], v, b[3]>>
  ELSE IF b[1] = -One THEN <<v, b[2], b[3]>>
  ELSE <<v, b[1], b[2]>>

MarkedBits(s) == \A k \in 2..(type + 1) : s[k] = 1

\* decompress_bitwise_double, _np and _mask
Value(d) ==
  LET s == d.bits
      tail == SubSeq(s, type + 3, Len(s))
  IN  CASE s = CodeBits("d") -> 0
        [] s \in {CodeBits(c) : c \in {"a", "b", "c"}} ->
             Predict(CHOOSE c \in {"a", "b", "c"} : s = CodeBits(c), d.before)
        [] method = "mask" /\ Len(s) # Width /\ MarkedBits(s) ->
             strtodbl(Completed(
               SubSeq(mask, 1, IF s[type + 2] = 0 THEN Header + MaskBits ELSE Header)
                 \o tail))
        [] OTHER -> strtodbl(Completed(s))

\* Mutated form of Emit: the bits are not reset.
EmitKeepsBits(d) ==
  [d EXCEPT !.out = Append(@, Value(d)), !.before = Shift(@, Value(d)),
            !.pending = FALSE]

Emit(d) ==
  [d EXCEPT !.out = Append(@, Value(d)), !.before = Shift(@, Value(d)),
            !.bits = << >>, !.pending = FALSE]

\* bits after which the length is not known yet
HeaderLengths ==
  CASE method = "op"   -> {}
    [] method = "mask" -> {Header, type + 2}
    [] OTHER           -> {Header}

\* the first bit of a value
Open(d, bit) ==
  [d EXCEPT !.offset = IF bit = 1 THEN 3
                       ELSE CASE method = "op"   -> Width
                              [] method = "mask" -> 1 + type
                              [] OTHER           -> Header,
            !.pending = (method = "mask" /\ bit = 0)]

\* Mutated form of HeaderExpo: the exponent is read from the mask alone.
MaskExpo(d) == FromBits(SubSeq(IF method = "mask" THEN mask ELSE d.bits, 2, Header))

\* the exponent the number of mantissa bits is computed from
HeaderExpo(d) ==
  FromBits(SubSeq(IF Len(d.bits) = Header THEN d.bits ELSE mask, 2, Header))

\* the mantissa bits that are in the mask already
FromMask(d) ==
  IF method = "mask" /\ Len(d.bits) = type + 2 /\ Last(d.bits) = 0
  THEN MaskBits ELSE 0

\* the next bit is the first of a value
AtStart(d) == d.offset = 0 /\ d.bits = << >>
AfterHeader(d) == d.offset = 0 /\ d.bits # << >> /\ ~d.pending
NoMantissa(d) == AfterHeader(d) /\ Kept(HeaderExpo(d)) = 0

\* What a bit means where one length ends and the next begins.
Turn(d, bit) ==
  CASE AtStart(d)    -> Open(d, bit)
    [] NoMantissa(d) -> Open(Emit(d), bit)
    [] AfterHeader(d) /\ ~NoMantissa(d) ->
         [d EXCEPT !.offset = Kept(HeaderExpo(d)) - FromMask(d)]
    [] d.offset = 0 /\ d.pending ->
         [d EXCEPT !.pending = FALSE,
                   !.offset = IF MarkedBits(d.bits) THEN 1 ELSE ExpoBits - type]
    [] d.offset # 0  -> d

Keep(d, bit) == [d EXCEPT !.bits = Append(@, bit), !.offset = @ - 1]

\* Mutated form of IsComplete: a value ends with its header.
EndsWithHeader(d) == d.offset = 0 /\ ~d.pending

IsComplete(d) ==
  d.offset = 0 /\ Len(d.bits) \notin HeaderLengths /\ ~d.pending

Consume(d, bit) ==
  LET e == Keep(Turn(d, bit), bit)
  IN  IF IsComplete(e) THEN Emit(e) ELSE e

\* "Error leading bit 1" (np)
LeadingOne(d, bit) ==
  method = "np" /\ bit = 1 /\ (AtStart(d) \/ NoMantissa(d))

\* One turn of the loop over the bits.
Decompress ==
  /\ status = "decompress"
  /\ pos < Len(stream)
  /\ dec' = Consume(dec, stream[pos + 1])
  /\ status' = IF LeadingOne(dec, stream[pos + 1]) THEN "exit" ELSE status
  /\ pos' = pos + 1
  /\ UNCHANGED <<method, data, n, stream>>

Return ==
  /\ status = "decompress"
  /\ pos = Len(stream)
  /\ status' = "done"
  /\ UNCHANGED <<method, data, n, stream, pos, dec>>

Terminated == status \in {"done", "exit"} /\ UNCHANGED vars

Next == Compress \/ Deliver \/ Decompress \/ Return \/ Terminated

Spec == Init /\ [][Next]_vars

-----------------------------------------------------------------------------
(* Properties. *)

\* The lengths of the mask's tokens, with and without the mask's mantissa
\* bits, are those of no other token's header.
MaskSafe ==
  LET kept == Kept(Expo(Mean))
  IN  /\ type \notin {0, 1}
      /\ kept > MaskBits
      /\ Header \notin {type + 2, type + 2 + kept, type + 2 + kept - MaskBits}

Safe == method = "mask" => MaskSafe

\* Every variable has its type, and the bits of a value never outgrow its
\* width, for which the decompression has buffers.  Predictions may be
\* negative numbers.
TypeOK ==
  /\ method \in Methods
  /\ data \in DataSets
  /\ n \in 0..Num
  /\ stream \in Seq({0, 1})
  /\ pos \in 0..Len(stream)
  /\ Safe => dec.offset \in 0..(Width - 1)
  /\ dec.bits \in Seq({0, 1}) /\ (Safe => Len(dec.bits) + dec.offset <= Width)
  /\ dec.pending \in BOOLEAN
  /\ Len(dec.before) = 3 /\ \A k \in 1..3 : dec.before[k] \in Int
  /\ \A k \in 1..Len(dec.out) : dec.out[k] \in Int
  /\ status \in {"compress", "decompress", "done", "exit"}

\* What is left of a value of which only the mantissa bits the bound asks for
\* are kept: it lies in the middle of the numbers that begin like it.
Rounded(v) ==
  LET step == 2 ^ (MantBits - Kept(Expo(v)))
      m == (Mant(v) \div step) * step + (step \div 2)
  IN  FromFields(Expo(v), m)

\* The values the decompression should come to, computed from the values
\* alone, without a bit stream.
Ideal ==
  LET f[k \in 1..Num] ==
        IF Predicted(k) THEN Predict(Best(k), <<f[k - 1], f[k - 2], f[k - 3]>>)
        ELSE IF Coded(k) THEN 0
        ELSE IF method = "op" THEN data[k]
        ELSE Rounded(data[k])
  IN  f

\* Compression and decompression agree on where each value ends and keep the
\* same three values before it, although one knows the exact values and the
\* other only what it has decompressed.
DecodesWhatWasStored ==
  Safe => /\ status # "exit"
          /\ Len(dec.out) <= Num
          /\ \A k \in 1..Len(dec.out) : dec.out[k] = Ideal[k]

\* A value that has no mantissa bits is only taken when the next bit arrives:
\* the last one is lost when it fills the last byte.
LastIsLost ==
  /\ method # "op" /\ ~Coded(Num)
  /\ Kept(Expo(data[Num])) = 0
  /\ Padding(FoldLeft(LAMBDA s, k : s \o Token(k), << >>, [k \in 1..Num |-> k])) = << >>

\* All the values come back but for a last one of that kind.
AllValuesComeBack ==
  Safe /\ status = "done" => Len(dec.out) = IF LastIsLost THEN Num - 1 ELSE Num

Error(k) == Diff(dec.out[k], data[k])

\* Errors come from the bound and from the errors of the values a prediction
\* was made from, amplified by its coefficients: predictions are chosen with
\* the exact values, so these errors add up along a run of predictions.
ErrorsAreAccountedFor ==
  Safe => \A k \in 1..Len(dec.out) :
            Error(k) <= Bound +
              (IF ~Predicted(k) THEN 0
               ELSE CASE Best(k) = "a" -> Error(k - 1)
                      [] Best(k) = "b" -> 2 * Error(k - 1) + Error(k - 2)
                      [] Best(k) = "c" -> 3 * Error(k - 1) + 3 * Error(k - 2) + Error(k - 3))

\* dataCompression.c:1256 "start bit of mantissa", of the branch taken when a
\* length has ended and bits are left over: they are the header of a stored
\* value, which begins with 0, and no code, which has no mantissa.
StartBitOfMantissa ==
  status = "decompress" /\ pos < Len(stream) /\ AfterHeader(dec)
    => dec.bits[1] = 0
=============================================================================
