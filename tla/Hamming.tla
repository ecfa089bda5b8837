------------------------------ MODULE Hamming ------------------------------
(***************************************************************************)
(* The SECDED Hamming code of src/app/src/abft.c, bit by bit, for one      *)
(* block of k data bits: hamming_encode on the root, bits flipped on the   *)
(* way (bit_flip), hamming_decode on a receiver.                           *)
(***************************************************************************)
EXTENDS Integers, FiniteSets, Secded

CONSTANTS
  K,           \* data bits of the block (bytes * 8)
  DataWords,   \* data the root may encode, a set of functions 0..K-1 -> 0..1
  MaxFlips     \* bits of the code word that may be flipped on the way

ASSUME HammingAssumption ==
  /\ K \in Nat \ {0} /\ K % 8 = 0
  /\ MaxFlips \in Nat
  /\ DataWords \subseteq [0..(K - 1) -> 0..1]

VARIABLES
  pc,          \* "encode", "wire", "decoded"
  sent,        \* the root's data
  bits, c,     \* the receiver's data bits and code bits
  flipped,     \* code word bits flipped so far: <<"bits", n>> or <<"c", n>>
  error_type   \* answer of hamming_decode

vars == <<pc, sent, bits, c, flipped, error_type>>

-----------------------------------------------------------------------------
(* The code. *)

\* least r whose 2^r - 1 positions hold the k data bits and the r check bits
hmLength(k) ==
  CHOOSE r \in 0..k : /\ 2^r - 1 - r - k >= 0
                      /\ \A s \in 0..(r - 1) : 2^s - 1 - s - k < 0

R == hmLength(K)

\* Positions 1..R+K: check bit i sits at 2^i, the data bits at the others.
CheckPos(i) == 2^i
DataPositions == 1..(R + K) \ {CheckPos(i) : i \in 0..(R - 1)}
DataIndex == [j \in DataPositions |-> Cardinality({q \in DataPositions : q < j})]

Covers(i, j) == (j % (2 * 2^i)) \div 2^i = 1

Parity(S) == Cardinality(S) % 2

CheckBit(d, i) ==
  Parity({j \in DataPositions : Covers(i, j) /\ d[DataIndex[j]] = 1})

\* Mutated form of OverallParity: the check bits are left out of the sum.
DataParity(d, checks) == Parity({n \in 0..(K - 1) : d[n] = 1})

OverallParity(d, checks) ==
  (Parity({n \in 0..(K - 1) : d[n] = 1})
    + Parity({i \in 0..(R - 1) : checks[i] = 1})) % 2

hamming_code(d) ==
  LET checks == [i \in 0..(R - 1) |-> CheckBit(d, i)]
  IN  [i \in 0..R |-> IF i < R THEN checks[i] ELSE OverallParity(d, checks)]

\* v[i] is 1 where the bit computed from the block disagrees with c[i]
hamming_verify_bit(d, code) ==
  [i \in 0..R |->
    LET expected == IF i < R THEN CheckBit(d, i) ELSE OverallParity(d, code)
    IN  IF expected = code[i] THEN 0 ELSE 1]

\* the position v spells in binary
ErrorPos(v) ==
  LET Spells(p) == \A i \in 0..(R - 1) : (v[i] = 1) <=> Covers(i, p)
  IN  CHOOSE p \in 0..(2^R - 1) : Spells(p)

error_info(v) ==
  CASE ErrorPos(v) > 0 /\ v[R] = 0 -> TwoBit
    [] ErrorPos(v) = 0 /\ v[R] = 1 -> 2
    [] ErrorPos(v) > 0 /\ v[R] = 1 -> 3
    [] OTHER -> 0

\* Mutated form of Toggle: adds where the code uses exclusive or.
AddOne(f, n) == [f EXCEPT ![n] = 1 + @]

Toggle(f, n) == [f EXCEPT ![n] = 1 - @]

\* Mutated form of RectifiedBits: forgets that check bits sit in between.
RectifiedAtPosition(d, pos) == IF pos \in 1..K THEN Toggle(d, pos - 1) ELSE d

\* A position past R + K is reached by no iteration of the loop: no bit moves.
RectifiedBits(d, pos) ==
  IF pos \in DataPositions THEN Toggle(d, DataIndex[pos]) ELSE d

RectifiedCode(code, pos) ==
  IF \E i \in 0..(R - 1) : CheckPos(i) = pos
  THEN Toggle(code, CHOOSE i \in 0..(R - 1) : CheckPos(i) = pos)
  ELSE code

-----------------------------------------------------------------------------
(* One block on its way from the root to a receiver. *)

Init ==
  /\ pc = "encode"
  /\ sent \in DataWords
  /\ bits = [n \in 0..(K - 1) |-> 0]
  /\ c = [i \in 0..R |-> 0]
  /\ flipped = {}
  /\ error_type = 0

Encode ==
  /\ pc = "encode"
  /\ bits' = sent
  /\ c' = hamming_code(sent)
  /\ pc' = "wire"
  /\ UNCHANGED <<sent, flipped, error_type>>

\* A bit of the data is flipped, as bit_flip does it.
FlipData(n) ==
  /\ pc = "wire"
  /\ Cardinality(flipped) < MaxFlips
  /\ <<"bits", n>> \notin flipped
  /\ bits' = Toggle(bits, n)
  /\ flipped' = flipped \cup {<<"bits", n>>}
  /\ UNCHANGED <<pc, sent, c, error_type>>

\* The code travels on the same wires; bit_flip itself only touches data.
FlipCode(i) ==
  /\ pc = "wire"
  /\ Cardinality(flipped) < MaxFlips
  /\ <<"c", i>> \notin flipped
  /\ c' = Toggle(c, i)
  /\ flipped' = flipped \cup {<<"c", i>>}
  /\ UNCHANGED <<pc, sent, bits, error_type>>

hamming_decode ==
  /\ pc = "wire"
  /\ LET v == hamming_verify_bit(bits, c)
         t == error_info(v)
     IN  /\ error_type' = t
         /\ bits' = IF t = 3 THEN RectifiedBits(bits, ErrorPos(v)) ELSE bits
         /\ c' = CASE t = 2 -> Toggle(c, R)
                   [] t = 3 -> RectifiedCode(c, ErrorPos(v))
                   [] OTHER -> c
  /\ pc' = "decoded"
  /\ UNCHANGED <<sent, flipped>>

Next ==
  \/ Encode
  \/ \E n \in 0..(K - 1) : FlipData(n)
  \/ \E i \in 0..R : FlipCode(i)
  \/ hamming_decode

Spec == Init /\ [][Next]_vars

-----------------------------------------------------------------------------
(* Properties. *)

\* Data and code bits stay bits, and only bits of the code word are flipped.
TypeOK ==
  /\ pc \in {"encode", "wire", "decoded"}
  /\ sent \in DataWords
  /\ bits \in [0..(K - 1) -> 0..1]
  /\ c \in [0..R -> 0..1]
  /\ flipped \subseteq ({"bits"} \X (0..(K - 1))) \cup ({"c"} \X (0..R))
  /\ error_type \in ErrorType

\* One flipped bit, of the data, the check bits or the parity bit, is put back
\* by hamming_decode, code bits included, and is not called a two-bit error.
CorrectsOne ==
  pc = "decoded" /\ Cardinality(flipped) <= 1 =>
    bits = sent /\ c = hamming_code(sent) /\ error_type # TwoBit

\* Two flipped bits, wherever they are, are reported as error type 1, and
\* hamming_decode does not touch the block it could not correct.
DetectsTwo ==
  pc = "decoded" /\ Cardinality(flipped) = 2 =>
    /\ error_type = TwoBit
    /\ \A n \in 0..(K - 1) : bits[n] # sent[n] <=> <<"bits", n>> \in flipped
    /\ \A i \in 0..R : c[i] # hamming_code(sent)[i] <=> <<"c", i>> \in flipped

\* What the broadcast model takes for hamming_decode, Secded!Outcomes, covers
\* the bit-level decoder for every set of flipped bits.
Remaining ==
  [data |-> Cardinality({n \in 0..(K - 1) : bits[n] # sent[n]}),
   code |-> Cardinality({i \in 0..R : c[i] # hamming_code(sent)[i]})]

Arrived ==
  [data |-> Cardinality({f \in flipped : f[1] = "bits"}),
   code |-> Cardinality({f \in flipped : f[1] = "c"})]

DecodesAsSecded ==
  pc = "decoded" => Outcome(error_type, Remaining) \in Outcomes(Arrived)

\* Whatever was flipped, an answer other than "two-bit error" leaves a block
\* that decodes without error, except when the position computed for a
\* one-bit error lies past the end of the block: a second hamming_decode would
\* find nothing more to repair.
DecodeSettles ==
  [][ hamming_decode /\ error_type' \in {0, 2, 3} =>
        \/ error_info(hamming_verify_bit(bits', c')) = 0
        \/ /\ ErrorPos(hamming_verify_bit(bits, c)) > R + K
           /\ UNCHANGED <<bits, c>> ]_vars
=============================================================================
