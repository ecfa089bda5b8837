---------------------------- MODULE Secded_proofs ----------------------------
(***************************************************************************)
(* What the proofs about the programs need of a block and its Hamming      *)
(* code, for blocks of every size and any number of wrong bits.            *)
(***************************************************************************)
EXTENDS Secded, TLAPS

\* block_size and bs_num cut a buffer of at least one byte into at least one
\* block.
LEMMA BlockCount ==
  ASSUME NEW n \in Nat \ {0}
  PROVE  bs_num(n) \in Nat /\ bs_num(n) >= 1
<1> DEFINE s == block_size(n)
<1>1. n \in Nat \ {0} /\ s \in Nat \ {0} /\ s <= n
  BY MaxBlockAssumption DEF block_size
<1>2. n \div s \in Nat /\ n \div s >= 1 /\ n % s \in Nat
  BY <1>1, Z3
<1> QED
  BY <1>1, <1>2 DEF bs_num, bs_last

\* bit_flip of a data bit changes the number of wrong data bits by one.
LEMMA ToggleType ==
  ASSUME NEW p \in Pattern, NEW q \in DataToggled(p)
  PROVE  q \in Pattern /\ q.code = p.code /\ (q.data + p.data) % 2 = 1
<1>1. PICK n \in {p.data + 1} \cup ({p.data - 1} \cap Nat) : q = [p EXCEPT !.data = n]
  BY DEF DataToggled
<1>2. p.data \in Nat /\ n \in Nat /\ q.data = n /\ q.code = p.code /\ q \in Pattern
  BY <1>1 DEF Pattern
<1>3. (n + p.data) % 2 = 1
  BY <1>1, <1>2, Z3
<1> QED
  BY <1>2, <1>3

\* hamming_decode answers with an error type and leaves a pattern of wrong bits.
LEMMA OutcomesType ==
  ASSUME NEW p \in Pattern, NEW o \in Outcomes(p)
  PROVE  o.type \in ErrorType /\ o.left \in Pattern
<1>1. CodeToggled(p) \subseteq Pattern
  BY DEF CodeToggled, Pattern
<1>2. DataToggled(p) \subseteq Pattern
  BY DEF DataToggled, Pattern
<1>3. Intact \in Pattern
  BY DEF Intact, Pattern
<1>4. o \in [type : ErrorType,
              left : {p, Intact} \cup DataToggled(p) \cup CodeToggled(p)]
  BY DEF Outcomes
<1> QED
  BY <1>1, <1>2, <1>3, <1>4

\* Up to two wrong bits, an answer other than "two-bit error" means the data
\* are right.
LEMMA OutcomesRepair ==
  ASSUME NEW p \in Pattern, Weight(p) <= 2,
         NEW o \in Outcomes(p), o.type # TwoBit
  PROVE  o.left.data = 0
<1>1. p.data \in Nat /\ p.code \in Nat /\ Weight(p) \in Nat
  BY DEF Weight, Pattern
<1>2. CASE Weight(p) = 0
  BY <1>1, <1>2 DEF Outcomes, Outcome, Weight
<1>3. CASE Weight(p) = 1
  <2>1. o = Outcome(3, Intact) \/ o = Outcome(2, Intact)
    BY <1>3 DEF Outcomes
  <2> QED
    BY <2>1 DEF Outcome, Intact
<1>4. CASE Weight(p) = 2
  BY <1>1, <1>4 DEF Outcomes, Outcome, TwoBit, MaybeCodeWord
<1> QED
  BY <1>1, <1>2, <1>3, <1>4
==============================================================================
