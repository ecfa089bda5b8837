---------------------------- MODULE CheckedBcast ----------------------------
(***************************************************************************)
(* The broadcasts of compressed data of src/app/src/dataCompression.c:     *)
(* MPI_Bcast_bitwise_crc ("crc"), MPI_Bcast_bitwise_mask_crc ("mask") and  *)
(* MPI_Bcast_bitwise_crc_hamming ("hamming").  Next to them are MPI_Bcast  *)
(* ("plain"), MPI_Bcast_abft ("abft", see module BcastAbft) and what       *)
(* mm_comp.c does for CT 5, 6 ("bitwise") and 7 ("bitwise_mask"): the same *)
(* without a check.                                                        *)
(*                                                                         *)
(* Bit errors are injected by the receivers.  "crc" and "mask" draw        *)
(* whether a check fails; "hamming" flips bits of what has arrived.        *)
(***************************************************************************)
EXTENDS Integers, FiniteSets, Functions, Secded

CONSTANTS
  Procs,         \* number of ranks; rank 0 is the root of every call
  Methods,       \* the ways of broadcasting used
  NCalls,        \* checked broadcasts the program makes, after a plain one
  DataBytes      \* DataBytes[k]: size of the data call k sends

Ranks == 0..(Procs - 1)
Receivers == Ranks \ {0}

\* Call 0 is an MPI_Bcast of what the receivers allocate their buffers by.
Calls == 0..NCalls

WithCode == {"hamming", "abft"}
Checking == {"crc", "mask"} \cup WithCode

ASSUME CheckedBcastAssumption ==
  /\ Procs \in Nat \ {0}
  /\ Methods \subseteq {"plain", "bitwise", "bitwise_mask"} \cup Checking
  /\ NCalls \in Nat
  /\ DataBytes \in [1..NCalls -> Nat \ {0}]

VARIABLES
  method,        \* how the program broadcasts (fixed)
  eager,         \* sends return at once (fixed)
  call,          \* call[p]: the broadcast rank p executes
  pc,            \* pc[p]: where in it
  i,             \* i[p]: counter of the loop p is in
  posted,        \* posted[k]: broadcasts of call k the root has made
  block,         \* block[p][b]: wrong bits in p's copy of block b
  crc_ok,        \* crc_ok[p]: p's verdict
  gathered,      \* gathered[k][p]: the verdict p gave to MPI_Gather of call k
  mail,          \* second copies not received yet, as <<call, receiver>>
  resend,        \* second copies rank 0 has counted
  held,          \* held[k][p]: what p's buffer of call k holds
  overload       \* ranks that had more wrong bits in a block than the Hamming
                 \* code can tell (history)

bvars == <<method, eager, call, pc, i, posted, block, crc_ok, gathered, mail,
           resend, held, overload>>

Blocks(k) == 0..(bs_num(DataBytes[k]) - 1)
AllBlocks == UNION {Blocks(k) : k \in 1..NCalls}

\* The broadcasts that make up call k: the size, the minimum and the data, with
\* a mask the mean and the type, then the checksum, the lengths and the codes.
Parts(k) ==
  IF k = 0 THEN 1
  ELSE CASE method = "plain"        -> 1
         [] method = "bitwise"      -> 3
         [] method = "bitwise_mask" -> 5
         [] method = "crc"          -> 4
         [] method = "mask"         -> 6
         [] method = "hamming"      -> 5 + bs_num(DataBytes[k])
         [] method = "abft"         -> 3 + bs_num(DataBytes[k])

At(p, l) == call[p] \in Calls /\ pc[p] = l
GoTo(p, l) == pc' = [pc EXCEPT ![p] = l]
SetI(p, n) == i' = [i EXCEPT ![p] = n]
Clean(p) == \A b \in AllBlocks : block[p][b].data = 0
AllIntact == [b \in AllBlocks |-> Intact]

\* BER * 8 * MaxBlock = 1 in dataCompression.h and block_size
Errors(k) == DataBytes[k] \div MaxBlock

Total(f) == FoldFunction(+, 0, f)

\* What errors calls of bit_flip make of the data: one that hits a bit again
\* takes an error away.  "abft" injects nothing; here the wires damage up to
\* two bits.
Flips(k) ==
  IF method = "abft" THEN {f \in [Blocks(k) -> 0..2] : Total(f) <= 2}
  ELSE {f \in [Blocks(k) -> 0..Errors(k)] :
          Total(f) <= Errors(k) /\ Total(f) % 2 = Errors(k) % 2}

-----------------------------------------------------------------------------
BInit ==
  /\ method \in Methods
  /\ eager \in BOOLEAN
  /\ call = [p \in Ranks |-> 0]
  /\ i = [p \in Ranks |-> 0]
  /\ posted = [k \in Calls |-> 0]
  /\ block = [p \in Ranks |-> AllIntact]
  /\ crc_ok = [p \in Ranks |-> "y"]
  /\ gathered = [k \in Calls |-> [p \in Ranks |-> "none"]]
  /\ mail = {}
  /\ resend = 0
  /\ held = [k \in Calls |-> [p \in Ranks |-> IF p = 0 THEN "exact" ELSE "unset"]]
  /\ overload = {}

\* The call returns; the next one begins with a new data_bits.
Return(p) ==
  /\ call' = [call EXCEPT ![p] = @ + 1]
  /\ GoTo(p, "bcast")
  /\ SetI(p, 0)
  /\ block' = [block EXCEPT ![p] = AllIntact]
  /\ crc_ok' = [crc_ok EXCEPT ![p] = "y"]

Checked(k) == k # 0 /\ method \in Checking

\* What data without wrong bits turn into on a receiver: MPI_Bcast and
\* MPI_Bcast_abft deliver the values themselves.
Arrived == IF method \in {"plain", "abft"} THEN "exact" ELSE "decompressed"

\* One MPI_Bcast of the call on the root.
Post ==
  LET k == call[0]
  IN  /\ At(0, "bcast")
      /\ i[0] < Parts(k)
      /\ \/ eager
         \/ \A q \in Receivers : call[q] = k /\ pc[q] = "bcast" /\ i[q] = i[0]
      /\ posted' = [posted EXCEPT ![k] = i[0] + 1]
      /\ SetI(0, i[0] + 1)
      /\ UNCHANGED <<method, eager, call, pc, block, crc_ok, gathered, mail,
                     resend, held, overload>>

\* The same on a receiver.
Receive(p) ==
  /\ p # 0
  /\ At(p, "bcast")
  /\ i[p] < posted[call[p]]
  /\ SetI(p, i[p] + 1)
  /\ UNCHANGED <<method, eager, call, pc, posted, block, crc_ok, gathered, mail,
                 resend, held, overload>>

\* The data are not checked.  The receivers decompress both matrices after the
\* second broadcast; nothing uses the first one before.
EndUnchecked(p) ==
  /\ At(p, "bcast")
  /\ i[p] = Parts(call[p])
  /\ ~Checked(call[p])
  /\ held' = [held EXCEPT ![call[p]][p] =
                 IF p = 0 \/ call[p] = 0 THEN "exact" ELSE Arrived]
  /\ Return(p)
  /\ UNCHANGED <<method, eager, posted, gathered, mail, resend, overload>>

-----------------------------------------------------------------------------
(* The verdicts. *)

AllPosted(p) == At(p, "bcast") /\ i[p] = Parts(call[p]) /\ Checked(call[p])

RootGathers ==
  /\ AllPosted(0)
  /\ GoTo(0, "gather")
  /\ UNCHANGED <<method, eager, call, i, posted, block, crc_ok, gathered, mail,
                 resend, held, overload>>

\* "crc", "mask": r is drawn from 0..to, and r < data_bytes * 8 makes
\* crc_check 0; for more than MaxBlock bytes no r is large enough.
CheckByDraw(p) ==
  /\ p # 0
  /\ AllPosted(p)
  /\ method \notin WithCode
  /\ \E failed \in BOOLEAN :
       /\ ~failed => DataBytes[call[p]] <= MaxBlock
       /\ crc_ok' = [crc_ok EXCEPT ![p] = IF failed THEN "n" ELSE "y"]
  /\ GoTo(p, "gather")
  /\ UNCHANGED <<method, eager, call, i, posted, block, gathered, mail, resend,
                 held, overload>>

\* "hamming", "abft": bits are flipped, and the checksum is compared.
Check(p) ==
  /\ p # 0
  /\ AllPosted(p)
  /\ method \in WithCode
  /\ \E f \in Flips(call[p]) :
       /\ block' = [block EXCEPT ![p] =
                      [b \in AllBlocks |-> IF b \in DOMAIN f
                                           THEN [Intact EXCEPT !.data = f[b]]
                                           ELSE Intact]]
       /\ overload' = IF \E b \in DOMAIN f : f[b] > 2 THEN overload \cup {p}
                      ELSE overload
       /\ GoTo(p, IF \A b \in DOMAIN f : f[b] = 0 THEN "gather" ELSE "decode")
  /\ SetI(p, 0)
  /\ UNCHANGED <<method, eager, call, posted, crc_ok, gathered, mail, resend,
                 held>>

\* hamming_decode of the next block; a two-bit error ends the loop.
Decode(p) ==
  /\ At(p, "decode")
  /\ \E o \in Outcomes(block[p][i[p]]) :
       /\ block' = [block EXCEPT ![p][i[p]] = o.left]
       /\ crc_ok' = [crc_ok EXCEPT ![p] = IF o.type = TwoBit THEN "n" ELSE @]
       /\ GoTo(p, IF o.type = TwoBit \/ i[p] + 1 \notin Blocks(call[p])
                  THEN "gather" ELSE "decode")
  /\ SetI(p, i[p] + 1)
  /\ UNCHANGED <<method, eager, call, posted, gathered, mail, resend, held,
                 overload>>

GiveVerdict(p) ==
  /\ p # 0
  /\ At(p, "gather")
  /\ eager \/ (call[0] = call[p] /\ pc[0] = "gather")
  /\ gathered' = [gathered EXCEPT ![call[p]][p] = crc_ok[p]]
  /\ GoTo(p, IF crc_ok[p] = "n" THEN "await" ELSE "decompress")
  /\ UNCHANGED <<method, eager, call, i, posted, block, crc_ok, mail, resend,
                 held, overload>>

TakeVerdicts ==
  /\ At(0, "gather")
  /\ \A q \in Receivers : gathered[call[0]][q] # "none"
  /\ gathered' = [gathered EXCEPT ![call[0]][0] = crc_ok[0]]
  /\ GoTo(0, "resend")
  /\ SetI(0, 0)
  /\ UNCHANGED <<method, eager, call, posted, block, crc_ok, mail, resend, held,
                 overload>>

-----------------------------------------------------------------------------
(* The second copy and the decompression. *)

\* Mutated forms of WantsCopy: every receiver gets a copy when one asks for
\* it; the loop over the ranks ends one too early.
WantsCopyIfAny(q) == q # 0 /\ \E x \in Ranks : gathered[call[0]][x] = "n"
WantsCopyButLast(q) == q # 0 /\ q + 1 # Procs /\ gathered[call[0]][q] = "n"

WantsCopy(q) == q # 0 /\ gathered[call[0]][q] = "n"

\* One turn of the root's loop over the ranks: MPI_Send with tag i, and
\* (*resend)++.
Resend ==
  /\ At(0, "resend")
  /\ i[0] \in Ranks
  /\ IF WantsCopy(i[0])
     THEN /\ eager \/ (call[i[0]] = call[0] /\ pc[i[0]] = "await")
          /\ mail' = mail \cup {<<call[0], i[0]>>}
          /\ resend' = resend + 1
     ELSE UNCHANGED <<mail, resend>>
  /\ SetI(0, i[0] + 1)
  /\ UNCHANGED <<method, eager, call, pc, posted, block, crc_ok, gathered, held,
                 overload>>

\* Mutated form of RootReturns: the root overwrites its buffer as well.
RootReturnsDecompressed ==
  /\ At(0, "resend")
  /\ i[0] \notin Ranks
  /\ held' = [held EXCEPT ![call[0]][0] = Arrived]
  /\ Return(0)
  /\ UNCHANGED <<method, eager, posted, gathered, mail, resend, overload>>

\* The root decompresses for its statistics and keeps its exact values.
RootReturns ==
  /\ At(0, "resend")
  /\ i[0] \notin Ranks
  /\ Return(0)
  /\ UNCHANGED <<method, eager, posted, gathered, mail, resend, held, overload>>

\* The oldest message of the root with tag rank; it is not checked again.  One
\* of another call would be wrong everywhere.
Await(p) ==
  /\ At(p, "await")
  /\ \E m \in mail :
       /\ m[2] = p
       /\ \A other \in mail : other[2] = p => m[1] <= other[1]
       /\ mail' = mail \ {m}
       /\ block' = [block EXCEPT ![p] =
                      IF m[1] = call[p] THEN AllIntact
                      ELSE [b \in AllBlocks |-> [Intact EXCEPT !.data = 1]]]
  /\ GoTo(p, "decompress")
  /\ UNCHANGED <<method, eager, call, i, posted, crc_ok, gathered, resend, held,
                 overload>>

Decompress(p) ==
  /\ At(p, "decompress")
  /\ held' = [held EXCEPT ![call[p]][p] = IF Clean(p) THEN Arrived ELSE "damaged"]
  /\ Return(p)
  /\ UNCHANGED <<method, eager, posted, gathered, mail, resend, overload>>

BcastStep(p) ==
  \/ p = 0 /\ (Post \/ RootGathers \/ TakeVerdicts \/ Resend \/ RootReturns)
  \/ Receive(p)
  \/ EndUnchecked(p)
  \/ CheckByDraw(p)
  \/ Check(p)
  \/ Decode(p)
  \/ GiveVerdict(p)
  \/ Await(p)
  \/ Decompress(p)

Asked == {m \in Calls \X Receivers : gathered[m[1]][m[2]] = "n"}

BTypeOK ==
  /\ method \in Methods
  /\ eager \in BOOLEAN
  /\ call \in [Ranks -> 0..(NCalls + 1)]
  /\ i \in [Ranks -> Nat]
  /\ posted \in [Calls -> Nat] /\ \A k \in Calls : posted[k] <= Parts(k)
  /\ block \in [Ranks -> [AllBlocks -> Pattern]]
  /\ crc_ok \in [Ranks -> {"y", "n"}]
  /\ gathered \in [Calls -> [Ranks -> {"y", "n", "none"}]]
  /\ mail \subseteq Calls \X Ranks
  /\ resend \in Nat
  /\ held \in [Calls -> [Ranks -> {"unset", "exact", "decompressed", "damaged"}]]
  /\ overload \subseteq Ranks
=============================================================================
