------------------------------ MODULE BcastAbft ------------------------------
(***************************************************************************)
(* MPI_Bcast_abft (src/app/src/abft.c): a broadcast that checks the data   *)
(* with CRC32, repairs it block by block with a Hamming code and, when a   *)
(* block holds a two-bit error, has the root send everything again.        *)
(*                                                                         *)
(* The ranks execute the NCalls broadcasts of a program one after the      *)
(* other, call k with root Root[k].  Nothing synchronises them but the     *)
(* messages of the broadcasts themselves.                                  *)
(***************************************************************************)
EXTENDS Integers, FiniteSets, Secded

CONSTANTS
  Procs,         \* number of ranks
  NCalls,        \* broadcasts the program makes
  Root,          \* root of each of them
  DataBytes,     \* size of the buffer in bytes
  MaxFlips,      \* bits that may be flipped in a block and its Hamming code
  CrcFlips,      \* TRUE \in CrcFlips: the checksum itself may arrive wrong
  ResendFlips,   \* bits that may be flipped in a block of the second copy
  Eager          \* Eager[k]: sends of call k return at once, without waiting for
                 \* the receiver (MPI decides by the size of the message)

Ranks == 0..(Procs - 1)
Calls == 1..NCalls

ASSUME BcastAssumption ==
  /\ Procs \in Nat \ {0}
  /\ NCalls \in Nat
  /\ Root \in [Calls -> Ranks]
  /\ DataBytes \in Nat \ {0}
  /\ MaxFlips \in Nat
  /\ CrcFlips \subseteq BOOLEAN /\ CrcFlips # {}
  /\ ResendFlips \in Nat
  /\ Eager \in [Calls -> BOOLEAN]

Blocks == 0..(bs_num(DataBytes) - 1)

\* The root broadcasts, in this order: the data, the crc, the lengths r[] of
\* the Hamming codes, then the code of every block.
DataStage == 0
CrcStage  == 1
RStage    == 2
CodeStage(b) == 3 + b
Stages == 3 + bs_num(DataBytes)

VARIABLES
  call,       \* call[p]: the broadcast rank p executes, NCalls + 1 at the end
  pc,         \* pc[p]: where in it
  i,          \* i[p]: counter of the loop p is in
  posted,     \* posted[k]: broadcasts of call k its root has made
  block,      \* block[p][b]: wrong bits in p's copy of block b and of its code
  crc,        \* crc[p]: p holds the crc the root computed
  crc_ok,     \* crc_ok[p]: p's verdict
  gathered,   \* gathered[k][p]: the verdict p gave to MPI_Gather of call k
  mail,       \* copies sent again and not received yet
  buffer,     \* buffer[k][p]: what p's buffer of call k holds
  overload    \* overload[k]: ranks that received more wrong bits than the
              \* Hamming code can tell (history)

vars == <<call, pc, i, posted, block, crc, crc_ok, gathered, mail, buffer,
          overload>>

\* Mutated form of Resent: the tag counts the ranks from 1.
ResentTagOff(from, to, k) ==
  [src |-> from, dst |-> to, tag |-> to + 1, call |-> k]

\* The resent data of call k: MPI_Send(data_bits, ..., to, tag = to)
Resent(from, to, k) == [src |-> from, dst |-> to, tag |-> to, call |-> k]
Message == [src : Ranks, dst : Ranks, tag : Ranks, call : Calls]

Running(p) == call[p] \in Calls
MyRoot(p) == Root[call[p]]
IsRoot(p) == p = MyRoot(p)
At(p, l) == Running(p) /\ pc[p] = l

AllIntact == [b \in Blocks |-> Intact]
Clean(p) == \A b \in Blocks : block[p][b].data = 0
GoTo(p, l) == pc' = [pc EXCEPT ![p] = l]
SetI(p, n) == i' = [i EXCEPT ![p] = n]

-----------------------------------------------------------------------------
Init ==
  /\ call = [p \in Ranks |-> 1]
  /\ pc = [p \in Ranks |-> "enter"]
  /\ i = [p \in Ranks |-> 0]
  /\ posted = [k \in Calls |-> 0]
  /\ block = [p \in Ranks |-> AllIntact]
  /\ crc = [p \in Ranks |-> TRUE]
  /\ crc_ok = [p \in Ranks |-> "y"]
  /\ gathered = [k \in Calls |-> [p \in Ranks |-> "none"]]
  /\ mail = {}
  /\ buffer = [k \in Calls |->
                [p \in Ranks |-> IF p = Root[k] THEN "exact" ELSE "unset"]]
  /\ overload = [k \in Calls |-> {}]

\* Allocation of data_bits; the root copies its buffer into it, computes the
\* crc and encodes every block.
Enter(p) ==
  /\ At(p, "enter")
  /\ GoTo(p, IF IsRoot(p) THEN "post" ELSE "recv")
  /\ SetI(p, 0)
  /\ block' = [block EXCEPT ![p] = AllIntact]
  /\ crc' = [crc EXCEPT ![p] = TRUE]
  /\ crc_ok' = [crc_ok EXCEPT ![p] = "y"]
  /\ UNCHANGED <<call, posted, gathered, mail, buffer, overload>>

-----------------------------------------------------------------------------
(* The broadcasts of the data, the crc and the Hamming codes. *)

\* The root makes the next of its MPI_Bcast calls.
Post(p) ==
  /\ At(p, "post")
  /\ \/ Eager[call[p]]
     \/ \A q \in Ranks \ {p} :
          call[q] = call[p] /\ pc[q] = "recv" /\ i[q] = i[p]
  /\ posted' = [posted EXCEPT ![call[p]] = i[p] + 1]
  /\ SetI(p, i[p] + 1)
  /\ GoTo(p, IF i[p] + 1 = Stages THEN "gather" ELSE "post")
  /\ UNCHANGED <<call, block, crc, crc_ok, gathered, mail, buffer, overload>>

\* A receiver returns from the broadcast of stage s.
Receives(p, s) ==
  /\ At(p, "recv")
  /\ i[p] = s
  /\ s < posted[call[p]]
  /\ SetI(p, s + 1)
  /\ GoTo(p, IF s + 1 = Stages THEN "check" ELSE "recv")
  /\ UNCHANGED <<call, posted, crc_ok, gathered, mail, buffer>>

\* Records that p got a block with more than two wrong bits.
NoteOverload(p, copy) ==
  overload' = IF \E b \in Blocks : Weight(copy[b]) > 2
              THEN [overload EXCEPT ![call[p]] = @ \cup {p}]
              ELSE overload

RecvData(p) ==
  \E flips \in [Blocks -> 0..MaxFlips] :
    LET copy == [b \in Blocks |-> [data |-> flips[b], code |-> 0]]
    IN  /\ Receives(p, DataStage)
        /\ block' = [block EXCEPT ![p] = copy]
        /\ NoteOverload(p, copy)
        /\ UNCHANGED crc

RecvCrc(p) ==
  /\ Receives(p, CrcStage)
  /\ \E wrong \in CrcFlips : crc' = [crc EXCEPT ![p] = ~wrong]
  /\ UNCHANGED <<block, overload>>

RecvR(p) ==
  /\ Receives(p, RStage)
  /\ UNCHANGED <<block, crc, overload>>

RecvCode(p, b) ==
  \E n \in 0..(MaxFlips - block[p][b].data) :
    LET copy == [block[p] EXCEPT ![b].code = n]
    IN  /\ Receives(p, CodeStage(b))
        /\ block' = [block EXCEPT ![p] = copy]
        /\ NoteOverload(p, copy)
        /\ UNCHANGED crc

-----------------------------------------------------------------------------
(* Verdict of a receiver. *)

\* Mutated form of CrcPasses: crc_check is not computed from the data received.
CrcNotRecomputed(p) == crc[p]

\* crc == crc_check.  The checksum is taken to tell damaged data from the
\* root's (CRC32 does for any three wrong bits in buffers of these sizes).
CrcPasses(p) == crc[p] /\ Clean(p)

\* A passing crc ends the checks; otherwise the blocks are decoded in turn.
Check(p) ==
  /\ At(p, "check")
  /\ GoTo(p, IF CrcPasses(p) THEN "gather" ELSE "decode")
  /\ SetI(p, 0)
  /\ crc_ok' = [crc_ok EXCEPT ![p] = "y"]
  /\ UNCHANGED <<call, posted, block, crc, gathered, mail, buffer, overload>>

\* hamming_decode of the next block; the first two-bit error ends the loop.
Decode(p) ==
  /\ At(p, "decode")
  /\ \E o \in Outcomes(block[p][i[p]]) :
       /\ block' = [block EXCEPT ![p][i[p]] = o.left]
       /\ crc_ok' = [crc_ok EXCEPT ![p] = IF o.type = TwoBit THEN "n" ELSE @]
       /\ GoTo(p, IF o.type = TwoBit \/ i[p] + 1 \notin Blocks
                  THEN "gather" ELSE "decode")
  /\ SetI(p, i[p] + 1)
  /\ UNCHANGED <<call, posted, crc, gathered, mail, buffer, overload>>

\* MPI_Gather on a receiver, then the test whether the root will send again.
GiveVerdict(p) ==
  /\ At(p, "gather")
  /\ ~IsRoot(p)
  /\ \/ Eager[call[p]]
     \/ call[MyRoot(p)] = call[p] /\ pc[MyRoot(p)] = "gather"
  /\ gathered' = [gathered EXCEPT ![call[p]][p] = crc_ok[p]]
  /\ GoTo(p, IF crc_ok[p] = "n" THEN "await" ELSE "commit")
  /\ UNCHANGED <<call, i, posted, block, crc, crc_ok, mail, buffer, overload>>

\* Mutated form of AllVerdictsIn: the root reads the first verdict it gets.
OneVerdictIn(p) == \E q \in Ranks \ {p} : gathered[call[p]][q] # "none"

AllVerdictsIn(p) == \A q \in Ranks \ {p} : gathered[call[p]][q] # "none"

\* MPI_Gather on the root returns when every rank has given its verdict.
TakeVerdicts(p) ==
  /\ At(p, "gather")
  /\ IsRoot(p)
  /\ AllVerdictsIn(p)
  /\ gathered' = [gathered EXCEPT ![call[p]][p] = crc_ok[p]]
  /\ GoTo(p, "resend")
  /\ SetI(p, 0)
  /\ UNCHANGED <<call, posted, block, crc, crc_ok, mail, buffer, overload>>

-----------------------------------------------------------------------------
(* The second copy. *)

\* Mutated forms of WantsCopy: every rank gets a copy when one asks for it; the
\* loop over the ranks ends one too early.
WantsCopyIfAny(p, q) == q # p /\ \E x \in Ranks : gathered[call[p]][x] = "n"
WantsCopyButLast(p, q) ==
  q # p /\ q + 1 # Procs /\ gathered[call[p]][q] = "n"

WantsCopy(p, q) == q # p /\ gathered[call[p]][q] = "n"

\* One iteration of the root's loop over the ranks.
Resend(p) ==
  /\ At(p, "resend")
  /\ i[p] \in Ranks
  /\ IF WantsCopy(p, i[p])
     THEN /\ Eager[call[p]] \/ (At(i[p], "await") /\ MyRoot(i[p]) = p)
          /\ mail' = mail \cup {Resent(p, i[p], call[p])}
     ELSE mail' = mail
  /\ SetI(p, i[p] + 1)
  /\ UNCHANGED <<call, pc, posted, block, crc, crc_ok, gathered, buffer,
                 overload>>

\* The root's loop is over and the call returns.
RootReturns(p) ==
  /\ At(p, "resend")
  /\ i[p] \notin Ranks
  /\ call' = [call EXCEPT ![p] = @ + 1]
  /\ GoTo(p, "enter")
  /\ UNCHANGED <<i, posted, block, crc, crc_ok, gathered, mail, buffer,
                 overload>>

\* MPI_Recv(source = root, tag = rank) matches the oldest such message.
Matches(m, p) == m.src = MyRoot(p) /\ m.dst = p /\ m.tag = p

\* The copy is not checked again.  A copy that belongs to another call would
\* differ from this call's data in every block.
Await(p) ==
  /\ At(p, "await")
  /\ \E m \in mail :
       /\ Matches(m, p)
       /\ \A other \in mail : Matches(other, p) => m.call <= other.call
       /\ mail' = mail \ {m}
       /\ \E flips \in [Blocks -> 0..ResendFlips] :
            LET wrong(b) == IF m.call = call[p] THEN flips[b] ELSE flips[b] + 1
            IN  /\ block' = [block EXCEPT ![p] =
                               [b \in Blocks |-> [block[p][b] EXCEPT !.data = wrong(b)]]]
                /\ overload' = IF \E b \in Blocks : flips[b] > 0
                               THEN [overload EXCEPT ![call[p]] = @ \cup {p}]
                               ELSE overload
  /\ GoTo(p, "commit")
  /\ UNCHANGED <<call, i, posted, crc, crc_ok, gathered, buffer>>

\* memcpy of data_bits into the caller's buffer; the call returns.
Commit(p) ==
  /\ At(p, "commit")
  /\ buffer' = [buffer EXCEPT ![call[p]][p] =
                  IF Clean(p) THEN "exact" ELSE "corrupt"]
  /\ call' = [call EXCEPT ![p] = @ + 1]
  /\ GoTo(p, "enter")
  /\ UNCHANGED <<i, posted, block, crc, crc_ok, gathered, mail, overload>>

-----------------------------------------------------------------------------
Receive(p) == RecvData(p) \/ RecvCrc(p) \/ RecvR(p) \/ \E b \in Blocks : RecvCode(p, b)

Step(p) ==
  \/ Enter(p)
  \/ Post(p)
  \/ Receive(p)
  \/ Check(p)
  \/ Decode(p)
  \/ GiveVerdict(p)
  \/ TakeVerdicts(p)
  \/ Resend(p)
  \/ RootReturns(p)
  \/ Await(p)
  \/ Commit(p)

AllReturned == \A p \in Ranks : call[p] = NCalls + 1

Terminated == AllReturned /\ UNCHANGED vars

Next == (\E p \in Ranks : Step(p)) \/ Terminated

Spec == Init /\ [][Next]_vars

\* The MPI library and the operating system let every rank run.
FairSpec == Spec /\ \A p \in Ranks : WF_vars(Step(p))

-----------------------------------------------------------------------------
(* Properties. *)

Verdict == {"y", "n"}
Label == {"enter", "post", "recv", "check", "decode", "gather", "resend",
          "await", "commit"}

\* Every variable keeps the type its C counterpart has; loop counters stay
\* within the bounds of their loops.
TypeOK ==
  /\ call \in [Ranks -> 1..(NCalls + 1)]
  /\ pc \in [Ranks -> Label]
  /\ i \in [Ranks -> Nat]
  /\ posted \in [Calls -> 0..Stages]
  /\ block \in [Ranks -> [Blocks -> Pattern]]
  /\ crc \in [Ranks -> BOOLEAN]
  /\ crc_ok \in [Ranks -> Verdict]
  /\ gathered \in [Calls -> [Ranks -> Verdict \cup {"none"}]]
  /\ mail \subseteq Message
  /\ buffer \in [Calls -> [Ranks -> {"unset", "exact", "corrupt"}]]
  /\ overload \in [Calls -> SUBSET Ranks]

\* A rank only ends up with data that differ from the root's when it received
\* a block with more than two wrong bits or a damaged second copy: whatever
\* else the wires do to data, code and crc, the CRC, the decoding, the verdict
\* and the second copy put it right.
NoSilentCorruption ==
  \A k \in Calls, p \in Ranks : buffer[k][p] = "corrupt" => p \in overload[k]

\* A second copy in flight is one its receiver is waiting for, in the same
\* call: consecutive broadcasts use the same source and tag, and no copy is
\* ever left for a later call to pick up, nor sent to a rank that will not
\* receive it.
ResendIsAwaited ==
  \A m \in mail : /\ m.src = Root[m.call]
                  /\ call[m.dst] = m.call
                  /\ pc[m.dst] = "await"

\* When the root has returned from a broadcast, and may overwrite its buffer,
\* no rank depends on it any more: each has what it will copy, or its second
\* copy is on the way.
RootOwesNothing ==
  \A k \in Calls : call[Root[k]] > k =>
    \A p \in Ranks \ {Root[k]} :
      \/ call[p] > k
      \/ /\ call[p] = k
         /\ \/ pc[p] = "commit"
            \/ pc[p] = "await" /\ Resent(Root[k], p, k) \in mail

\* Every rank returns from every broadcast, whatever the wires do, with
\* eager and with synchronous sends.
EveryoneReturns == <>AllReturned

\* src/README.md:5 "CRC32 is used to verify the integrity of communication
\* data": what is copied into the buffer matches the crc the rank received.
CommittedMatchesCrc ==
  \A p \in Ranks : At(p, "commit") /\ crc[p] => Clean(p)

\* The broadcast seen from outside: module ReliableBcast.
Published == {k \in Calls : posted[k] > 0}
Answered == [k \in Calls |->
              {p \in Ranks \ {Root[k]} : gathered[k][p] # "none"}]
RootLeft == {k \in Calls : call[Root[k]] > k}

Reliable == INSTANCE ReliableBcast WITH
              published <- Published, answered <- Answered, left <- RootLeft

\* MPI_Bcast_abft implements the broadcast ReliableBcast describes.
ImplementsReliableBcast == Reliable!Spec
=============================================================================
