------------------------------- MODULE PingPong -------------------------------
(***************************************************************************)
(* src/app/src/pingpong/pingpong_double_comp.c: two ranks pass the (mostly *)
(* compressed) data back and forth and count the transfers.  With CT 8, 9  *)
(* and 10 the receiver checks the data and answers "y" or "n"; after an    *)
(* "n" both ranks undo their count and the transfer is made again.         *)
(* pingpong_float_comp.c is the same program for floats.                   *)
(*                                                                         *)
(* The wires deliver everything intact.  The receiver itself damages what  *)
(* it has received, by an amount that depends on the size of the data.     *)
(***************************************************************************)
EXTENDS Integers, Sequences, Secded

CONSTANTS
  LIMIT,       \* PING_PONG_LIMIT: 10000 in the program
  Transfers,   \* arguments of the program: CT and the bytes one transfer has
  Eagers,      \* TRUE \in Eagers: sends may return before they are received
  MaxResent    \* bound: resent is counted up to here

Ranks == {0, 1}
Partner(p) == (p + 1) % 2

ASSUME PingPongAssumption ==
  /\ LIMIT \in Nat \ {0}
  /\ Transfers \subseteq [ct : Nat, bytes : Nat \ {0}]
  /\ Eagers \subseteq BOOLEAN
  /\ MaxResent \in Nat

VARIABLES
  transfer,   \* CT and bytes of this execution
  eager,      \* sends of this execution return at once
  pc,         \* pc[p]: where rank p is
  i,          \* i[p]: loop counter of p
  count,      \* count[p]: p's ping_pong_count
  numbers,    \* numbers[p]: counts sent to p and not received (tag 0)
  parts,      \* parts[p][t]: messages with tag t on their way to p
  answers,    \* answers[p]: verdicts on their way to p (tag 100)
  source,     \* source[p]: what p last received, as it was sent
  block,      \* block[p][b]: bits of it that are wrong since
  crc_ok,     \* crc_ok[p]
  resent,     \* resent[p], up to MaxResent
  shown,      \* shown[p]: times p has decompressed and shown the error
  overload    \* a block has had more than two wrong bits (history)

vars == <<transfer, eager, pc, i, count, numbers, parts, answers, source,
          block, crc_ok, resent, shown, overload>>

mailvars == <<numbers, parts, answers>>
datavars == <<source, block, overload>>

-----------------------------------------------------------------------------
CT == transfer.ct
Bytes == transfer.bytes

\* transfers the receiver answers
Answered == CT \in {8, 9, 10}

Blocks == 0..((IF CT = 10 THEN bs_num(Bytes) ELSE 1) - 1)

\* The tags of the messages of one transfer, in order.  4 and unknown methods
\* send nothing but the count.
CodeTags == [b \in 1..bs_num(Bytes) |-> 1000 + b]
Tags ==
  CASE CT = 0  -> <<3>>
    [] CT = 1  -> <<1, 2>>
    [] CT = 5  -> <<4>>
    [] CT = 6  -> <<5>>
    [] CT = 7  -> <<7>>
    [] CT = 8  -> <<4, 32>>
    [] CT = 9  -> <<9, 32>>
    [] CT = 10 -> <<10, 32, 1000>> \o CodeTags
    [] CT = 11 -> <<11>>
    [] OTHER   -> << >>

TagSet == {Tags[k] : k \in 1..Len(Tags)}

\* Bits the receiver flips: bytes*8/to, with to = 1/BER bits = 8 * MaxBlock
\* (BER is 1e-6 here and MaxBlock 125000).
Errors == IF CT \in {8, 10} THEN Bytes \div MaxBlock ELSE 0

\* Mutated forms of Draws: the number drawn has no upper end; it is compared
\* with bytes*8 including the end.
DrawsFromAll == BOOLEAN
DrawsToTheEnd == IF Bytes >= MaxBlock THEN {TRUE} ELSE BOOLEAN

\* Whether a number drawn from 0..to is below bytes*8 (CT 9).
Draws == IF Bytes > MaxBlock THEN {TRUE} ELSE BOOLEAN

AllIntact == [b \in Blocks |-> Intact]
Clean(p) == \A b \in Blocks : block[p][b].data = 0

\* What p's data are, compared with the data the program started with.
Held(p) == IF source[p] = "exact" /\ Clean(p) THEN "exact" ELSE "corrupt"

At(p, l) == pc[p] = l
GoTo(p, l) == pc' = [pc EXCEPT ![p] = l]
SetI(p, n) == i' = [i EXCEPT ![p] = n]

\* A send returns at once, or when the partner waits for that message.
CanSend(p, l) == eager \/ pc[Partner(p)] = l

-----------------------------------------------------------------------------
Init ==
  /\ transfer \in Transfers
  /\ eager \in Eagers
  /\ pc = [p \in Ranks |-> "loop"]
  /\ i = [p \in Ranks |-> 0]
  /\ count = [p \in Ranks |-> 0]
  /\ numbers = [p \in Ranks |-> << >>]
  /\ parts = [p \in Ranks |-> [t \in TagSet |-> << >>]]
  /\ answers = [p \in Ranks |-> << >>]
  /\ source = [p \in Ranks |-> "exact"]
  /\ block = [p \in Ranks |-> AllIntact]
  /\ crc_ok = [p \in Ranks |-> "y"]
  /\ resent = [p \in Ranks |-> 0]
  /\ shown = [p \in Ranks |-> 0]
  /\ overload = FALSE

\* Mutated form of Continues: the loop runs once more at the limit.
ContinuesAtLimit(p) == count[p] <= LIMIT

Continues(p) == count[p] < LIMIT

\* The test of the loop and the choice of the role.
Serve(p) ==
  /\ At(p, "loop")
  /\ Continues(p)
  /\ p = count[p] % 2
  /\ count' = [count EXCEPT ![p] = @ + 1]
  /\ GoTo(p, "number")
  /\ UNCHANGED <<transfer, eager, i, mailvars, datavars, crc_ok, resent, shown>>

Listen(p) ==
  /\ At(p, "loop")
  /\ Continues(p)
  /\ p # count[p] % 2
  /\ GoTo(p, "listen")
  /\ UNCHANGED <<transfer, eager, i, count, mailvars, datavars, crc_ok, resent,
                 shown>>

Leave(p) ==
  /\ At(p, "loop")
  /\ ~Continues(p)
  /\ GoTo(p, "done")
  /\ UNCHANGED <<transfer, eager, i, count, mailvars, datavars, crc_ok, resent,
                 shown>>

-----------------------------------------------------------------------------
(* The sender. *)

\* where the sender goes after its last message
AfterSend == IF Answered THEN "await" ELSE "loop"

SendNumber(p) ==
  /\ At(p, "number")
  /\ CanSend(p, "listen")
  /\ numbers' = [numbers EXCEPT ![Partner(p)] = Append(@, count[p])]
  /\ SetI(p, 1)
  /\ GoTo(p, IF Tags = << >> THEN AfterSend ELSE "send")
  /\ UNCHANGED <<transfer, eager, count, parts, answers, datavars, crc_ok,
                 resent, shown>>

SendPart(p) ==
  /\ At(p, "send")
  /\ CanSend(p, "recv") /\ (~eager => i[Partner(p)] = i[p])
  /\ parts' = [parts EXCEPT ![Partner(p)][Tags[i[p]]] = Append(@, Held(p))]
  /\ SetI(p, i[p] + 1)
  /\ GoTo(p, IF i[p] = Len(Tags) THEN AfterSend ELSE "send")
  /\ UNCHANGED <<transfer, eager, count, numbers, answers, datavars, crc_ok,
                 resent, shown>>

\* Mutated form of Undone: the sender does not take its count back.
NotUndone(p, verdict) == count[p]

\* ping_pong_count after the verdict
Undone(p, verdict) == IF verdict = "n" THEN count[p] - 1 ELSE count[p]

GetAnswer(p) ==
  /\ At(p, "await")
  /\ answers[p] # << >>
  /\ answers' = [answers EXCEPT ![p] = Tail(@)]
  /\ crc_ok' = [crc_ok EXCEPT ![p] = Head(answers[p])]
  /\ count' = [count EXCEPT ![p] = Undone(p, Head(answers[p]))]
  /\ GoTo(p, "loop")
  /\ UNCHANGED <<transfer, eager, i, numbers, parts, datavars, resent, shown>>

-----------------------------------------------------------------------------
(* The receiver. *)

\* where the receiver goes after its last message
AfterRecv ==
  IF ~Answered THEN "show" ELSE IF Errors > 0 THEN "flip" ELSE "check"

RecvNumber(p) ==
  /\ At(p, "listen")
  /\ numbers[p] # << >>
  /\ numbers' = [numbers EXCEPT ![p] = Tail(@)]
  /\ count' = [count EXCEPT ![p] = Head(numbers[p])]
  /\ SetI(p, 1)
  /\ GoTo(p, IF Tags = << >> THEN AfterRecv ELSE "recv")
  /\ UNCHANGED <<transfer, eager, parts, answers, datavars, crc_ok, resent,
                 shown>>

\* The first part is the data; with the last one the receiver starts to flip.
RecvPart(p) ==
  /\ At(p, "recv")
  /\ LET t == Tags[i[p]]
         last == i[p] = Len(Tags)
     IN  /\ parts[p][t] # << >>
         /\ parts' = [parts EXCEPT ![p][t] = Tail(@)]
         /\ IF i[p] = 1
            THEN /\ source' = [source EXCEPT ![p] = Head(parts[p][t])]
                 /\ block' = [block EXCEPT ![p] = AllIntact]
            ELSE UNCHANGED <<source, block>>
         /\ SetI(p, IF last THEN Errors ELSE i[p] + 1)
         /\ GoTo(p, IF last THEN AfterRecv ELSE "recv")
  /\ UNCHANGED <<transfer, eager, count, numbers, answers, crc_ok, resent,
                 shown, overload>>

\* One bit_flip(data_bits, bytes): any bit, one flipped before included.
FlipBit(p) ==
  /\ At(p, "flip")
  /\ \E b \in Blocks : \E wrong \in DataToggled(block[p][b]) :
       /\ block' = [block EXCEPT ![p][b] = wrong]
       /\ overload' = (overload \/ (CT = 10 /\ Weight(wrong) > 2))
  /\ SetI(p, i[p] - 1)
  /\ GoTo(p, IF i[p] = 1 THEN "check" ELSE "flip")
  /\ UNCHANGED <<transfer, eager, count, mailvars, source, crc_ok, resent,
                 shown>>

\* Mutated form of Reject: the receiver keeps the count of what it rejects.
RejectKeepsCount(p) ==
  /\ crc_ok' = [crc_ok EXCEPT ![p] = "n"]
  /\ resent' = [resent EXCEPT ![p] = IF @ < MaxResent THEN @ + 1 ELSE @]
  /\ UNCHANGED count

Reject(p) ==
  /\ crc_ok' = [crc_ok EXCEPT ![p] = "n"]
  /\ count' = [count EXCEPT ![p] = @ - 1]
  /\ resent' = [resent EXCEPT ![p] = IF @ < MaxResent THEN @ + 1 ELSE @]

Accept(p) ==
  /\ crc_ok' = [crc_ok EXCEPT ![p] = "y"]
  /\ UNCHANGED <<count, resent>>

\* crc # crc_check where bits have been flipped.  The checksum is taken to
\* tell every damage.
CrcFails(p) == ~Clean(p)

\* CT 8 and 10: the crc of the damaged data is compared with the sender's.
\* With CT 10 a difference is the beginning of the repair.
CheckCrc(p) ==
  /\ At(p, "check")
  /\ CT \in {8, 10}
  /\ IF CrcFails(p) /\ CT = 8 THEN Reject(p) ELSE Accept(p)
  /\ SetI(p, 0)
  /\ GoTo(p, IF CrcFails(p) /\ CT = 10 THEN "decode" ELSE "answer")
  /\ UNCHANGED <<transfer, eager, mailvars, datavars, shown>>

\* CT 9: crc_check is set to 0 when the number drawn says so.
CheckByDraw(p, fails) ==
  /\ At(p, "check")
  /\ CT = 9
  /\ fails \in Draws
  /\ IF fails THEN Reject(p) ELSE Accept(p)
  /\ GoTo(p, "answer")
  /\ UNCHANGED <<transfer, eager, i, mailvars, datavars, shown>>

\* hamming_decode of the next block; the first two-bit error ends the loop.
Decode(p) ==
  /\ At(p, "decode")
  /\ \E o \in Outcomes(block[p][i[p]]) :
       /\ block' = [block EXCEPT ![p][i[p]] = o.left]
       /\ IF o.type = TwoBit
          THEN Reject(p)
          ELSE UNCHANGED <<crc_ok, count, resent>>
       /\ GoTo(p, IF o.type = TwoBit \/ i[p] + 1 \notin Blocks
                  THEN "answer" ELSE "decode")
  /\ SetI(p, i[p] + 1)
  /\ UNCHANGED <<transfer, eager, mailvars, source, shown, overload>>

Answer(p) ==
  /\ At(p, "answer")
  /\ CanSend(p, "await")
  /\ answers' = [answers EXCEPT ![Partner(p)] = Append(@, crc_ok[p])]
  /\ GoTo(p, "show")
  /\ UNCHANGED <<transfer, eager, i, count, numbers, parts, datavars, crc_ok,
                 resent, shown>>

\* Mutated form of IsLast: the test counts from 0.
IsLastFromZero(p) == count[p] = LIMIT - 1

IsLast(p) == count[p] = LIMIT

\* With the last number the receiver decompresses and shows the error.
ShowError(p) ==
  /\ At(p, "show")
  /\ shown' = [shown EXCEPT ![p] = IF IsLast(p) THEN @ + 1 ELSE @]
  /\ GoTo(p, "loop")
  /\ UNCHANGED <<transfer, eager, i, count, mailvars, datavars, crc_ok, resent>>

-----------------------------------------------------------------------------
Step(p) ==
  \/ Serve(p) \/ Listen(p) \/ Leave(p)
  \/ SendNumber(p) \/ SendPart(p) \/ GetAnswer(p)
  \/ RecvNumber(p) \/ RecvPart(p) \/ FlipBit(p)
  \/ CheckCrc(p)
  \/ \E fails \in BOOLEAN : CheckByDraw(p, fails)
  \/ Decode(p) \/ Answer(p) \/ ShowError(p)

AllDone == \A p \in Ranks : pc[p] = "done"

Terminated == AllDone /\ UNCHANGED vars

Next == (\E p \in Ranks : Step(p)) \/ Terminated

Spec == Init /\ [][Next]_vars

\* Both ranks run; a number drawn again and again is not always too small.
FairSpec ==
  /\ Spec
  /\ \A p \in Ranks : WF_vars(Step(p)) /\ SF_vars(CheckByDraw(p, FALSE))

-----------------------------------------------------------------------------
(* Properties. *)

Label == {"loop", "number", "send", "await", "listen", "recv", "flip", "check",
          "decode", "answer", "show", "done"}
Holds == {"exact", "corrupt"}
Verdict == {"y", "n"}

\* Every variable has the type of its C counterpart; the count stays within
\* the limit of the loop.
TypeOK ==
  /\ transfer \in Transfers
  /\ eager \in BOOLEAN
  /\ pc \in [Ranks -> Label]
  /\ i \in [Ranks -> Nat]
  /\ count \in [Ranks -> 0..LIMIT]
  /\ numbers \in [Ranks -> Seq(0..LIMIT)]
  /\ parts \in [Ranks -> [TagSet -> Seq(Holds)]]
  /\ answers \in [Ranks -> Seq(Verdict)]
  /\ source \in [Ranks -> Holds]
  /\ block \in [Ranks -> [Blocks -> Pattern]]
  /\ crc_ok \in [Ranks -> Verdict]
  /\ resent \in [Ranks -> 0..MaxResent]
  /\ shown \in [Ranks -> Nat]
  /\ overload \in BOOLEAN

\* p takes part in a transfer that is not settled for it
InTransfer(p) ==
  pc[p] \in {"number", "send", "await", "recv", "flip", "check", "decode"}

\* transfers p knows to be settled
Settled(p) == IF InTransfer(p) THEN count[p] - 1 ELSE count[p]

Passed == IF Settled(0) > Settled(1) THEN Settled(0) ELSE Settled(1)

\* a transfer to p has messages p has not received
UnderWay(p) == numbers[p] # << >> \/ \E t \in TagSet : parts[p][t] # << >>

\* Each rank picks its role from its own count, and undoes it on its own.  The
\* roles never collide: the ranks never both send, nor both wait for a count
\* nobody has sent; a transfer has only begun when nothing of one in the other
\* direction is left, and no tag ever has two messages to choose from.
RolesInStep ==
  /\ ~(\A p \in Ranks : pc[p] \in {"number", "send"})
  /\ (\A p \in Ranks : pc[p] = "listen") => \E p \in Ranks : numbers[p] # << >>
  /\ ~(\A p \in Ranks : UnderWay(p))
  /\ \A p \in Ranks :
       /\ Len(numbers[p]) <= 1
       /\ Len(answers[p]) <= 1
       /\ \A t \in TagSet : Len(parts[p][t]) <= 1

\* The receiver damages its own copy, and keeps the damage when it rejects a
\* transfer: damaged data are neither sent on nor shown, unless one block had
\* more than two wrong bits.
DamageIsNotPassedOn ==
  overload \/
    \A p \in Ranks :
      /\ \A t \in TagSet : \A k \in 1..Len(parts[p][t]) : parts[p][t][k] = "exact"
      /\ pc[p] = "show" /\ count[p] = LIMIT => Held(p) = "exact"

\* An odd number of flipped bits never cancels (CT 8), and with more than
\* MaxBlock bytes the number drawn is always too small (CT 9).
Hopeless ==
  \/ CT = 8 /\ Errors % 2 = 1
  \/ CT = 9 /\ Bytes > MaxBlock

\* The errors grow with the data and without CT 10 nothing repairs them: from
\* one error on, an odd number of them stops the program at the first
\* transfer, which is repeated for ever.
HopelessNeverPasses == Hopeless => Passed = 0

\* one wrong bit is repaired by CT 10
Repairable ==
  \/ ~Answered
  \/ CT = 8 /\ Errors = 0
  \/ CT = 9 /\ Bytes <= MaxBlock
  \/ CT = 10 /\ Errors <= 1

\* Otherwise the two ranks reach the limit and leave the loop.
EndsWhenRepairable == Repairable => <>AllDone

\* The ping-pong seen from outside: module Alternation.
Alternates == INSTANCE Alternation WITH passed <- Passed

\* Whatever is rejected and repeated, the ranks pass the data LIMIT times,
\* alternately, and the right one shows the error, once.
ImplementsAlternation == Alternates!ASpec
=============================================================================
