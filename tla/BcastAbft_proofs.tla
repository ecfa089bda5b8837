--------------------------- MODULE BcastAbft_proofs ---------------------------
(***************************************************************************)
(* Proofs about MPI_Bcast_abft for every number of ranks, calls, blocks    *)
(* and wrong bits, every assignment of roots and both ways of sending:     *)
(* its invariants, and that it implements ReliableBcast, each step of a    *)
(* rank being a step of the abstract broadcast or one that changes nothing *)
(* its callers can see.                                                    *)
(***************************************************************************)
EXTENDS BcastAbft, Secded_proofs, TLAPS

-----------------------------------------------------------------------------
(* The inductive invariant. *)

\* Each label is used by the rank it is meant for, within its loop.
LoopBounds ==
  \A p \in Ranks :
    /\ pc[p] # "enter" => call[p] \in Calls
    /\ pc[p] \in {"post", "resend"} => IsRoot(p)
    /\ pc[p] \in {"recv", "check", "decode", "await", "commit"} => ~IsRoot(p)
    /\ pc[p] = "post" => i[p] < Stages
    /\ pc[p] = "decode" => i[p] \in Blocks
    /\ pc[p] = "resend" => i[p] <= Procs

\* As long as the wires did not do too much, a receiver's blocks can be told
\* from the root's until they are decoded, and equal them afterwards.
Tellable(p) == \A b \in Blocks : Weight(block[p][b]) <= 2

Decoding(p) ==
  \A b \in Blocks : IF b < i[p] THEN block[p][b].data = 0
                                ELSE Weight(block[p][b]) <= 2

DataSound ==
  \A p \in Ranks : call[p] \in Calls /\ p \notin overload[call[p]] =>
    /\ pc[p] \in {"recv", "check"} => Tellable(p)
    /\ pc[p] = "decode" => Decoding(p)
    /\ pc[p] = "gather" /\ ~IsRoot(p) /\ crc_ok[p] = "y" => Clean(p)
    /\ pc[p] = "commit" => Clean(p)

\* The root of call k has dealt with rank q in its loop over the ranks.
Served(k, q) ==
  \/ call[Root[k]] > k
  \/ call[Root[k]] = k /\ pc[Root[k]] = "resend" /\ q < i[Root[k]]

\* q is past call k, or has its data, or waits for a copy under way.
Safe(k, q) ==
  \/ call[q] > k
  \/ call[q] = k /\ pc[q] = "commit"
  \/ call[q] = k /\ pc[q] = "await" /\ Resent(Root[k], q, k) \in mail

Receivers(k) == Ranks \ {Root[k]}

Verdicts ==
  \A k \in Calls : \A q \in Receivers(k) :
    /\ gathered[k][q] = "y" => call[q] > k \/ (call[q] = k /\ pc[q] = "commit")
    /\ gathered[k][q] = "n" /\ ~Served(k, q) => call[q] = k /\ pc[q] = "await"

AllGiven ==
  \A k \in Calls :
    call[Root[k]] = k /\ pc[Root[k]] = "resend" =>
      \A q \in Receivers(k) : gathered[k][q] # "none"

ServedSafe ==
  \A k \in Calls : \A q \in Receivers(k) : Served(k, q) => Safe(k, q)

Copies ==
  \A m \in mail :
    /\ m = Resent(Root[m.call], m.dst, m.call)
    /\ m.dst # m.src
    /\ Served(m.call, m.dst)
    /\ call[m.dst] = m.call
    /\ pc[m.dst] = "await"

IInv ==
  /\ TypeOK
  /\ LoopBounds
  /\ DataSound
  /\ NoSilentCorruption
  /\ Verdicts
  /\ AllGiven
  /\ ServedSafe
  /\ Copies

-----------------------------------------------------------------------------
(* The loops. *)

\* A call broadcasts data, CRC, lengths and at least one code.
LEMMA StagesNat ==
  /\ Stages \in Nat /\ Stages >= 4
  /\ Blocks \subseteq Nat /\ 0 \in Blocks
BY BcastAssumption, BlockCount DEF Stages, Blocks

-----------------------------------------------------------------------------
(* Types and loop bounds. *)

\* The types and bounds hold at the start.
LEMMA InitTypes == Init => TypeOK /\ LoopBounds
<1> SUFFICES ASSUME Init PROVE TypeOK /\ LoopBounds
  OBVIOUS
<1>1. Intact \in Pattern
  BY DEF Intact, Pattern
<1>2. AllIntact \in [Blocks -> Pattern]
  BY <1>1 DEF AllIntact
<1>3. TypeOK
  BY <1>2, BcastAssumption, StagesNat
     DEF Init, TypeOK, Label, Verdict, Calls
<1>4. LoopBounds
  BY DEF Init, LoopBounds
<1> QED
  BY <1>3, <1>4

\* What the four receiving steps have in common.
Received(p) ==
  /\ call[p] \in Calls /\ pc[p] = "recv"
  /\ \E s \in Nat : i' = [i EXCEPT ![p] = s + 1]
  /\ \E l \in {"check", "recv"} : pc' = [pc EXCEPT ![p] = l]
  /\ UNCHANGED <<call, posted, crc_ok, gathered, mail, buffer>>

\* What a receive does, apart from the errors it brings.
LEMMA ReceiveShape ==
  ASSUME NEW p \in Ranks, Receive(p)
  PROVE  Received(p)
<1>1. ASSUME NEW s \in Nat, Receives(p, s)
      PROVE  Received(p)
  BY <1>1 DEF Receives, Received, At, Running, SetI, GoTo
<1>2. CASE RecvData(p)
  BY <1>1, <1>2 DEF RecvData, DataStage
<1>3. CASE RecvCrc(p)
  BY <1>1, <1>3 DEF RecvCrc, CrcStage
<1>4. CASE RecvR(p)
  BY <1>1, <1>4 DEF RecvR, RStage
<1>5. CASE \E b \in Blocks : RecvCode(p, b)
  <2>1. PICK b \in Blocks : RecvCode(p, b)
    BY <1>5
  <2>2. CodeStage(b) \in Nat /\ Receives(p, CodeStage(b))
    BY <2>1, StagesNat DEF RecvCode, CodeStage
  <2> QED
    BY <1>1, <2>2
<1> QED
  BY <1>2, <1>3, <1>4, <1>5 DEF Receive

\* A step of a rank keeps the types and the bounds of its loops.
LEMMA StepTypes ==
  ASSUME TypeOK, LoopBounds, NEW p \in Ranks, Step(p)
  PROVE  TypeOK' /\ LoopBounds'
<1> USE StagesNat, BcastAssumption DEF At, Running, GoTo, SetI
<1>0. /\ NCalls \in Nat /\ Ranks \subseteq Nat /\ Calls \subseteq Nat
      /\ Intact \in Pattern /\ AllIntact \in [Blocks -> Pattern]
  BY DEF Ranks, Calls, Intact, Pattern, AllIntact
<1>1. CASE Enter(p)
  <2>1. TypeOK'
    BY <1>0, <1>1 DEF Enter, TypeOK, Label, Verdict
  <2>2. LoopBounds'
    BY <1>0, <1>1 DEF Enter, TypeOK, LoopBounds, IsRoot, MyRoot
  <2> QED
    BY <2>1, <2>2
<1>2. CASE Post(p)
  <2>1. i[p] \in Nat /\ i[p] + 1 \in 0..Stages /\ call[p] \in Calls
    BY <1>2 DEF Post, TypeOK, LoopBounds
  <2>2. TypeOK'
    BY <1>2, <2>1 DEF Post, TypeOK, Label
  <2>3. LoopBounds'
    <3>1. /\ i' = [i EXCEPT ![p] = i[p] + 1]
          /\ pc' = [pc EXCEPT ![p] = IF i[p] + 1 = Stages THEN "gather" ELSE "post"]
          /\ call' = call /\ pc[p] = "post"
      BY <1>2 DEF Post
    <3>2. i[p] + 1 # Stages => i[p] + 1 < Stages
      BY <2>1
    <3> QED
      BY <2>1, <3>1, <3>2 DEF TypeOK, LoopBounds, IsRoot, MyRoot
  <2> QED
    BY <2>2, <2>3
<1>3. CASE Receive(p)
  <2>1. Received(p)
    BY <1>3, ReceiveShape
  <2>2. block' \in [Ranks -> [Blocks -> Pattern]]
    <3>1. CASE RecvData(p)
      <4>1. PICK flips \in [Blocks -> 0..MaxFlips] :
              block' = [block EXCEPT ![p] =
                          [b \in Blocks |-> [data |-> flips[b], code |-> 0]]]
        BY <3>1 DEF RecvData
      <4>2. [b \in Blocks |-> [data |-> flips[b], code |-> 0]] \in [Blocks -> Pattern]
        BY <1>0 DEF Pattern
      <4> QED
        BY <4>1, <4>2 DEF TypeOK
    <3>2. CASE RecvCrc(p) \/ RecvR(p)
      BY <3>2 DEF RecvCrc, RecvR, TypeOK
    <3>3. ASSUME NEW b \in Blocks, RecvCode(p, b)
          PROVE  block' \in [Ranks -> [Blocks -> Pattern]]
      <4>1. PICK n \in 0..(MaxFlips - block[p][b].data) :
              block' = [block EXCEPT ![p] = [block[p] EXCEPT ![b].code = n]]
        BY <3>3 DEF RecvCode
      <4>2. block[p][b] \in Pattern /\ n \in Nat
        BY DEF TypeOK, Pattern
      <4>3. [block[p][b] EXCEPT !.code = n] \in Pattern
        BY <4>2 DEF Pattern
      <4>4. [block[p] EXCEPT ![b].code = n] \in [Blocks -> Pattern]
        BY <4>3 DEF TypeOK
      <4> QED
        BY <4>1, <4>4 DEF TypeOK
    <3> QED
      BY <1>3, <3>1, <3>2, <3>3 DEF Receive
  <2>3. crc' \in [Ranks -> BOOLEAN]
    BY <1>3 DEF Receive, RecvData, RecvCrc, RecvR, RecvCode, TypeOK
  <2>4. overload' \in [Calls -> SUBSET Ranks]
    <3>1. overload' = overload
            \/ overload' = [overload EXCEPT ![call[p]] = @ \cup {p}]
      BY <1>3 DEF Receive, RecvData, RecvCrc, RecvR, RecvCode, NoteOverload
    <3>2. call[p] \in Calls /\ overload \in [Calls -> SUBSET Ranks]
      BY <2>1 DEF TypeOK, Received
    <3>3. [overload EXCEPT ![call[p]] = @ \cup {p}] \in [Calls -> SUBSET Ranks]
      BY <3>2
    <3> QED
      BY <3>1, <3>2, <3>3
  <2>5. i' \in [Ranks -> Nat] /\ pc' \in [Ranks -> Label]
    BY <2>1 DEF TypeOK, Label, Received
  <2>6. TypeOK'
    BY <2>1, <2>2, <2>3, <2>4, <2>5 DEF TypeOK, Received
  <2>7. LoopBounds'
    BY <2>1 DEF TypeOK, LoopBounds, IsRoot, MyRoot, Received
  <2> QED
    BY <2>6, <2>7
<1>4. CASE Check(p)
  <2>1. TypeOK'
    BY <1>4 DEF Check, TypeOK, Label, Verdict
  <2>2. LoopBounds'
    BY <1>4 DEF Check, TypeOK, LoopBounds, IsRoot, MyRoot
  <2> QED
    BY <2>1, <2>2
<1>5. CASE Decode(p)
  <2>1. i[p] \in Blocks /\ i[p] \in Nat /\ block[p][i[p]] \in Pattern
    BY <1>5 DEF Decode, TypeOK, LoopBounds
  <2>2. PICK o \in Outcomes(block[p][i[p]]) :
          /\ block' = [block EXCEPT ![p][i[p]] = o.left]
          /\ crc_ok' = [crc_ok EXCEPT ![p] = IF o.type = TwoBit THEN "n" ELSE @]
          /\ pc' = [pc EXCEPT ![p] = IF o.type = TwoBit \/ i[p] + 1 \notin Blocks
                                     THEN "gather" ELSE "decode"]
    BY <1>5 DEF Decode
  <2>3. o.left \in Pattern
    BY <2>1, <2>2, OutcomesType
  <2>4. block' \in [Ranks -> [Blocks -> Pattern]]
    BY <2>1, <2>2, <2>3 DEF TypeOK
  <2>5. TypeOK'
    BY <1>5, <2>1, <2>2, <2>4 DEF Decode, TypeOK, Label, Verdict
  <2>6. LoopBounds'
    BY <1>5, <2>1, <2>2 DEF Decode, TypeOK, LoopBounds, IsRoot, MyRoot
  <2> QED
    BY <2>5, <2>6
<1>6. CASE GiveVerdict(p)
  <2>1. TypeOK'
    BY <1>6 DEF GiveVerdict, TypeOK, Label, Verdict
  <2>2. LoopBounds'
    BY <1>6 DEF GiveVerdict, TypeOK, LoopBounds, IsRoot, MyRoot
  <2> QED
    BY <2>1, <2>2
<1>7. CASE TakeVerdicts(p)
  <2>1. TypeOK'
    BY <1>7 DEF TakeVerdicts, TypeOK, Label, Verdict
  <2>2. LoopBounds'
    BY <1>7 DEF TakeVerdicts, TypeOK, LoopBounds, IsRoot, MyRoot
  <2> QED
    BY <2>1, <2>2
<1>8. CASE Resend(p)
  <2>1. mail' \subseteq Message
    BY <1>8 DEF Resend, TypeOK, Resent, Message
  <2>2. TypeOK'
    BY <1>8, <1>0, <2>1 DEF Resend, TypeOK
  <2>3. LoopBounds'
    <3>1. /\ i' = [i EXCEPT ![p] = i[p] + 1] /\ pc[p] = "resend" /\ i[p] \in Ranks
          /\ pc' = pc /\ call' = call
      BY <1>8 DEF Resend
    <3>2. Procs \in Nat \ {0} /\ i \in [Ranks -> Nat] /\ Ranks = 0..(Procs - 1)
      BY BcastAssumption DEF TypeOK, Ranks
    <3>3. i[p] + 1 \in 0..Procs
      BY ONLY <3>1, <3>2
    <3>4. i'[p] <= Procs /\ \A q \in Ranks : q # p => i'[q] = i[q]
      BY ONLY <3>1, <3>2, <3>3
    <3> QED
      BY ONLY <3>1, <3>4, LoopBounds, p \in Ranks DEF LoopBounds, IsRoot, MyRoot
  <2> QED
    BY <2>2, <2>3
<1>9. CASE RootReturns(p)
  <2>1. call[p] + 1 \in 1..(NCalls + 1)
    BY <1>9 DEF RootReturns, Calls
  <2>2. TypeOK'
    BY <1>9, <2>1 DEF RootReturns, TypeOK, Label
  <2>3. LoopBounds'
    BY <1>9 DEF RootReturns, TypeOK, LoopBounds, IsRoot, MyRoot
  <2> QED
    BY <2>2, <2>3
<1>10. CASE Await(p)
  <2>1. /\ mail' \subseteq mail
        /\ \/ overload' = overload
           \/ overload' = [overload EXCEPT ![call[p]] = @ \cup {p}]
    BY <1>10 DEF Await
  <2>2. PICK w \in [Blocks -> Nat] :
          block' = [block EXCEPT ![p] =
                      [b \in Blocks |-> [block[p][b] EXCEPT !.data = w[b]]]]
    <3>1. PICK m \in mail, flips \in [Blocks -> 0..ResendFlips] :
            block' = [block EXCEPT ![p] =
              [b \in Blocks |-> [block[p][b] EXCEPT !.data =
                 IF m.call = call[p] THEN flips[b] ELSE flips[b] + 1]]]
      BY <1>10 DEF Await
    <3> WITNESS [b \in Blocks |-> IF m.call = call[p] THEN flips[b] ELSE flips[b] + 1]
                \in [Blocks -> Nat]
    <3> QED
      BY <3>1
  <2>3. [b \in Blocks |-> [block[p][b] EXCEPT !.data = w[b]]] \in [Blocks -> Pattern]
    <3>1. \A b \in Blocks : block[p][b] \in Pattern /\ w[b] \in Nat
      BY DEF TypeOK
    <3>2. \A b \in Blocks : [block[p][b] EXCEPT !.data = w[b]] \in Pattern
      BY <3>1 DEF Pattern
    <3> QED
      BY <3>2
  <2>4. TypeOK'
    BY <1>10, <2>1, <2>2, <2>3 DEF Await, TypeOK, Label
  <2>5. LoopBounds'
    BY <1>10 DEF Await, TypeOK, LoopBounds, IsRoot, MyRoot
  <2> QED
    BY <2>4, <2>5
<1>11. CASE Commit(p)
  <2>1. call[p] + 1 \in 1..(NCalls + 1)
    BY <1>11 DEF Commit, Calls
  <2>2. TypeOK'
    BY <1>11, <2>1 DEF Commit, TypeOK, Label
  <2>3. LoopBounds'
    BY <1>11 DEF Commit, TypeOK, LoopBounds, IsRoot, MyRoot
  <2> QED
    BY <2>2, <2>3
<1> QED
  BY <1>1, <1>2, <1>3, <1>4, <1>5, <1>6, <1>7, <1>8, <1>9, <1>10, <1>11 DEF Step

-----------------------------------------------------------------------------
(* Data. *)

\* A step of p changes nothing private to another rank, and can only add p to
\* the overloaded ranks of a call.
LEMMA Frame ==
  ASSUME TypeOK, LoopBounds, NEW p \in Ranks, Step(p)
  PROVE  /\ \A q \in Ranks \ {p} :
              /\ call'[q] = call[q] /\ pc'[q] = pc[q] /\ i'[q] = i[q]
              /\ block'[q] = block[q] /\ crc_ok'[q] = crc_ok[q]
         /\ \A k \in Calls : /\ overload[k] \subseteq overload'[k]
                             /\ overload'[k] \subseteq overload[k] \cup {p}
         /\ Commit(p) \/ buffer' = buffer
<1> USE DEF At, Running, GoTo, SetI, TypeOK
<1>1. CASE Enter(p) \/ Post(p) \/ Check(p) \/ GiveVerdict(p) \/ TakeVerdicts(p)
  BY <1>1 DEF Enter, Post, Check, GiveVerdict, TakeVerdicts
<1>2. CASE Resend(p) \/ RootReturns(p) \/ Commit(p)
  BY <1>2 DEF Resend, RootReturns, Commit
<1>3. CASE RecvData(p)
  BY <1>3 DEF RecvData, Receives, NoteOverload
<1>4. CASE RecvCrc(p) \/ RecvR(p)
  BY <1>4 DEF RecvCrc, RecvR, Receives
<1>5. CASE \E b \in Blocks : RecvCode(p, b)
  BY <1>5 DEF RecvCode, Receives, NoteOverload
<1>6. CASE Decode(p)
  BY <1>6 DEF Decode
<1>7. CASE Await(p)
  BY <1>7 DEF Await
<1> QED
  BY <1>1, <1>2, <1>3, <1>4, <1>5, <1>6, <1>7 DEF Step, Receive

DataSoundAt(p) ==
  call[p] \in Calls /\ p \notin overload[call[p]] =>
    /\ pc[p] \in {"recv", "check"} => Tellable(p)
    /\ pc[p] = "decode" => Decoding(p)
    /\ pc[p] = "gather" /\ ~IsRoot(p) /\ crc_ok[p] = "y" => Clean(p)
    /\ pc[p] = "commit" => Clean(p)

\* What p's own step does to what p knows of its data.
LEMMA StepSoundAt ==
  ASSUME TypeOK, LoopBounds, Copies, DataSound, NEW p \in Ranks, Step(p)
  PROVE  DataSoundAt(p)'
<1> USE StagesNat, BcastAssumption DEF At, Running, GoTo, SetI
<1>0. /\ DataSoundAt(p)
      /\ Ranks \subseteq Nat /\ Calls \subseteq Nat
  BY DEF DataSound, DataSoundAt, Ranks, Calls
<1>1. CASE Enter(p)
  <2>1. block'[p] = AllIntact /\ pc'[p] \in {"post", "recv"}
    BY <1>1 DEF Enter, TypeOK
  <2>2. \A b \in Blocks : Weight(AllIntact[b]) <= 2
    BY DEF AllIntact, Intact, Weight
  <2> QED
    BY <2>1, <2>2 DEF DataSoundAt, Tellable
<1>2. CASE Post(p)
  <2>1. pc'[p] \in {"post", "gather"} /\ call' = call /\ IsRoot(p)
    BY <1>2 DEF Post, TypeOK, LoopBounds
  <2> QED
    BY <2>1 DEF DataSoundAt, IsRoot, MyRoot
<1>3. CASE Receive(p)
  <2>1. /\ pc'[p] \in {"recv", "check"} /\ pc[p] = "recv"
        /\ call' = call /\ call[p] \in Calls
    BY <1>3, ReceiveShape DEF Received, TypeOK
  <2>2. ASSUME NEW copy, block' = [block EXCEPT ![p] = copy], NoteOverload(p, copy),
               p \notin overload'[call[p]]
        PROVE  Tellable(p)'
    <3>1. \A b \in Blocks : ~(Weight(copy[b]) > 2)
      BY <2>1, <2>2 DEF NoteOverload, TypeOK
    <3>2. block'[p] = copy /\ block' \in [Ranks -> [Blocks -> Pattern]]
      BY <2>2, StepTypes DEF TypeOK
    <3>3. \A b \in Blocks : Weight(copy[b]) \in Nat
      BY <3>2 DEF Weight, Pattern
    <3>4. \A b \in Blocks : Weight(copy[b]) <= 2
      BY <3>1, <3>3
    <3> QED
      BY <3>2, <3>4 DEF Tellable, Weight
  <2>3. CASE RecvData(p)
    BY <2>1, <2>2, <2>3 DEF RecvData, DataSoundAt
  <2>4. CASE RecvCrc(p) \/ RecvR(p)
    BY <1>0, <2>1, <2>4 DEF RecvCrc, RecvR, DataSoundAt, Tellable
  <2>5. CASE \E b \in Blocks : RecvCode(p, b)
    BY <2>1, <2>2, <2>5 DEF RecvCode, DataSoundAt
  <2> QED
    BY <1>3, <2>3, <2>4, <2>5 DEF Receive
<1>4. CASE Check(p)
  <2>1. /\ pc[p] = "check" /\ i'[p] = 0 /\ block' = block
        /\ call' = call /\ overload' = overload
        /\ \/ pc'[p] = "decode"
           \/ pc'[p] = "gather" /\ Clean(p)
    BY <1>4 DEF Check, CrcPasses, TypeOK
  <2>2. Tellable(p) => Decoding(p)'
    <3>1. \A b \in Blocks : b \in Nat /\ ~(b < i'[p])
      BY <2>1
    <3>2. \A b \in Blocks : block'[p][b] = block[p][b]
      BY <2>1
    <3> QED
      BY <3>1, <3>2 DEF Tellable, Decoding, Weight
  <2> QED
    BY <1>0, <2>1, <2>2 DEF DataSoundAt, Clean
<1>5. CASE Decode(p)
  <2>1. /\ i[p] \in Blocks /\ i[p] \in Nat /\ block[p][i[p]] \in Pattern
        /\ pc[p] = "decode" /\ call' = call /\ overload' = overload
        /\ i'[p] = i[p] + 1
    BY <1>5 DEF Decode, TypeOK, LoopBounds
  <2>2. PICK o \in Outcomes(block[p][i[p]]) :
          /\ block' = [block EXCEPT ![p][i[p]] = o.left]
          /\ crc_ok' = [crc_ok EXCEPT ![p] = IF o.type = TwoBit THEN "n" ELSE @]
          /\ pc' = [pc EXCEPT ![p] = IF o.type = TwoBit \/ i[p] + 1 \notin Blocks
                                     THEN "gather" ELSE "decode"]
    BY <1>5 DEF Decode
  <2>3. CASE o.type = TwoBit
    BY <2>1, <2>2, <2>3 DEF DataSoundAt, TypeOK
  <2>4. CASE o.type # TwoBit
    <3> SUFFICES ASSUME call[p] \in Calls, p \notin overload[call[p]]
                 PROVE  /\ pc'[p] = "decode" => Decoding(p)'
                        /\ pc'[p] = "gather" => Clean(p)'
      BY <2>1, <2>2, <2>4 DEF DataSoundAt, TypeOK
    <3>1. Decoding(p)
      BY <1>0, <2>1 DEF DataSoundAt
    <3>2. o.left.data = 0
      BY <2>1, <2>2, <2>4, <3>1, OutcomesRepair DEF Decoding
    <3>3. \A b \in Blocks : block'[p][b] = IF b = i[p] THEN o.left ELSE block[p][b]
      BY <2>1, <2>2 DEF TypeOK
    <3>4. Decoding(p)'
      <4> SUFFICES ASSUME NEW b \in Blocks
                   PROVE  IF b < i[p] + 1 THEN block'[p][b].data = 0
                                          ELSE Weight(block'[p][b]) <= 2
        BY <2>1 DEF Decoding, Weight
      <4>0. b \in Nat /\ i[p] \in Nat
        BY <2>1
      <4>1. b < i[p] + 1 <=> b < i[p] \/ b = i[p]
        BY <4>0, Z3
      <4>2. CASE b = i[p]
        BY <2>1, <3>2, <3>3, <4>2
      <4>3. CASE b # i[p]
        BY <3>1, <3>3, <4>1, <4>3 DEF Decoding
      <4> QED
        BY <4>2, <4>3
    <3>5. i[p] + 1 \notin Blocks => \A b \in Blocks : b < i[p] + 1
      BY <2>1, BcastAssumption, BlockCount DEF Blocks
    <3>6. pc'[p] = "gather" => i[p] + 1 \notin Blocks
      BY <2>2, <2>4 DEF TypeOK
    <3>7. ASSUME pc'[p] = "gather", NEW b \in Blocks
          PROVE  block'[p][b].data = 0
      <4>1. b < i'[p]
        BY <2>1, <3>5, <3>6, <3>7
      <4> QED
        BY <3>4, <4>1 DEF Decoding
    <3>8. pc'[p] = "gather" => Clean(p)'
      BY <3>7 DEF Clean
    <3> QED
      BY <3>4, <3>8
  <2> QED
    BY <2>3, <2>4
<1>6. CASE GiveVerdict(p)
  <2>1. /\ pc[p] = "gather" /\ ~IsRoot(p)
        /\ UNCHANGED <<call, block, overload, crc_ok>>
        /\ \/ pc'[p] = "await"
           \/ pc'[p] = "commit" /\ crc_ok[p] # "n"
    BY <1>6 DEF GiveVerdict, TypeOK
  <2>2. crc_ok[p] \in {"y", "n"}
    BY DEF TypeOK, Verdict
  <2> QED
    BY <1>0, <2>1, <2>2 DEF DataSoundAt, Clean
<1>7. CASE TakeVerdicts(p) \/ Resend(p) \/ RootReturns(p) \/ Commit(p)
  <2>1. pc'[p] \in {"resend", "enter"}
    BY <1>7 DEF TakeVerdicts, Resend, RootReturns, Commit, TypeOK
  <2> QED
    BY <2>1 DEF DataSoundAt
<1>8. CASE Await(p)
  <2>1. pc'[p] = "commit" /\ call' = call /\ call[p] \in Calls
    BY <1>8 DEF Await, TypeOK
  <2>2. PICK m \in mail, flips \in [Blocks -> 0..ResendFlips] :
          /\ Matches(m, p)
          /\ block' = [block EXCEPT ![p] =
               [b \in Blocks |-> [block[p][b] EXCEPT !.data =
                  IF m.call = call[p] THEN flips[b] ELSE flips[b] + 1]]]
          /\ overload' = IF \E b \in Blocks : flips[b] > 0
                         THEN [overload EXCEPT ![call[p]] = @ \cup {p}]
                         ELSE overload
    BY <1>8 DEF Await
  <2>3. m.call = call[p]
    BY <2>2 DEF Copies, Matches
  <2>4. p \notin overload'[call[p]] => \A b \in Blocks : flips[b] = 0
    BY <2>1, <2>2 DEF TypeOK
  <2>5. \A b \in Blocks : block'[p][b].data = flips[b]
    <3>1. \A b \in Blocks : block[p][b] \in Pattern
      BY DEF TypeOK
    <3>2. \A b \in Blocks : block'[p][b] = [block[p][b] EXCEPT !.data = flips[b]]
      BY <2>2, <2>3 DEF TypeOK
    <3> QED
      BY <3>1, <3>2 DEF Pattern
  <2> QED
    BY <2>1, <2>4, <2>5 DEF DataSoundAt, Clean
<1> QED
  BY <1>1, <1>2, <1>3, <1>4, <1>5, <1>6, <1>7, <1>8 DEF Step

\* Every step keeps the data sound.
LEMMA StepSound ==
  ASSUME TypeOK, LoopBounds, Copies, DataSound, NoSilentCorruption,
         NEW p \in Ranks, Step(p)
  PROVE  DataSound' /\ NoSilentCorruption'
<1>1. DataSound'
  <2> SUFFICES ASSUME NEW q \in Ranks PROVE DataSoundAt(q)'
    BY DEF DataSound, DataSoundAt
  <2>1. CASE q = p
    BY <2>1, StepSoundAt
  <2>2. CASE q # p
    <3>1. DataSoundAt(q)
      BY DEF DataSound, DataSoundAt
    <3>2. /\ call'[q] = call[q] /\ pc'[q] = pc[q] /\ i'[q] = i[q]
          /\ block'[q] = block[q] /\ crc_ok'[q] = crc_ok[q]
          /\ call[q] \in Calls => overload[call[q]] \subseteq overload'[call[q]]
      BY <2>2, Frame
    <3> QED
      BY <3>1, <3>2 DEF DataSoundAt, Tellable, Decoding, Clean, IsRoot, MyRoot
  <2> QED
    BY <2>1, <2>2
<1>2. NoSilentCorruption'
  <2> SUFFICES ASSUME NEW k \in Calls, NEW q \in Ranks, buffer'[k][q] = "corrupt"
               PROVE  q \in overload'[k]
    BY DEF NoSilentCorruption
  <2>1. CASE buffer[k][q] = "corrupt"
    BY <2>1, Frame DEF NoSilentCorruption
  <2>2. CASE buffer[k][q] # "corrupt"
    <3>1. Commit(p)
      BY <2>2, Frame
    <3>2. q = p /\ k = call[p] /\ ~Clean(p)
      BY <2>2, <3>1 DEF Commit, TypeOK, At, Running
    <3> QED
      BY <3>1, <3>2, Frame DEF DataSound, Commit, At, Running
  <2> QED
    BY <2>1, <2>2
<1> QED
  BY <1>1, <1>2

-----------------------------------------------------------------------------
(* Verdicts and second copies. *)

Protocol == Verdicts /\ AllGiven /\ ServedSafe /\ Copies

\* Steps that touch neither verdicts nor second copies.
LEMMA QuietStep ==
  ASSUME TypeOK, LoopBounds, Protocol, NEW p \in Ranks,
         Enter(p) \/ Post(p) \/ Receive(p) \/ Check(p) \/ Decode(p)
  PROVE  Protocol'
<1> DEFINE Busy == {"await", "commit", "resend"}
<1>1. /\ UNCHANGED <<call, gathered, mail>>
      /\ pc[p] \notin Busy /\ pc'[p] \notin Busy
      /\ \A q \in Ranks \ {p} : pc'[q] = pc[q] /\ i'[q] = i[q]
  <2>1. CASE Enter(p) \/ Post(p) \/ Check(p)
    BY <2>1 DEF Enter, Post, Check, At, GoTo, SetI, TypeOK
  <2>2. CASE Receive(p)
    BY <2>2, ReceiveShape DEF Received, TypeOK
  <2>3. CASE Decode(p)
    BY <2>3 DEF Decode, At, GoTo, SetI, TypeOK
  <2> QED
    BY <2>1, <2>2, <2>3
<1>2. \A q \in Ranks : /\ (pc'[q] = "resend") <=> (pc[q] = "resend")
                       /\ (pc'[q] = "commit") <=> (pc[q] = "commit")
                       /\ (pc'[q] = "await") <=> (pc[q] = "await")
                       /\ pc[q] = "resend" => i'[q] = i[q]
  BY <1>1
<1>3. \A k \in Calls : Root[k] \in Ranks
  BY BcastAssumption
<1>4. \A k \in Calls, q \in Ranks : (Served(k, q)' <=> Served(k, q))
                                 /\ (Safe(k, q)' <=> Safe(k, q))
  BY <1>1, <1>2, <1>3 DEF Served, Safe, Resent
<1>5. \A m \in mail : m.call \in Calls /\ m.dst \in Ranks
  BY DEF TypeOK, Message
<1>6. Verdicts'
  BY <1>1, <1>2, <1>4 DEF Protocol, Verdicts, Receivers
<1>7. AllGiven'
  BY <1>1, <1>2, <1>3 DEF Protocol, AllGiven, Receivers
<1>8. ServedSafe'
  BY <1>4 DEF Protocol, ServedSafe, Receivers
<1>9. Copies'
  BY <1>1, <1>2, <1>4, <1>5 DEF Protocol, Copies, Resent
<1> QED
  BY <1>6, <1>7, <1>8, <1>9 DEF Protocol

\* A receiver gives its verdict: the root cannot have dealt with it before.
LEMMA GiveVerdictStep ==
  ASSUME TypeOK, LoopBounds, Protocol, NEW p \in Ranks, GiveVerdict(p)
  PROVE  Protocol'
<1> DEFINE c == call[p]
<1>1. /\ c \in Calls /\ pc[p] = "gather" /\ p \in Receivers(c)
      /\ UNCHANGED <<call, i, mail>>
      /\ crc_ok[p] \in {"y", "n"}
      /\ pc' = [pc EXCEPT ![p] = IF crc_ok[p] = "n" THEN "await" ELSE "commit"]
      /\ gathered' = [gathered EXCEPT ![c][p] = crc_ok[p]]
  BY DEF GiveVerdict, At, Running, GoTo, TypeOK, Verdict, Receivers, IsRoot, MyRoot
<1>2. \A k \in Calls : Root[k] \in Ranks
  BY BcastAssumption
<1>3. \A q \in Ranks \ {p} : pc'[q] = pc[q]
  BY <1>1 DEF TypeOK
<1>4. \A k \in Calls, q \in Ranks : gathered'[k][q] =
          IF k = c /\ q = p THEN crc_ok[p] ELSE gathered[k][q]
  BY <1>1 DEF TypeOK
<1>5. \A k \in Calls, q \in Ranks : Served(k, q)' <=> Served(k, q)
  BY <1>1, <1>2, <1>3 DEF Served, TypeOK
<1>6. ~Served(c, p)
  <2>1. ~(call[p] > c) /\ pc[p] # "commit" /\ pc[p] # "await"
    BY <1>1 DEF Calls
  <2> QED
    BY <1>1, <2>1 DEF Protocol, ServedSafe, Safe
<1>7. pc'[p] = IF crc_ok[p] = "n" THEN "await" ELSE "commit"
  BY <1>1 DEF TypeOK
<1>8. Verdicts'
  <2> SUFFICES ASSUME NEW k \in Calls, NEW q \in Receivers(k)
               PROVE
                 /\ gathered'[k][q] = "y" => call[q] > k \/ (call[q] = k /\ pc'[q] = "commit")
                 /\ gathered'[k][q] = "n" /\ ~Served(k, q) => call[q] = k /\ pc'[q] = "await"
    BY <1>1, <1>5 DEF Verdicts, Receivers
  <2>1. q \in Ranks
    BY DEF Receivers
  <2>2. CASE k = c /\ q = p
    BY <1>1, <1>4, <1>7, <2>1, <2>2
  <2>3. CASE ~(k = c /\ q = p)
    BY <1>1, <1>3, <1>4, <2>1, <2>3 DEF Protocol, Verdicts
  <2> QED
    BY <2>2, <2>3
<1>9. AllGiven'
  <2>1. \A k \in Calls : pc'[Root[k]] = "resend" => pc[Root[k]] = "resend"
    BY <1>1, <1>2, <1>3, <1>7
  <2> QED
    BY <1>1, <1>4, <2>1 DEF Protocol, AllGiven, Receivers
<1>10. ServedSafe'
  <2> SUFFICES ASSUME NEW k \in Calls, NEW q \in Receivers(k), Served(k, q)
               PROVE  Safe(k, q)'
    BY <1>5 DEF ServedSafe, Receivers
  <2>1. Safe(k, q) /\ q \in Ranks
    BY DEF Protocol, ServedSafe, Receivers
  <2>2. CASE q # p
    BY <1>1, <1>3, <2>1, <2>2 DEF Safe, Resent
  <2>3. CASE q = p
    BY <1>1, <2>1, <2>3 DEF Safe
  <2> QED
    BY <2>2, <2>3
<1>11. Copies'
  <2>1. \A m \in mail : m.call \in Calls /\ m.dst \in Ranks /\ m.dst # p
    BY <1>1 DEF TypeOK, Message, Protocol, Copies
  <2> QED
    BY <1>1, <1>3, <1>5, <2>1 DEF Protocol, Copies, Resent
<1> QED
  BY <1>8, <1>9, <1>10, <1>11 DEF Protocol

\* The root returns from MPI_Gather: it has all the verdicts and has dealt with
\* nobody yet.
LEMMA TakeVerdictsStep ==
  ASSUME TypeOK, LoopBounds, Protocol, NEW p \in Ranks, TakeVerdicts(p)
  PROVE  Protocol'
<1> DEFINE c == call[p]
<1>1. /\ c \in Calls /\ pc[p] = "gather" /\ p = Root[c]
      /\ UNCHANGED <<call, mail>>
      /\ pc' = [pc EXCEPT ![p] = "resend"]
      /\ i' = [i EXCEPT ![p] = 0]
      /\ gathered' = [gathered EXCEPT ![c][p] = crc_ok[p]]
      /\ \A q \in Ranks \ {p} : gathered[c][q] # "none"
  BY DEF TakeVerdicts, At, Running, GoTo, SetI, TypeOK, IsRoot, MyRoot, AllVerdictsIn
<1>2. \A k \in Calls : Root[k] \in Ranks
  BY BcastAssumption
<1>3. /\ \A q \in Ranks \ {p} : pc'[q] = pc[q] /\ i'[q] = i[q]
      /\ pc'[p] = "resend" /\ i'[p] = 0
  BY <1>1 DEF TypeOK
<1>4. \A k \in Calls : \A q \in Receivers(k) : gathered'[k][q] = gathered[k][q]
  BY <1>1 DEF TypeOK, Receivers
<1>5. \A k \in Calls, q \in Ranks : Served(k, q)' <=> Served(k, q)
  <2> SUFFICES ASSUME NEW k \in Calls, NEW q \in Ranks
               PROVE  Served(k, q)' <=> Served(k, q)
    OBVIOUS
  <2>1. CASE Root[k] = p
    <3>1. ~(q < 0)
      BY DEF Ranks
    <3> QED
      BY <1>1, <1>3, <2>1, <3>1 DEF Served
  <2>2. CASE Root[k] # p
    BY <1>1, <1>2, <1>3, <2>2 DEF Served
  <2> QED
    BY <2>1, <2>2
<1>6. Verdicts'
  <2>1. \A q \in Ranks : /\ (pc'[q] = "commit") <=> (pc[q] = "commit")
                         /\ (pc'[q] = "await") <=> (pc[q] = "await")
    BY <1>1, <1>3
  <2> QED
    BY <1>1, <1>4, <1>5, <2>1 DEF Protocol, Verdicts, Receivers
<1>7. AllGiven'
  <2> SUFFICES ASSUME NEW k \in Calls, call[Root[k]] = k, pc'[Root[k]] = "resend",
                      NEW q \in Receivers(k)
               PROVE  gathered[k][q] # "none"
    BY <1>1, <1>4 DEF AllGiven, Receivers
  <2>1. CASE Root[k] = p
    BY <1>1, <2>1 DEF Receivers
  <2>2. CASE Root[k] # p
    BY <1>2, <1>3, <2>2 DEF Protocol, AllGiven, Receivers
  <2> QED
    BY <2>1, <2>2
<1>8. \A k \in Calls : \A q \in Receivers(k) : Safe(k, q) => Safe(k, q)'
  BY <1>1, <1>3 DEF Safe, Receivers, Resent
<1>9. ServedSafe'
  BY <1>5, <1>8 DEF Protocol, ServedSafe, Receivers
<1>10. Copies'
  <2>1. \A m \in mail : m.call \in Calls /\ m.dst \in Ranks /\ m.dst # p
    BY <1>1 DEF TypeOK, Message, Protocol, Copies
  <2> QED
    BY <1>1, <1>3, <1>5, <2>1 DEF Protocol, Copies, Resent
<1> QED
  BY <1>6, <1>7, <1>9, <1>10 DEF Protocol

\* One iteration of the root's loop deals with rank i[p].
LEMMA ResendStep ==
  ASSUME TypeOK, LoopBounds, Protocol, NEW p \in Ranks, Resend(p)
  PROVE  Protocol'
<1>0. PICK c \in Calls, d \in Ranks : c = call[p] /\ d = i[p]
  BY DEF Resend, At, Running
<1> DEFINE wants == d # p /\ gathered[c][d] = "n"
<1>1. /\ pc[p] = "resend" /\ p = Root[c]
      /\ call[p] = c /\ i[p] = d
      /\ UNCHANGED <<call, pc, gathered>>
      /\ i' = [i EXCEPT ![p] = d + 1]
      /\ mail' = IF wants THEN mail \cup {Resent(p, d, c)} ELSE mail
  BY <1>0 DEF Resend, WantsCopy, At, Running, SetI, LoopBounds, IsRoot, MyRoot
<1>2. \A k \in Calls : Root[k] \in Ranks
  BY BcastAssumption
<1>3. Ranks \subseteq Nat /\ i'[p] = d + 1 /\ \A q \in Ranks \ {p} : i'[q] = i[q]
  BY <1>1 DEF TypeOK, Ranks
<1>4. \A k \in Calls, q \in Ranks :
         Served(k, q)' <=> Served(k, q) \/ (k = c /\ q = d)
  <2> SUFFICES ASSUME NEW k \in Calls, NEW q \in Ranks
               PROVE  Served(k, q)' <=> Served(k, q) \/ (k = c /\ q = d)
    OBVIOUS
  <2>1. CASE Root[k] = p /\ k = c
    <3>1. q \in Nat /\ d \in Nat
      BY <1>3
    <3>2. (q < d + 1) <=> (q < d \/ q = d)
      BY <3>1
    <3> QED
      BY <1>1, <1>3, <2>1, <3>2 DEF Served
  <2>2. CASE Root[k] = p /\ k # c
    BY <1>1, <2>2 DEF Served
  <2>3. CASE Root[k] # p
    BY <1>1, <1>2, <1>3, <2>3 DEF Served
  <2> QED
    BY <2>1, <2>2, <2>3
<1>5. \A k \in Calls, q \in Ranks : Safe(k, q) => Safe(k, q)'
  BY <1>1 DEF Safe, Resent
<1>6. ~Served(c, d)
  BY <1>1, <1>3 DEF Served, Calls
<1>7. d # p => d \in Receivers(c) /\ gathered[c][d] \in {"y", "n"}
  <2>1. d # p => gathered[c][d] # "none"
    BY <1>1 DEF Protocol, AllGiven, Receivers
  <2> QED
    BY <1>1, <2>1 DEF Receivers, TypeOK, Verdict
<1>8. wants => call[d] = c /\ pc[d] = "await"
  BY <1>1, <1>6, <1>7 DEF Protocol, Verdicts
<1>9. d # p => Safe(c, d)'
  <2>1. CASE wants
    BY <1>1, <1>8, <2>1 DEF Safe, Resent
  <2>2. CASE ~wants /\ d # p
    BY <1>1, <1>5, <1>7, <2>2 DEF Protocol, Verdicts, Safe
  <2> QED
    BY <2>1, <2>2
<1>10. Verdicts'
  BY <1>1, <1>4 DEF Protocol, Verdicts, Receivers
<1>11. AllGiven'
  BY <1>1 DEF Protocol, AllGiven, Receivers
<1>12. ServedSafe'
  <2> SUFFICES ASSUME NEW k \in Calls, NEW q \in Receivers(k), Served(k, q)'
               PROVE  Safe(k, q)'
    BY DEF ServedSafe, Receivers
  <2>1. q \in Ranks
    BY DEF Receivers
  <2>2. CASE Served(k, q)
    BY <1>5, <2>1, <2>2 DEF Protocol, ServedSafe
  <2>3. CASE k = c /\ q = d
    BY <1>1, <1>9, <2>3 DEF Receivers
  <2> QED
    BY <1>4, <2>1, <2>2, <2>3
<1>13. Copies'
  <2>1. \A m \in mail : /\ m = Resent(Root[m.call], m.dst, m.call)
                        /\ m.dst # m.src /\ m.call \in Calls /\ m.dst \in Ranks
                        /\ Served(m.call, m.dst)'
                        /\ call'[m.dst] = m.call /\ pc'[m.dst] = "await"
    BY <1>1, <1>4 DEF Protocol, Copies, TypeOK, Message
  <2>2. ASSUME wants, NEW m, m = Resent(p, d, c)
        PROVE  /\ m = Resent(Root[m.call], m.dst, m.call)
               /\ m.dst # m.src
               /\ Served(m.call, m.dst)'
               /\ call'[m.dst] = m.call /\ pc'[m.dst] = "await"
    <3>1. m.src = p /\ m.dst = d /\ m.call = c
      BY <2>2 DEF Resent
    <3> QED
      BY <1>1, <1>4, <1>8, <2>2, <3>1
  <2>3. mail' \subseteq mail \cup (IF wants THEN {Resent(p, d, c)} ELSE {})
    BY <1>1
  <2> QED
    BY <2>1, <2>2, <2>3 DEF Copies, Resent
<1> QED
  BY <1>10, <1>11, <1>12, <1>13 DEF Protocol

\* A rank, root or receiver, returns from its call.
LEMMA ReturnStep ==
  ASSUME TypeOK, LoopBounds, Protocol, NEW p \in Ranks,
         RootReturns(p) \/ Commit(p)
  PROVE  Protocol'
<1> DEFINE c == call[p]
<1>1. /\ c \in Calls /\ c \in Nat
      /\ \/ pc[p] = "resend" /\ p = Root[c] /\ i[p] = Procs
         \/ pc[p] = "commit" /\ p # Root[c]
      /\ UNCHANGED <<i, gathered, mail>>
      /\ call' = [call EXCEPT ![p] = c + 1]
      /\ pc' = [pc EXCEPT ![p] = "enter"]
  <2>1. CASE RootReturns(p)
    <3>1. i[p] \in Nat /\ i[p] <= Procs /\ i[p] \notin Ranks
      BY <2>1 DEF RootReturns, At, TypeOK, LoopBounds
    <3>2. i[p] = Procs
      BY <3>1, BcastAssumption DEF Ranks
    <3> QED
      BY <2>1, <3>2 DEF RootReturns, At, Running, GoTo, LoopBounds, IsRoot, MyRoot, Calls
  <2>2. CASE Commit(p)
    BY <2>2 DEF Commit, At, Running, GoTo, LoopBounds, IsRoot, MyRoot, Calls
  <2> QED
    BY <2>1, <2>2
<1>2. \A k \in Calls : Root[k] \in Ranks /\ k \in Nat
  BY BcastAssumption DEF Calls
<1>3. /\ \A q \in Ranks \ {p} : pc'[q] = pc[q] /\ call'[q] = call[q]
      /\ pc'[p] = "enter" /\ call'[p] = c + 1
      /\ \A q \in Ranks : call[q] \in Nat
  BY <1>1 DEF TypeOK
<1>4. \A k \in Calls, q \in Ranks : q < Procs
  BY BcastAssumption DEF Ranks
<1>5. \A k \in Calls, q \in Ranks : Served(k, q) <=> Served(k, q)'
  <2> SUFFICES ASSUME NEW k \in Calls, NEW q \in Ranks
               PROVE  Served(k, q) <=> Served(k, q)'
    OBVIOUS
  <2>1. CASE Root[k] # p
    BY <1>1, <1>2, <1>3, <2>1 DEF Served
  <2>2. CASE Root[k] = p /\ k = c
    BY <1>1, <1>2, <1>3, <1>4, <2>2 DEF Served
  <2>3. CASE Root[k] = p /\ k # c
    BY <1>1, <1>2, <1>3, <2>3 DEF Served
  <2> QED
    BY <2>1, <2>2, <2>3
<1>6. \A k \in Calls : \A q \in Receivers(k) : Safe(k, q) => Safe(k, q)'
  <2> SUFFICES ASSUME NEW k \in Calls, NEW q \in Receivers(k), Safe(k, q)
               PROVE  Safe(k, q)'
    OBVIOUS
  <2>1. CASE q # p
    BY <1>1, <1>3, <2>1 DEF Safe, Receivers, Resent
  <2>2. CASE q = p
    <3>1. c + 1 > k
      BY <1>1, <1>2, <1>3, <2>2 DEF Safe
    <3> QED
      BY <1>3, <2>2, <3>1 DEF Safe
  <2> QED
    BY <2>1, <2>2
<1>7. Verdicts'
  <2> SUFFICES ASSUME NEW k \in Calls, NEW q \in Receivers(k)
               PROVE
                 /\ gathered[k][q] = "y" => call'[q] > k \/ (call'[q] = k /\ pc'[q] = "commit")
                 /\ gathered[k][q] = "n" /\ ~Served(k, q) => call'[q] = k /\ pc'[q] = "await"
    BY <1>1, <1>5 DEF Verdicts, Receivers
  <2>1. q \in Ranks /\ q # Root[k]
    BY DEF Receivers
  <2>2. CASE q # p
    BY <1>3, <2>1, <2>2 DEF Protocol, Verdicts
  <2>3. CASE q = p
    <3>1. gathered[k][q] = "y" => c + 1 > k
      BY <1>1, <1>2, <2>3 DEF Protocol, Verdicts
    <3>2. ~(gathered[k][q] = "n" /\ ~Served(k, q))
      BY <1>1, <2>1, <2>3 DEF Protocol, Verdicts
    <3> QED
      BY <1>3, <2>3, <3>1, <3>2
  <2> QED
    BY <2>2, <2>3
<1>8. AllGiven'
  <2>1. \A k \in Calls : pc'[Root[k]] = "resend" => Root[k] # p
    BY <1>3
  <2> QED
    BY <1>1, <1>2, <1>3, <2>1 DEF Protocol, AllGiven, Receivers
<1>9. ServedSafe'
  BY <1>5, <1>6 DEF Protocol, ServedSafe, Receivers
<1>10. Copies'
  <2>1. \A m \in mail : m.call \in Calls /\ m.dst \in Ranks /\ m.dst # p
    BY <1>1 DEF TypeOK, Message, Protocol, Copies
  <2> QED
    BY <1>1, <1>3, <1>5, <2>1 DEF Protocol, Copies, Resent
<1> QED
  BY <1>7, <1>8, <1>9, <1>10 DEF Protocol

\* A receiver takes the one copy there is for it.
LEMMA AwaitStep ==
  ASSUME TypeOK, LoopBounds, Protocol, NEW p \in Ranks, Await(p)
  PROVE  Protocol'
<1> DEFINE c == call[p]
<1>1. PICK m \in mail : Matches(m, p) /\ mail' = mail \ {m}
  BY DEF Await
<1>2. /\ c \in Calls /\ pc[p] = "await" /\ p \in Receivers(c)
      /\ UNCHANGED <<call, i, gathered>>
      /\ pc' = [pc EXCEPT ![p] = "commit"]
  BY DEF Await, At, Running, GoTo, LoopBounds, IsRoot, MyRoot, Receivers
<1>3. m.dst = p /\ m.call = c /\ m = Resent(Root[c], p, c) /\ Served(c, p)
  BY <1>1 DEF Matches, Protocol, Copies
<1>4. \A k \in Calls : Root[k] \in Ranks
  BY BcastAssumption
<1>5. pc'[p] = "commit" /\ \A q \in Ranks \ {p} : pc'[q] = pc[q]
  BY <1>2 DEF TypeOK
<1>6. \A k \in Calls, q \in Ranks : Served(k, q)' <=> Served(k, q)
  BY <1>2, <1>4, <1>5 DEF Served
<1>7. \A k \in Calls, q \in Ranks \ {p} : Resent(Root[k], q, k) # m
  BY <1>3 DEF Resent
<1>8. \A k \in Calls, q \in Ranks : Safe(k, q) => Safe(k, q)'
  <2> SUFFICES ASSUME NEW k \in Calls, NEW q \in Ranks, Safe(k, q)
               PROVE  Safe(k, q)'
    OBVIOUS
  <2>1. CASE q = p
    BY <1>2, <1>5, <2>1 DEF Safe
  <2>2. CASE q # p
    <3>1. Resent(Root[k], q, k) \in mail => Resent(Root[k], q, k) \in mail'
      BY <1>1, <1>7, <2>2
    <3> QED
      BY <1>2, <1>5, <2>2, <3>1 DEF Safe, Resent
  <2> QED
    BY <2>1, <2>2
<1>9. Verdicts'
  <2> SUFFICES ASSUME NEW k \in Calls, NEW q \in Receivers(k)
               PROVE
                 /\ gathered[k][q] = "y" => call[q] > k \/ (call[q] = k /\ pc'[q] = "commit")
                 /\ gathered[k][q] = "n" /\ ~Served(k, q) => call[q] = k /\ pc'[q] = "await"
    BY <1>2, <1>6 DEF Verdicts, Receivers
  <2>1. q \in Ranks
    BY DEF Receivers
  <2>2. CASE q # p
    BY <1>5, <2>1, <2>2 DEF Protocol, Verdicts
  <2>3. CASE q = p
    BY <1>2, <1>3, <1>5, <2>3 DEF Protocol, Verdicts
  <2> QED
    BY <2>2, <2>3
<1>10. AllGiven'
  <2>1. \A k \in Calls : pc'[Root[k]] = "resend" => pc[Root[k]] = "resend"
    BY <1>4, <1>5
  <2> QED
    BY <1>2, <2>1 DEF Protocol, AllGiven, Receivers
<1>11. ServedSafe'
  BY <1>6, <1>8 DEF Protocol, ServedSafe, Receivers
<1>12. Copies'
  <2>1. \A o \in mail' : o \in mail /\ o # m /\ o.call \in Calls /\ o.dst \in Ranks
    BY <1>1 DEF TypeOK, Message
  <2>2. \A o \in mail' : o.dst # p
    BY <1>3, <2>1 DEF Protocol, Copies
  <2> QED
    BY <1>2, <1>5, <1>6, <2>1, <2>2 DEF Protocol, Copies, Resent
<1> QED
  BY <1>9, <1>10, <1>11, <1>12 DEF Protocol

-----------------------------------------------------------------------------
(* The theorems. *)

\* The invariant holds at the start.
LEMMA InitIInv == Init => IInv
<1> SUFFICES ASSUME Init PROVE IInv
  OBVIOUS
<1>1. TypeOK /\ LoopBounds
  BY InitTypes
<1>2. \A k \in Calls : Root[k] \in Ranks /\ ~(1 > k)
  BY BcastAssumption DEF Calls
<1>3. \A k \in Calls : \A q \in Ranks : ~Served(k, q)
  BY <1>2 DEF Init, Served
<1>4. Protocol
  BY <1>2, <1>3 DEF Init, Protocol, Verdicts, AllGiven, ServedSafe, Copies, Receivers
<1>5. DataSound
  BY DEF Init, DataSound
<1>6. NoSilentCorruption
  BY DEF Init, NoSilentCorruption
<1> QED
  BY <1>1, <1>4, <1>5, <1>6 DEF IInv, Protocol

\* Every step of the program keeps it.
LEMMA NextIInv == IInv /\ [Next]_vars => IInv'
<1> SUFFICES ASSUME IInv, [Next]_vars PROVE IInv'
  OBVIOUS
<1>1. TypeOK /\ LoopBounds /\ DataSound /\ NoSilentCorruption /\ Protocol
  BY DEF IInv, Protocol
<1>2. ASSUME NEW p \in Ranks, Step(p) PROVE IInv'
  <2>1. TypeOK' /\ LoopBounds'
    BY <1>1, <1>2, StepTypes
  <2>2. DataSound' /\ NoSilentCorruption'
    BY <1>1, <1>2, StepSound DEF Protocol
  <2>3. Protocol'
    BY <1>1, <1>2, QuietStep, GiveVerdictStep, TakeVerdictsStep, ResendStep,
       ReturnStep, AwaitStep DEF Step
  <2> QED
    BY <2>1, <2>2, <2>3 DEF IInv, Protocol
<1>3. CASE UNCHANGED vars
  <2> USE <1>3 DEF vars
  <2>1. TypeOK' /\ LoopBounds'
    BY <1>1 DEF TypeOK, LoopBounds, IsRoot, MyRoot
  <2>2. DataSound'
    BY <1>1 DEF DataSound, Tellable, Decoding, Clean, Weight, IsRoot, MyRoot
  <2>3. NoSilentCorruption'
    BY <1>1 DEF NoSilentCorruption
  <2>4. Verdicts' /\ AllGiven'
    BY <1>1 DEF Protocol, Verdicts, AllGiven, Served, Receivers
  <2>5. ServedSafe' /\ Copies'
    BY <1>1 DEF Protocol, ServedSafe, Copies, Served, Safe, Receivers, Resent
  <2> QED
    BY <2>1, <2>2, <2>3, <2>4, <2>5 DEF IInv, Protocol
<1> QED
  BY <1>2, <1>3 DEF Next, Terminated

\* Everything below follows from this invariant.
THEOREM Invariance == Spec => []IInv
<1> QED
  BY InitIInv, NextIInv, PTL DEF Spec

\* Every variable keeps its type and every loop counter its bounds.
THEOREM TypeCorrect == Spec => []TypeOK
<1>1. IInv => TypeOK
  BY DEF IInv
<1> QED
  BY Invariance, <1>1, PTL

\* Data differ from the root's only at a rank that received more wrong bits in
\* a block than the Hamming code can tell, or a damaged second copy.
THEOREM DataCorrect == Spec => []NoSilentCorruption
<1>1. IInv => NoSilentCorruption
  BY DEF IInv
<1> QED
  BY Invariance, <1>1, PTL

\* Second copies never reach a rank that is not waiting for them in that call.
THEOREM CopiesAwaited == Spec => []ResendIsAwaited
<1>1. IInv => ResendIsAwaited
  BY DEF IInv, Copies, ResendIsAwaited, Resent
<1> QED
  BY Invariance, <1>1, PTL

\* A root that has returned may overwrite its buffer.
THEOREM RootFree == Spec => []RootOwesNothing
<1>1. IInv => RootOwesNothing
  <2> SUFFICES ASSUME IInv, NEW k \in Calls, call[Root[k]] > k,
                      NEW p \in Ranks \ {Root[k]}
               PROVE  Safe(k, p)
    BY DEF RootOwesNothing, Safe
  <2> QED
    BY DEF IInv, ServedSafe, Served, Receivers
<1> QED
  BY Invariance, <1>1, PTL

-----------------------------------------------------------------------------
(* What the abstract steps need to know, beyond IInv. *)

\* A receiver has filled exactly the buffers of the calls it returned from.
Filled ==
  \A k \in Calls : \A q \in Receivers(k) :
    call[q] > k <=> buffer[k][q] # "unset"

\* A rank past the broadcasts of its call knows the root began to send, and a
\* receiver past MPI_Gather has given its verdict.
Progress ==
  \A p \in Ranks : call[p] \in Calls =>
    /\ pc[p] \in {"check", "decode", "gather", "resend", "await", "commit"} =>
         posted[call[p]] > 0
    /\ pc[p] \in {"await", "commit"} => gathered[call[p]][p] # "none"

RInv == IInv /\ Filled /\ Progress

\* The invariant holds at the start.
LEMMA InitRInv == Init => RInv
<1> SUFFICES ASSUME Init PROVE Filled /\ Progress
  BY InitIInv DEF RInv
<1>1. \A k \in Calls : ~(1 > k)
  BY DEF Calls
<1>2. Filled
  BY <1>1 DEF Init, Filled, Receivers
<1>3. Progress
  BY DEF Init, Progress
<1> QED
  BY <1>2, <1>3

\* A rank only passes a call with a value in its buffer.
LEMMA FilledStep ==
  ASSUME RInv, NEW p \in Ranks, Step(p)
  PROVE  Filled'
<1> USE DEF At, Running, GoTo, SetI
<1>0. TypeOK /\ LoopBounds /\ Filled /\ Ranks \subseteq Nat /\ Calls \subseteq Nat
  BY DEF RInv, IInv, Ranks, Calls
<1>1. CASE Commit(p)
  <2> PICK c \in Calls : c = call[p]
    BY <1>1 DEF Commit
  <2>1. /\ p \in Receivers(c) /\ c \in Nat /\ call[p] = c
        /\ \A q \in Ranks : call'[q] = IF q = p THEN c + 1 ELSE call[q]
        /\ \A k \in Calls, q \in Ranks :
             (k # c \/ q # p) => buffer'[k][q] = buffer[k][q]
        /\ buffer'[c][p] # "unset"
    BY <1>0, <1>1 DEF Commit, TypeOK, LoopBounds, IsRoot, MyRoot, Receivers
  <2> SUFFICES ASSUME NEW k \in Calls, NEW q \in Receivers(k)
               PROVE  call'[q] > k <=> buffer'[k][q] # "unset"
    BY DEF Filled, Receivers
  <2>2. q \in Ranks /\ k \in Nat /\ (call[q] > k <=> buffer[k][q] # "unset")
    BY <1>0 DEF Filled, Receivers
  <2>3. CASE q # p
    BY <2>1, <2>2, <2>3
  <2>4. CASE q = p /\ k = c
    BY <2>1, <2>2, <2>4
  <2>5. CASE q = p /\ k # c
    <3>1. (c > k) <=> (c + 1 > k)
      BY <2>1, <2>2, <2>5
    <3> QED
      BY <2>1, <2>2, <2>5, <3>1
  <2> QED
    BY <2>3, <2>4, <2>5
<1>2. CASE RootReturns(p)
  <2> PICK c \in Calls : c = call[p]
    BY <1>2 DEF RootReturns
  <2>1. /\ p = Root[c] /\ c \in Nat /\ call[p] = c /\ buffer' = buffer
        /\ \A q \in Ranks : call'[q] = IF q = p THEN c + 1 ELSE call[q]
    BY <1>0, <1>2 DEF RootReturns, TypeOK, LoopBounds, IsRoot, MyRoot
  <2> SUFFICES ASSUME NEW k \in Calls, NEW q \in Receivers(k)
               PROVE  call'[q] > k <=> buffer[k][q] # "unset"
    BY <2>1 DEF Filled, Receivers
  <2>2. /\ q \in Ranks /\ k \in Nat /\ q # Root[k]
        /\ (call[q] > k <=> buffer[k][q] # "unset")
    BY <1>0 DEF Filled, Receivers
  <2>3. q = p => ((c > k) <=> (c + 1 > k))
    BY <2>1, <2>2
  <2> QED
    BY <2>1, <2>2, <2>3
<1>3. CASE ~Commit(p) /\ ~RootReturns(p)
  <2>1. call' = call /\ buffer' = buffer
    <3>1. CASE Receive(p)
      BY <3>1, ReceiveShape DEF Received
    <3>2. CASE ~Receive(p)
      BY <1>3, <3>2 DEF Step, Enter, Post, Check, Decode, GiveVerdict,
                        TakeVerdicts, Resend, Await
    <3> QED
      BY <3>1, <3>2
  <2> QED
    BY <1>0, <2>1 DEF Filled, Receivers
<1> QED
  BY <1>1, <1>2, <1>3

ProgressAt(p) ==
  call[p] \in Calls =>
    /\ pc[p] \in {"check", "decode", "gather", "resend", "await", "commit"} =>
         posted[call[p]] > 0
    /\ pc[p] \in {"await", "commit"} => gathered[call[p]][p] # "none"

\* Broadcasts made and verdicts given are never taken back.
LEMMA Monotone ==
  ASSUME TypeOK, LoopBounds, NEW p \in Ranks, Step(p), NEW k \in Calls
  PROVE  /\ posted[k] > 0 => posted'[k] > 0
         /\ \A q \in Ranks : gathered[k][q] # "none" => gathered'[k][q] # "none"
<1> USE DEF At, Running, TypeOK
<1>1. CASE Post(p)
  BY <1>1 DEF Post
<1>2. CASE GiveVerdict(p) \/ TakeVerdicts(p)
  <2>1. crc_ok[p] # "none"
    BY DEF Verdict
  <2>2. /\ posted' = posted /\ call[p] \in Calls
        /\ gathered' = [gathered EXCEPT ![call[p]][p] = crc_ok[p]]
    BY <1>2 DEF GiveVerdict, TakeVerdicts, Running
  <2>3. \A q \in Ranks : gathered'[k][q] =
          IF k = call[p] /\ q = p THEN crc_ok[p] ELSE gathered[k][q]
    BY <2>2
  <2> QED
    BY <2>1, <2>2, <2>3
<1>3. CASE Receive(p)
  BY <1>3, ReceiveShape DEF Received
<1>4. CASE ~(Post(p) \/ GiveVerdict(p) \/ TakeVerdicts(p) \/ Receive(p))
  BY <1>4 DEF Step, Enter, Check, Decode, Resend, RootReturns, Await, Commit
<1> QED
  BY <1>1, <1>2, <1>3, <1>4

\* A rank only passes a broadcast after its root.
LEMMA ProgressStep ==
  ASSUME RInv, NEW p \in Ranks, Step(p)
  PROVE  Progress'
<1> USE DEF At, Running, GoTo, SetI
<1>0. /\ TypeOK /\ LoopBounds /\ ProgressAt(p)
      /\ \A k \in Calls : posted[k] \in Nat
  BY StagesNat DEF RInv, IInv, Progress, ProgressAt, TypeOK
<1>1. ProgressAt(p)'
  <2>1. CASE Enter(p) \/ RootReturns(p) \/ Commit(p)
    <3>1. pc'[p] \in {"enter", "post", "recv"}
      BY <1>0, <2>1 DEF Enter, RootReturns, Commit, TypeOK
    <3> QED
      BY <3>1 DEF ProgressAt
  <2>2. CASE Post(p)
    <3>1. /\ call' = call /\ pc'[p] \in {"post", "gather"} /\ call[p] \in Calls
          /\ posted'[call[p]] = i[p] + 1 /\ i[p] \in Nat
      BY <1>0, <2>2 DEF Post, TypeOK
    <3> QED
      BY <3>1 DEF ProgressAt
  <2>3. CASE Receive(p)
    <3>1. /\ UNCHANGED <<call, posted>> /\ call[p] \in Calls
          /\ pc'[p] \in {"check", "recv"}
      BY <1>0, <2>3, ReceiveShape DEF Received, TypeOK
    <3>2. ASSUME NEW s \in Nat, Receives(p, s) PROVE posted[call[p]] > 0
      BY <1>0, <3>1, <3>2 DEF Receives
    <3>3. posted[call[p]] > 0
      <4>1. CASE RecvData(p)
        BY <3>2, <4>1 DEF RecvData, DataStage
      <4>2. CASE RecvCrc(p)
        BY <3>2, <4>2 DEF RecvCrc, CrcStage
      <4>3. CASE RecvR(p)
        BY <3>2, <4>3 DEF RecvR, RStage
      <4>4. CASE \E b \in Blocks : RecvCode(p, b)
        <5>1. PICK b \in Blocks : RecvCode(p, b)
          BY <4>4
        <5>2. CodeStage(b) \in Nat /\ Receives(p, CodeStage(b))
          BY <5>1, StagesNat DEF RecvCode, CodeStage
        <5> QED
          BY <3>2, <5>2
      <4> QED
        BY <2>3, <4>1, <4>2, <4>3, <4>4 DEF Receive
    <3> QED
      BY <3>1, <3>3 DEF ProgressAt
  <2>4. CASE Check(p) \/ Decode(p)
    <3>1. /\ UNCHANGED <<call, posted>> /\ call[p] \in Calls
          /\ pc[p] \in {"check", "decode"} /\ pc'[p] \in {"decode", "gather"}
      BY <1>0, <2>4 DEF Check, Decode, TypeOK
    <3> QED
      BY <1>0, <3>1 DEF ProgressAt
  <2>5. CASE GiveVerdict(p)
    <3>1. /\ UNCHANGED <<call, posted>> /\ call[p] \in Calls /\ pc[p] = "gather"
          /\ gathered'[call[p]][p] = crc_ok[p] /\ crc_ok[p] # "none"
      BY <1>0, <2>5 DEF GiveVerdict, TypeOK, Verdict
    <3> QED
      BY <1>0, <3>1 DEF ProgressAt
  <2>6. CASE TakeVerdicts(p)
    <3>1. /\ UNCHANGED <<call, posted>> /\ call[p] \in Calls /\ pc[p] = "gather"
          /\ pc'[p] = "resend"
      BY <1>0, <2>6 DEF TakeVerdicts, TypeOK
    <3> QED
      BY <1>0, <3>1 DEF ProgressAt
  <2>7. CASE Resend(p) \/ Await(p)
    <3>1. /\ UNCHANGED <<call, posted, gathered>>
          /\ \/ pc[p] = "resend" /\ pc'[p] = "resend"
             \/ pc[p] = "await" /\ pc'[p] = "commit"
      BY <1>0, <2>7 DEF Resend, Await, TypeOK
    <3> QED
      BY <1>0, <3>1 DEF ProgressAt
  <2> QED
    BY <2>1, <2>2, <2>3, <2>4, <2>5, <2>6, <2>7 DEF Step
<1>2. ASSUME NEW q \in Ranks, q # p PROVE ProgressAt(q)'
  <2>1. ProgressAt(q) /\ call'[q] = call[q] /\ pc'[q] = pc[q]
    BY <1>0, <1>2, Frame DEF RInv, Progress, ProgressAt
  <2>2. \A k \in Calls : /\ posted[k] > 0 => posted'[k] > 0
                         /\ gathered[k][q] # "none" => gathered'[k][q] # "none"
    BY <1>0, Monotone
  <2> QED
    BY <2>1, <2>2 DEF ProgressAt
<1> QED
  BY <1>1, <1>2 DEF Progress, ProgressAt

-----------------------------------------------------------------------------
(* The refinement. *)

\* A rank has returned from the calls before its own, in the abstract sense.
LEMMA InOrderAt ==
  ASSUME RInv, NEW p \in Ranks, call[p] \in Calls
  PROVE  Reliable!InOrder(call[p], p)
<1> SUFFICES ASSUME NEW j \in 1..(call[p] - 1) PROVE Reliable!Past(j, p)
  BY DEF Reliable!InOrder
<1>1. j \in Calls /\ call[p] > j
  BY BcastAssumption DEF Calls
<1>2. CASE p = Root[j]
  BY <1>1, <1>2 DEF Reliable!Past, RootLeft
<1>3. CASE p # Root[j]
  BY <1>1, <1>3 DEF Reliable!Past, RInv, Filled, Receivers
<1> QED
  BY <1>2, <1>3

\* A step after which the callers see the same.
LEMMA Unseen ==
  ASSUME UNCHANGED <<call, gathered, buffer, overload>>, Published' = Published
  PROVE  UNCHANGED Reliable!avars
BY DEF Reliable!avars, Answered, RootLeft

\* Damage beyond the code is the abstract broadcast's own exception.
LEMMA OverloadStep ==
  ASSUME RInv, NEW p \in Ranks, call[p] \in Calls, p # Root[call[p]],
         posted[call[p]] > 0,
         UNCHANGED <<call, posted, gathered, buffer>>,
         \/ overload' = overload
         \/ overload' = [overload EXCEPT ![call[p]] = @ \cup {p}]
  PROVE  [Reliable!ANext]_Reliable!avars
<1>1. CASE overload' = overload
  BY <1>1, Unseen DEF Published
<1>2. CASE overload' = [overload EXCEPT ![call[p]] = @ \cup {p}]
  <2>1. Reliable!InOrder(call[p], p)
    BY InOrderAt
  <2>2. buffer[call[p]][p] = "unset"
    <3>1. ~(call[p] > call[p])
      BY DEF Calls
    <3> QED
      BY <3>1 DEF RInv, Filled, Receivers
  <2>3. UNCHANGED <<Published, Answered, RootLeft, buffer>>
    BY DEF Published, Answered, RootLeft
  <2>4. Reliable!Overload(call[p], p)
    BY <1>2, <2>1, <2>2, <2>3 DEF Reliable!Overload, Published
  <2> QED
    BY <2>4 DEF Reliable!ANext, Reliable!ACalls, Reliable!ARanks, Calls, Ranks
<1> QED
  BY <1>1, <1>2

\* Every step of a rank is a step of the abstract broadcast or a stutter of it.
LEMMA StepRefines ==
  ASSUME RInv, NEW p \in Ranks, Step(p)
  PROVE  [Reliable!ANext]_Reliable!avars
<1> USE DEF At, Running, GoTo, SetI
<1>0. TypeOK /\ LoopBounds /\ Filled /\ Protocol /\ Reliable!ARanks = Ranks
        /\ Reliable!ACalls = Calls /\ \A k \in Calls : posted[k] \in Nat
  BY StagesNat DEF RInv, IInv, Protocol, TypeOK, Reliable!ARanks, Reliable!ACalls,
                   Ranks, Calls
<1>1. CASE Enter(p) \/ Check(p) \/ Decode(p) \/ Resend(p)
  BY <1>1, Unseen DEF Enter, Check, Decode, Resend, Published
<1>2. CASE Post(p)
  <2> PICK c \in Calls : c = call[p]
    BY <1>2 DEF Post
  <2>1. /\ p = Root[c] /\ UNCHANGED <<call, gathered, buffer, overload>>
        /\ posted' = [posted EXCEPT ![c] = i[p] + 1] /\ i[p] + 1 > 0
    BY <1>0, <1>2 DEF Post, LoopBounds, IsRoot, MyRoot, TypeOK
  <2>2. Published' = Published \cup {c}
    BY <1>0, <2>1 DEF Published, TypeOK
  <2>3. CASE c \in Published
    BY <2>1, <2>2, <2>3, Unseen
  <2>4. CASE c \notin Published
    <3>1. Reliable!InOrder(c, Root[c])
      BY <2>1, InOrderAt
    <3>2. UNCHANGED <<Answered, RootLeft, buffer, overload>>
      BY <2>1 DEF Answered, RootLeft
    <3>3. Reliable!Publish(c)
      BY <2>2, <2>4, <3>1, <3>2 DEF Reliable!Publish
    <3> QED
      BY <1>0, <3>3 DEF Reliable!ANext
  <2> QED
    BY <2>3, <2>4
<1>3. CASE Receive(p)
  <2>1. /\ call[p] \in Calls /\ p # Root[call[p]]
        /\ UNCHANGED <<call, posted, gathered, buffer>>
    BY <1>0, <1>3, ReceiveShape DEF Received, LoopBounds, IsRoot, MyRoot
  <2>2. \/ overload' = overload
        \/ overload' = [overload EXCEPT ![call[p]] = @ \cup {p}]
    BY <1>3 DEF Receive, RecvData, RecvCrc, RecvR, RecvCode, NoteOverload
  <2>3. posted[call[p]] > 0
    <3>1. ASSUME NEW s \in Nat, Receives(p, s) PROVE posted[call[p]] > 0
      BY <1>0, <2>1, <3>1 DEF Receives
    <3>2. CASE RecvData(p)
      BY <3>1, <3>2 DEF RecvData, DataStage
    <3>3. CASE RecvCrc(p)
      BY <3>1, <3>3 DEF RecvCrc, CrcStage
    <3>4. CASE RecvR(p)
      BY <3>1, <3>4 DEF RecvR, RStage
    <3>5. CASE \E b \in Blocks : RecvCode(p, b)
      <4>1. PICK b \in Blocks : RecvCode(p, b)
        BY <3>5
      <4>2. CodeStage(b) \in Nat /\ Receives(p, CodeStage(b))
        BY <4>1, StagesNat DEF RecvCode, CodeStage
      <4> QED
        BY <3>1, <4>2
    <3> QED
      BY <1>3, <3>2, <3>3, <3>4, <3>5 DEF Receive
  <2> QED
    BY <2>1, <2>2, <2>3, OverloadStep
<1>4. CASE GiveVerdict(p)
  <2> PICK c \in Calls : c = call[p]
    BY <1>4 DEF GiveVerdict
  <2>1. /\ p # Root[c] /\ pc[p] = "gather" /\ crc_ok[p] # "none"
        /\ UNCHANGED <<call, posted, buffer, overload>>
        /\ gathered' = [gathered EXCEPT ![c][p] = crc_ok[p]]
    BY <1>0, <1>4 DEF GiveVerdict, IsRoot, MyRoot, TypeOK, Verdict
  <2>2. c \in Published
    BY <1>4, <2>1 DEF RInv, Progress, Published
  <2>3. ~(call[p] > c)
    BY DEF Calls
  <2>4. gathered[c][p] = "none"
    <3>1. ~Safe(c, p) /\ p \in Receivers(c)
      BY <2>1, <2>3 DEF Safe, Receivers
    <3>2. ~Served(c, p)
      BY <1>0, <3>1 DEF Protocol, ServedSafe
    <3>3. gathered[c][p] \in {"y", "n", "none"}
      BY <1>0 DEF TypeOK, Verdict
    <3> QED
      BY <1>0, <2>1, <2>3, <3>1, <3>2, <3>3 DEF Protocol, Verdicts
  <2>5. /\ p \notin Answered[c]
        /\ Answered' = [Answered EXCEPT ![c] = @ \cup {p}]
    <3>1. \A k \in Calls, q \in Ranks : gathered'[k][q] =
            IF k = c /\ q = p THEN crc_ok[p] ELSE gathered[k][q]
      BY <1>0, <2>1 DEF TypeOK
    <3>2. p \notin Answered[c]
      BY <2>4 DEF Answered
    <3>3. ASSUME NEW k \in Calls
          PROVE  {q \in Ranks \ {Root[k]} : gathered'[k][q] # "none"} =
                   IF k = c THEN Answered[c] \cup {p} ELSE Answered[k]
      <4>1. CASE k = c
        <5>1. Answered[c] = {q \in Ranks \ {Root[c]} : gathered[c][q] # "none"}
          BY DEF Answered
        <5>2. \A q \in Ranks : gathered'[c][q] # "none" <=>
                                (gathered[c][q] # "none" \/ q = p)
          BY <2>1, <3>1
        <5> QED
          BY <2>1, <4>1, <5>1, <5>2
      <4>2. CASE k # c
        BY <3>1, <4>2 DEF Answered
      <4> QED
        BY <4>1, <4>2
    <3>4. Answered' = [k \in Calls |->
                         IF k = c THEN Answered[c] \cup {p} ELSE Answered[k]]
      BY <3>3 DEF Answered
    <3>5. [Answered EXCEPT ![c] = @ \cup {p}] =
            [k \in Calls |-> IF k = c THEN Answered[c] \cup {p} ELSE Answered[k]]
      BY DEF Answered
    <3> QED
      BY <3>2, <3>4, <3>5
  <2>6. Reliable!InOrder(c, p)
    BY InOrderAt
  <2>7. UNCHANGED <<Published, RootLeft, buffer, overload>>
    BY <2>1 DEF Published, RootLeft
  <2>8. Reliable!Answer(c, p)
    BY <2>1, <2>2, <2>5, <2>6, <2>7 DEF Reliable!Answer
  <2> QED
    BY <1>0, <2>8 DEF Reliable!ANext
<1>5. CASE TakeVerdicts(p)
  <2>1. /\ p = Root[call[p]] /\ UNCHANGED <<call, posted, buffer, overload>>
        /\ call[p] \in Calls
        /\ gathered' = [gathered EXCEPT ![call[p]][p] = crc_ok[p]]
    BY <1>5 DEF TakeVerdicts, IsRoot, MyRoot
  <2>2. \A k \in Calls : \A q \in Ranks \ {Root[k]} : gathered'[k][q] = gathered[k][q]
    BY <1>0, <2>1 DEF TypeOK
  <2>3. UNCHANGED <<Published, Answered, RootLeft>>
    BY <2>1, <2>2 DEF Published, Answered, RootLeft
  <2> QED
    BY <2>1, <2>3 DEF Reliable!avars
<1>6. CASE RootReturns(p)
  <2> PICK c \in Calls : c = call[p]
    BY <1>6 DEF RootReturns
  <2>1. /\ p = Root[c] /\ pc[p] = "resend"
        /\ UNCHANGED <<posted, gathered, buffer, overload>>
        /\ call' = [call EXCEPT ![p] = c + 1] /\ c \in Nat
    BY <1>0, <1>6 DEF RootReturns, LoopBounds, IsRoot, MyRoot, Calls
  <2>2. c \in Published
    BY <2>1 DEF RInv, Progress, Published
  <2>3. c \notin RootLeft
    BY <2>1 DEF RootLeft
  <2>4. Answered[c] = Ranks \ {Root[c]}
    BY <1>0, <2>1 DEF Protocol, AllGiven, Receivers, Answered
  <2>5. RootLeft' = RootLeft \cup {c}
    <3>1. \A k \in Calls : (call'[Root[k]] > k) <=> (call[Root[k]] > k \/ k = c)
      <4> SUFFICES ASSUME NEW k \in Calls
                   PROVE  (call'[Root[k]] > k) <=> (call[Root[k]] > k \/ k = c)
        OBVIOUS
      <4>1. Root[k] \in Ranks /\ k \in Nat
        BY BcastAssumption DEF Calls
      <4>2. \A q \in Ranks : call'[q] = IF q = p THEN c + 1 ELSE call[q]
        BY <1>0, <2>1 DEF TypeOK
      <4>3. CASE Root[k] = p
        BY <2>1, <4>1, <4>2, <4>3
      <4>4. CASE Root[k] # p
        <5>1. k # c
          BY <2>1, <4>4
        <5>2. call'[Root[k]] = call[Root[k]]
          BY <4>1, <4>2, <4>4
        <5> QED
          BY <5>1, <5>2
      <4> QED
        BY <4>3, <4>4
    <3> QED
      BY <3>1 DEF RootLeft
  <2>6. UNCHANGED <<Published, Answered, buffer, overload>>
    BY <2>1 DEF Published, Answered
  <2>7. Reliable!Leave(c)
    BY <1>0, <2>2, <2>3, <2>4, <2>5, <2>6 DEF Reliable!Leave
  <2> QED
    BY <1>0, <2>7 DEF Reliable!ANext
<1>7. CASE Await(p)
  <2>1. /\ call[p] \in Calls /\ pc[p] = "await"
        /\ UNCHANGED <<call, posted, gathered, buffer>>
        /\ \/ overload' = overload
           \/ overload' = [overload EXCEPT ![call[p]] = @ \cup {p}]
    BY <1>7 DEF Await
  <2>2. p # Root[call[p]] /\ posted[call[p]] > 0
    BY <1>0, <2>1 DEF LoopBounds, IsRoot, MyRoot, RInv, Progress
  <2> QED
    BY <2>1, <2>2, OverloadStep
<1>8. CASE Commit(p)
  <2> PICK c \in Calls : c = call[p]
    BY <1>8 DEF Commit
  <2>1. /\ p # Root[c] /\ pc[p] = "commit"
        /\ UNCHANGED <<posted, gathered, overload>>
        /\ call' = [call EXCEPT ![p] = c + 1] /\ c \in Nat
        /\ buffer' = [buffer EXCEPT ![c][p] = IF Clean(p) THEN "exact" ELSE "corrupt"]
    BY <1>0, <1>8 DEF Commit, LoopBounds, IsRoot, MyRoot, Calls
  <2>2. p \in Answered[c]
    BY <2>1 DEF RInv, Progress, Answered
  <2>3. buffer[c][p] = "unset"
    BY <1>0, <2>1 DEF Filled, Receivers
  <2>4. Clean(p) \/ p \in overload[c]
    BY <2>1 DEF RInv, IInv, DataSound
  <2>5. RootLeft' = RootLeft
    <3>1. \A k \in Calls : (call'[Root[k]] > k) <=> (call[Root[k]] > k)
      <4> SUFFICES ASSUME NEW k \in Calls
                   PROVE  (call'[Root[k]] > k) <=> (call[Root[k]] > k)
        OBVIOUS
      <4>1. Root[k] \in Ranks /\ k \in Nat
        BY BcastAssumption DEF Calls
      <4>2. CASE Root[k] = p
        <5>1. call'[Root[k]] = c + 1 /\ call[Root[k]] = c /\ k # c
          BY <1>0, <2>1, <4>2 DEF TypeOK
        <5> QED
          BY <2>1, <4>1, <5>1
      <4>3. CASE Root[k] # p
        BY <1>0, <2>1, <4>1, <4>3 DEF TypeOK
      <4> QED
        BY <4>2, <4>3
    <3> QED
      BY <3>1 DEF RootLeft
  <2>6. UNCHANGED <<Published, Answered, overload>>
    BY <2>1 DEF Published, Answered
  <2>7. Reliable!Deliver(c, p)
    BY <2>1, <2>2, <2>3, <2>4, <2>5, <2>6 DEF Reliable!Deliver
  <2> QED
    BY <1>0, <2>7 DEF Reliable!ANext
<1> QED
  BY <1>1, <1>2, <1>3, <1>4, <1>5, <1>6, <1>7, <1>8 DEF Step

\* MPI_Bcast_abft, seen by its callers, is the reliable broadcast.
THEOREM Refinement == Spec => ImplementsReliableBcast
<1>1. Init => Reliable!AInit
  <2> SUFFICES ASSUME Init PROVE Reliable!AInit
    OBVIOUS
  <2>1. \A k \in Calls : Root[k] \in Ranks /\ ~(1 > k)
    BY BcastAssumption DEF Calls
  <2>2. Published = {}
    BY DEF Init, Published
  <2>3. Answered = [k \in Calls |-> {}]
    BY DEF Init, Answered
  <2>4. RootLeft = {}
    BY <2>1 DEF Init, RootLeft
  <2> QED
    BY <2>2, <2>3, <2>4
       DEF Init, Reliable!AInit, Reliable!ACalls, Reliable!ARanks, Calls, Ranks
<1>2. RInv /\ [Next]_vars => RInv'
  <2> SUFFICES ASSUME RInv, [Next]_vars PROVE RInv'
    OBVIOUS
  <2>1. IInv'
    BY NextIInv DEF RInv
  <2>2. CASE \E p \in Ranks : Step(p)
    BY <2>1, <2>2, FilledStep, ProgressStep DEF RInv
  <2>3. CASE UNCHANGED vars
    BY <2>1, <2>3 DEF vars, RInv, Filled, Receivers, Progress
  <2> QED
    BY <2>2, <2>3 DEF Next, Terminated
<1>3. RInv /\ [Next]_vars => [Reliable!ANext]_Reliable!avars
  <2> SUFFICES ASSUME RInv, [Next]_vars PROVE [Reliable!ANext]_Reliable!avars
    OBVIOUS
  <2>1. CASE \E p \in Ranks : Step(p)
    BY <2>1, StepRefines
  <2>2. CASE UNCHANGED vars
    BY <2>2, Unseen DEF vars, Published
  <2> QED
    BY <2>1, <2>2 DEF Next, Terminated
<1> QED
  BY <1>1, <1>2, <1>3, InitRInv, PTL DEF Spec, ImplementsReliableBcast, Reliable!Spec
=============================================================================
