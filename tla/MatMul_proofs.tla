----------------------------- MODULE MatMul_proofs -----------------------------
(***************************************************************************)
(* Proofs about the matrix multiplication and the checked broadcasts it    *)
(* uses, for every number of ranks, way of broadcasting, size of the data  *)
(* and input.                                                              *)
(***************************************************************************)
EXTENDS MatMul, Secded_proofs, FiniteSetTheorems

-----------------------------------------------------------------------------
(* The inductive invariant. *)

Labels == {"read", "exit", "bcast", "gather", "decode", "await", "resend",
           "decompress", "collect", "finalized"}

\* Where each rank may be.
Places ==
  /\ pc \in [Ranks -> Labels]
  /\ input \in Inputs
  /\ \A p \in Ranks :
       /\ pc[p] \in {"gather", "decode", "await", "resend", "decompress"} =>
            call[p] \in 1..NCalls /\ method \in Checking
       /\ pc[p] \in {"collect", "finalized"} => call[p] = NCalls + 1
       /\ pc[p] \in {"read", "exit"} => p = 0 /\ call[p] = 0
       /\ pc[p] = "resend" => p = 0 /\ i[p] \in 0..Procs
       /\ pc[p] \in {"await", "decompress"} => p # 0
       /\ pc[p] = "decode" => p # 0 /\ i[p] \in Blocks(call[p])

\* Nothing is sent before rank 0 has accepted its input.
Admitted ==
  /\ pc[0] \in {"read", "exit"} => posted[0] = 0
  /\ pc[0] \notin {"read", "exit"} => Accepted
  /\ \A q \in Receivers : call[q] > 0 \/ i[q] > 0 => pc[0] \notin {"read", "exit"}

\* The root's loop over the ranks has come past rank q in call k.
Served(k, q) == call[0] > k \/ (call[0] = k /\ pc[0] = "resend" /\ i[0] > q)

Waits(k, q) == call[q] = k /\ pc[q] = "await"

\* A rank has given a verdict when it is past MPI_Gather, the root has all of
\* them when it is; one that asked for a copy and was not served waits for it.
Verdicts ==
  \A k \in Calls, q \in Receivers :
    /\ call[q] < k \/ ~Checked(k) => gathered[k][q] = "none"
    /\ call[q] = k /\ pc[q] \in {"bcast", "decode", "gather"} => gathered[k][q] = "none"
    /\ Checked(k) /\ (call[0] > k \/ (call[0] = k /\ pc[0] = "resend")) =>
         gathered[k][q] # "none"
    /\ gathered[k][q] = "n" /\ ~Served(k, q) => Waits(k, q)

\* A copy under way is for a rank that waits for it, in the same call.
Copies ==
  \A m \in mail : m[2] \in Receivers /\ Served(m[1], m[2]) /\ Waits(m[1], m[2])

\* The copies the root has counted are those of the ranks it has come past.
Counted == {m \in Asked : Served(m[1], m[2])}

Given == \A q \in sent : q \in Receivers /\ pc[q] = "finalized"

Protocol ==
  Verdicts /\ Copies /\ resend = Cardinality(Counted) /\ Given
  /\ (pc[0] = "finalized" => sent = Receivers)

\* During decoding: blocks before i[p] are right, the others can be told.
Decoding(p) ==
  \A x \in AllBlocks : IF x \in Blocks(call[p]) /\ x >= i[p]
                       THEN Weight(block[p][x]) <= 2 ELSE block[p][x].data = 0

Sound(p) ==
  /\ pc[p] \in {"bcast", "decompress"} => Clean(p)
  /\ pc[p] = "gather" /\ crc_ok[p] = "y" => Clean(p)
  /\ pc[p] = "decode" => Decoding(p)
  /\ \A k \in 1..NCalls : call[p] > k => held[k][p] = Arrived

\* A receiver that was never overloaded has what the broadcast promises.
Data ==
  /\ \A k \in Calls : held[k][0] = "exact"
  /\ \A p \in Receivers : p \in overload \/ Sound(p)

\* What MPI_Gather makes of the blocks.
Joined ==
  [x \in 1..(Procs * number_of_rows) |->
     result[(x - 1) \div number_of_rows][((x - 1) % number_of_rows) + 1]]

Results ==
  /\ DOMAIN result = Ranks
  /\ \A p \in Ranks : IF pc[p] \in {"collect", "finalized"} THEN result[p] = Block(p)
                                                            ELSE result[p] = Unset
  /\ IF pc[0] = "finalized" THEN final = Joined ELSE final = Unset

IInv == BTypeOK /\ Places /\ Admitted /\ Protocol /\ Data /\ Results
-----------------------------------------------------------------------------
(* Types. *)

\* What the assumptions say of the sizes.
LEMMA Basics ==
  /\ Procs \in Nat \ {0} /\ 0 \in Ranks /\ Ranks \subseteq Nat
  /\ Receivers \subseteq Ranks /\ 0 \notin Receivers
  /\ NCalls = 2 /\ Calls = 0..2 /\ 0 \in Calls
<1> QED
  BY CheckedBcastAssumption, MatMulAssumption DEF Ranks, Receivers, Calls

\* A buffer is cut into one block or more.
LEMMA BlocksAre ==
  ASSUME NEW k \in 1..NCalls
  PROVE  /\ bs_num(DataBytes[k]) \in Nat \ {0}
         /\ Blocks(k) = 0..(bs_num(DataBytes[k]) - 1)
         /\ Blocks(k) \subseteq AllBlocks
         /\ Errors(k) \in Nat
<1>1. DataBytes[k] \in Nat \ {0}
  BY CheckedBcastAssumption
<1>2. bs_num(DataBytes[k]) \in Nat /\ bs_num(DataBytes[k]) >= 1
  BY <1>1, BlockCount
<1>3. Blocks(k) \subseteq AllBlocks
  BY DEF AllBlocks
<1>4. Errors(k) \in Nat
  <2> DEFINE n == DataBytes[k]
  <2>1. n \in Nat /\ MaxBlock \in Nat \ {0}
    BY <1>1, MaxBlockAssumption
  <2> HIDE DEF n
  <2>2. n \div MaxBlock \in Nat
    BY <2>1
  <2> QED
    BY <2>2 DEF n, Errors
<1> QED
  BY <1>2, <1>3, <1>4 DEF Blocks

\* Blocks are numbered.
LEMMA AllBlocksAre == AllBlocks \subseteq Nat
<1> SUFFICES ASSUME NEW x \in AllBlocks PROVE x \in Nat
  OBVIOUS
<1>1. PICK k \in 1..NCalls : x \in Blocks(k)
  BY DEF AllBlocks
<1> QED
  BY <1>1, BlocksAre

\* Every call has at least one part.
LEMMA PartsAre ==
  ASSUME method \in Methods, NEW k \in Calls
  PROVE  Parts(k) \in Nat \ {0} /\ Parts(0) = 1
<1>1. CASE k = 0
  BY <1>1 DEF Parts
<1>2. CASE k # 0
  <2>1. k \in 1..NCalls
    BY <1>2 DEF Calls
  <2>2. bs_num(DataBytes[k]) \in Nat
    BY <2>1, BlocksAre
  <2>3. method \in {"plain", "bitwise", "bitwise_mask", "crc", "mask", "hamming", "abft"}
    BY CheckedBcastAssumption DEF Checking, WithCode
  <2> QED
    BY <1>2, <2>2, <2>3 DEF Parts
<1> QED
  BY <1>1, <1>2

\* Bits flipped are counted block by block.
LEMMA FlipsAre ==
  ASSUME NEW k \in 1..NCalls, NEW f \in Flips(k)
  PROVE  f \in [Blocks(k) -> Nat]
<1>1. f \in [Blocks(k) -> 0..2] \/ f \in [Blocks(k) -> 0..Errors(k)]
  BY DEF Flips
<1> QED
  BY <1>1, BlocksAre

\* An intact block, and one with one wrong bit.
LEMMA IntactAre ==
  /\ Intact \in Pattern /\ Intact.data = 0 /\ Weight(Intact) = 0
  /\ \A n \in Nat : /\ [Intact EXCEPT !.data = n] \in Pattern
                    /\ [Intact EXCEPT !.data = n].data = n
                    /\ Weight([Intact EXCEPT !.data = n]) = n
  /\ AllIntact \in [AllBlocks -> Pattern]
<1>1. Intact \in Pattern /\ Intact.data = 0 /\ Weight(Intact) = 0
  BY DEF Intact, Pattern, Weight
<1>2. \A n \in Nat : /\ [Intact EXCEPT !.data = n] \in Pattern
                     /\ [Intact EXCEPT !.data = n].data = n
                     /\ Weight([Intact EXCEPT !.data = n]) = n
  BY DEF Intact, Pattern, Weight
<1> QED
  BY <1>1, <1>2 DEF AllIntact

\* A step of rank p is one of these.
LEMMA StepCases ==
  ASSUME NEW p \in Ranks, Step(p)
  PROVE  \/ /\ UNCHANGED mvars
            /\ \/ p = 0 /\ Post
               \/ p = 0 /\ RootGathers
               \/ p = 0 /\ TakeVerdicts
               \/ p = 0 /\ Resend
               \/ p = 0 /\ RootReturns
               \/ Receive(p)
               \/ EndUnchecked(p)
               \/ CheckByDraw(p)
               \/ Check(p)
               \/ Decode(p)
               \/ GiveVerdict(p)
               \/ Await(p)
               \/ Decompress(p)
         \/ p = 0 /\ Read
         \/ p = 0 /\ Collect
         \/ Multiply(p)
         \/ GiveBlock(p)
<1> QED
  BY DEF Step, BcastStep

\* The method is fixed, so the number of parts of a call is.
LEMMA PartsSame ==
  ASSUME method' = method
  PROVE  /\ \A k \in Calls : Parts(k)' = Parts(k)
         /\ \A k \in Calls : Checked(k)' = Checked(k)
         /\ Arrived' = Arrived
<1> QED
  BY DEF Parts, Checked, Arrived

\* A rank in a checked call is in one that has data.
LEMMA CheckedCall ==
  ASSUME NEW p \in Ranks, call[p] \in Calls, Checked(call[p])
  PROVE  call[p] \in 1..NCalls /\ method \in Checking
<1> QED
  BY Basics DEF Checked, Calls

\* What a rank leaves behind when a call returns.
LEMMA ReturnType ==
  ASSUME BTypeOK, NEW p \in Ranks, call[p] \in Calls, Return(p)
  PROVE  /\ call' \in [Ranks -> 0..(NCalls + 1)]
         /\ i' \in [Ranks -> Nat]
         /\ block' \in [Ranks -> [AllBlocks -> Pattern]]
         /\ crc_ok' \in [Ranks -> {"y", "n"}]
<1> QED
  BY Basics, IntactAre DEF BTypeOK, Return, SetI, Calls

\* Every step of the broadcasts keeps the types of their variables.
LEMMA TypeStep ==
  ASSUME BTypeOK, Places, NEW p \in Ranks, Step(p)
  PROVE  BTypeOK'
<1> USE DEF At
<1>0. method' = method
  BY StepCases DEF mvars, Post, RootGathers, TakeVerdicts, Resend, RootReturns, Receive,
       EndUnchecked, CheckByDraw, Check, Decode, GiveVerdict, Await, Decompress,
       Read, Collect, Multiply, GiveBlock
<1>p. \A k \in Calls : Parts(k)' = Parts(k)
  BY <1>0, PartsSame
<1>1. CASE p = 0 /\ Post
  <2>1. Parts(call[0]) \in Nat /\ i[0] \in Nat /\ i[0] + 1 <= Parts(call[0])
    BY <1>1, Basics, PartsAre DEF Post, BTypeOK
  <2>2. i' \in [Ranks -> Nat]
    BY <1>1, <2>1, Basics DEF Post, SetI, BTypeOK
  <2>3. posted' \in [Calls -> Nat] /\ \A k \in Calls : posted'[k] <= Parts(k)'
    BY <1>1, <1>p, <2>1 DEF Post, BTypeOK
  <2> QED
    BY <1>1, <2>2, <2>3 DEF Post, BTypeOK
<1>2. CASE p = 0 /\ RootGathers
  BY <1>2, <1>p DEF RootGathers, BTypeOK
<1>3. CASE p = 0 /\ TakeVerdicts
  <2>1. i' \in [Ranks -> Nat]
    BY <1>3 DEF TakeVerdicts, BTypeOK, SetI
  <2>2. gathered' \in [Calls -> [Ranks -> {"y", "n", "none"}]]
    BY <1>3, Basics DEF TakeVerdicts, BTypeOK
  <2> QED
    BY <1>3, <1>p, <2>1, <2>2 DEF TakeVerdicts, BTypeOK
<1>4. CASE p = 0 /\ Resend
  <2>1. i' \in [Ranks -> Nat]
    BY <1>4, Basics DEF Resend, BTypeOK, SetI
  <2>2. resend' \in Nat /\ mail' \subseteq Calls \X Ranks
    BY <1>4, Basics DEF Resend, BTypeOK
  <2> QED
    BY <1>4, <1>p, <2>1, <2>2 DEF Resend, BTypeOK
<1>5. CASE p = 0 /\ RootReturns
  BY <1>5, <1>p, ReturnType DEF RootReturns, BTypeOK
<1>6. CASE Receive(p)
  <2>1. i' \in [Ranks -> Nat]
    BY <1>6 DEF Receive, BTypeOK, SetI
  <2> QED
    BY <1>6, <1>p, <2>1 DEF Receive, BTypeOK
<1>7. CASE EndUnchecked(p)
  <2>1. held' \in [Calls -> [Ranks -> {"unset", "exact", "decompressed", "damaged"}]]
    BY <1>7 DEF EndUnchecked, BTypeOK, Arrived
  <2> QED
    BY <1>7, <1>p, <2>1, ReturnType DEF EndUnchecked, BTypeOK
<1>8. CASE CheckByDraw(p)
  <2>1. crc_ok' \in [Ranks -> {"y", "n"}]
    BY <1>8 DEF CheckByDraw, BTypeOK
  <2> QED
    BY <1>8, <1>p, <2>1 DEF CheckByDraw, BTypeOK
<1>9. CASE Check(p)
  <2>1. PICK f \in Flips(call[p]) :
          /\ block' = [block EXCEPT ![p] =
                         [x \in AllBlocks |-> IF x \in DOMAIN f
                                              THEN [Intact EXCEPT !.data = f[x]]
                                              ELSE Intact]]
          /\ overload' = IF \E x \in DOMAIN f : f[x] > 2 THEN overload \cup {p}
                         ELSE overload
    BY <1>9 DEF Check
  <2>2. f \in [Blocks(call[p]) -> Nat]
    BY <1>9, CheckedCall, FlipsAre DEF Check, AllPosted
  <2>3. [x \in AllBlocks |-> IF x \in DOMAIN f THEN [Intact EXCEPT !.data = f[x]]
                             ELSE Intact] \in [AllBlocks -> Pattern]
    BY <2>2, IntactAre
  <2>4. block' \in [Ranks -> [AllBlocks -> Pattern]]
    BY <2>1, <2>3 DEF BTypeOK
  <2>5. overload' \subseteq Ranks
    BY <2>1 DEF BTypeOK
  <2>6. i' \in [Ranks -> Nat]
    BY <1>9 DEF Check, BTypeOK, SetI
  <2> QED
    BY <1>9, <1>p, <2>4, <2>5, <2>6 DEF Check, BTypeOK
<1>10. CASE Decode(p)
  <2>1. PICK o \in Outcomes(block[p][i[p]]) :
          /\ block' = [block EXCEPT ![p][i[p]] = o.left]
          /\ crc_ok' = [crc_ok EXCEPT ![p] = IF o.type = TwoBit THEN "n" ELSE @]
    BY <1>10 DEF Decode
  <2>2. i[p] \in AllBlocks
    BY <1>10, BlocksAre DEF Decode, Places
  <2>3. o.left \in Pattern
    BY <2>2, OutcomesType DEF BTypeOK
  <2>4. block' \in [Ranks -> [AllBlocks -> Pattern]]
    BY <2>1, <2>2, <2>3 DEF BTypeOK
  <2>5. crc_ok' \in [Ranks -> {"y", "n"}]
    BY <2>1 DEF BTypeOK
  <2>6. i' \in [Ranks -> Nat]
    BY <1>10 DEF Decode, BTypeOK, SetI
  <2> QED
    BY <1>10, <1>p, <2>4, <2>5, <2>6 DEF Decode, BTypeOK
<1>11. CASE GiveVerdict(p)
  <2>1. gathered' \in [Calls -> [Ranks -> {"y", "n", "none"}]]
    BY <1>11 DEF GiveVerdict, BTypeOK
  <2> QED
    BY <1>11, <1>p, <2>1 DEF GiveVerdict, BTypeOK
<1>12. CASE Await(p)
  <2>1. PICK m \in mail :
          /\ mail' = mail \ {m}
          /\ block' = [block EXCEPT ![p] =
                         IF m[1] = call[p] THEN AllIntact
                         ELSE [x \in AllBlocks |-> [Intact EXCEPT !.data = 1]]]
    BY <1>12 DEF Await
  <2>2. [x \in AllBlocks |-> [Intact EXCEPT !.data = 1]] \in [AllBlocks -> Pattern]
    BY IntactAre
  <2>3. block' \in [Ranks -> [AllBlocks -> Pattern]]
    BY <2>1, <2>2, IntactAre DEF BTypeOK
  <2>4. mail' \subseteq Calls \X Ranks
    BY <2>1 DEF BTypeOK
  <2>5. UNCHANGED <<method, eager, call, i, posted, crc_ok, gathered, resend, held, overload>>
    BY <1>12 DEF Await
  <2> QED
    BY <1>p, <2>3, <2>4, <2>5 DEF BTypeOK
<1>13. CASE Decompress(p)
  <2>1. held' \in [Calls -> [Ranks -> {"unset", "exact", "decompressed", "damaged"}]]
    BY <1>13 DEF Decompress, BTypeOK, Arrived
  <2> QED
    BY <1>13, <1>p, <2>1, ReturnType DEF Decompress, BTypeOK
<1>14. CASE (p = 0 /\ (Read \/ Collect)) \/ Multiply(p) \/ GiveBlock(p)
  BY <1>14, <1>p DEF Read, Collect, Multiply, GiveBlock, BTypeOK
<1> QED
  BY <1>1, <1>2, <1>3, <1>4, <1>5, <1>6, <1>7, <1>8, <1>9, <1>10, <1>11, <1>12, <1>13,
     <1>14, StepCases

-----------------------------------------------------------------------------
(* Where the ranks are. *)

\* The input never changes, and a step of rank p is one of p only.
LEMMA Alone ==
  ASSUME BTypeOK, Places, NEW p \in Ranks, Step(p)
  PROVE  /\ UNCHANGED <<method, eager, input>>
         /\ \A q \in Ranks \ {p} : /\ pc'[q] = pc[q] /\ call'[q] = call[q] /\ i'[q] = i[q]
                                   /\ block'[q] = block[q] /\ crc_ok'[q] = crc_ok[q]
         /\ \A q \in Ranks \ {p}, k \in Calls : held'[k][q] = held[k][q]
         /\ \A q \in Ranks \ {p} : (q \in overload') <=> (q \in overload)
         /\ overload \subseteq overload'
<1> USE DEF At, GoTo, SetI, BTypeOK, Places
<1>1. CASE UNCHANGED mvars /\ ((p = 0 /\ Post) \/ Receive(p))
  BY <1>1 DEF Post, Receive, mvars
<1>2. CASE UNCHANGED mvars /\ p = 0 /\ (RootGathers \/ TakeVerdicts \/ Resend)
  BY <1>2 DEF RootGathers, TakeVerdicts, Resend, mvars
<1>3. CASE UNCHANGED mvars /\ p = 0 /\ RootReturns
  BY <1>3 DEF RootReturns, Return, mvars
<1>4. CASE UNCHANGED mvars /\ EndUnchecked(p)
  BY <1>4 DEF EndUnchecked, Return, mvars
<1>5. CASE UNCHANGED mvars /\ (CheckByDraw(p) \/ GiveVerdict(p))
  BY <1>5 DEF CheckByDraw, GiveVerdict, mvars
<1>6. CASE UNCHANGED mvars /\ Check(p)
  <2>1. UNCHANGED <<method, eager, call, crc_ok, held, input>>
    BY <1>6 DEF Check, mvars
  <2>2. \A q \in Ranks \ {p} : pc'[q] = pc[q] /\ i'[q] = i[q] /\ block'[q] = block[q]
    BY <1>6 DEF Check
  <2>3. overload' = overload \/ overload' = overload \cup {p}
    BY <1>6 DEF Check
  <2> QED
    BY <2>1, <2>2, <2>3
<1>7. CASE UNCHANGED mvars /\ Decode(p)
  BY <1>7 DEF Decode, mvars
<1>8. CASE UNCHANGED mvars /\ Await(p)
  BY <1>8 DEF Await, mvars
<1>9. CASE UNCHANGED mvars /\ Decompress(p)
  BY <1>9 DEF Decompress, Return, mvars
<1>10. CASE (p = 0 /\ (Read \/ Collect)) \/ Multiply(p) \/ GiveBlock(p)
  BY <1>10 DEF Read, Collect, Multiply, GiveBlock, mvars
<1> QED
  BY <1>1, <1>2, <1>3, <1>4, <1>5, <1>6, <1>7, <1>8, <1>9, <1>10, StepCases

\* Where one rank may be.
Place(p) ==
  /\ pc[p] \in Labels
  /\ pc[p] \in {"gather", "decode", "await", "resend", "decompress"} =>
       call[p] \in 1..NCalls /\ method \in Checking
  /\ pc[p] \in {"collect", "finalized"} => call[p] = NCalls + 1
  /\ pc[p] \in {"read", "exit"} => p = 0 /\ call[p] = 0
  /\ pc[p] = "resend" => p = 0 /\ i[p] \in 0..Procs
  /\ pc[p] \in {"await", "decompress"} => p # 0
  /\ pc[p] = "decode" => p # 0 /\ i[p] \in Blocks(call[p])

\* A rank stays where the program has a place for it.
LEMMA PlaceStep ==
  ASSUME BTypeOK, Places, NEW p \in Ranks, Step(p)
  PROVE  Place(p)'
<1> USE DEF At, GoTo, SetI
<1>0. Place(p) /\ pc \in [Ranks -> Labels] /\ i \in [Ranks -> Nat]
      /\ call \in [Ranks -> 0..(NCalls + 1)] /\ p \in Nat
  BY Basics DEF Places, Place, BTypeOK
<1>m. method' = method
  BY Alone
<1>1. CASE (p = 0 /\ Post) \/ Receive(p)
  BY <1>1, <1>0, <1>m DEF Post, Receive, Place
<1>2. CASE p = 0 /\ RootGathers
  <2>1. call[p] \in 1..NCalls /\ method \in Checking
    BY <1>2, CheckedCall DEF RootGathers, AllPosted
  <2>2. pc'[p] = "gather" /\ call'[p] = call[p]
    BY <1>2, <1>0 DEF RootGathers
  <2> QED
    BY <2>1, <2>2, <1>m DEF Place, Labels
<1>3. CASE p = 0 /\ TakeVerdicts
  <2>1. pc'[p] = "resend" /\ i'[p] = 0 /\ call'[p] = call[p] /\ pc[p] = "gather"
    BY <1>3, <1>0 DEF TakeVerdicts
  <2> QED
    BY <1>3, <2>1, <1>0, <1>m, Basics DEF Place, Labels
<1>4. CASE p = 0 /\ Resend
  <2>1. pc'[p] = pc[p] /\ i'[p] = i[p] + 1 /\ call'[p] = call[p] /\ i[p] \in Ranks
        /\ pc[p] = "resend"
    BY <1>4, <1>0 DEF Resend
  <2>2. i'[p] \in 0..Procs
    BY <2>1, Basics DEF Ranks
  <2> QED
    BY <1>4, <2>1, <2>2, <1>0, <1>m DEF Place
<1>5. CASE (p = 0 /\ RootReturns) \/ EndUnchecked(p) \/ Decompress(p)
  <2>1. pc'[p] = "bcast"
    BY <1>5, <1>0 DEF RootReturns, EndUnchecked, Decompress, Return
  <2> QED
    BY <2>1 DEF Place, Labels
<1>6. CASE CheckByDraw(p)
  <2>1. call[p] \in 1..NCalls /\ method \in Checking
    BY <1>6, CheckedCall DEF CheckByDraw, AllPosted
  <2>2. pc'[p] = "gather" /\ call'[p] = call[p]
    BY <1>6, <1>0 DEF CheckByDraw
  <2> QED
    BY <2>1, <2>2, <1>m DEF Place, Labels
<1>7. CASE Check(p)
  <2>1. call[p] \in 1..NCalls /\ method \in Checking
    BY <1>7, CheckedCall DEF Check, AllPosted
  <2>2. pc'[p] \in {"gather", "decode"} /\ call'[p] = call[p] /\ i'[p] = 0 /\ p # 0
    BY <1>7, <1>0 DEF Check
  <2>3. 0 \in Blocks(call[p])
    BY <2>1, BlocksAre
  <2>4. Blocks(call[p])' = Blocks(call[p])
    BY <2>2 DEF Blocks
  <2> QED
    BY <2>1, <2>2, <2>3, <2>4, <1>m DEF Place, Labels
<1>8. CASE Decode(p)
  <2>1. call[p] \in 1..NCalls /\ method \in Checking /\ p # 0
    BY <1>8, <1>0 DEF Decode, Place
  <2>2. /\ pc'[p] = "gather" \/ (pc'[p] = "decode" /\ i[p] + 1 \in Blocks(call[p]))
        /\ call'[p] = call[p] /\ i'[p] = i[p] + 1
    BY <1>8, <1>0 DEF Decode
  <2>4. Blocks(call[p])' = Blocks(call[p])
    BY <2>2 DEF Blocks
  <2> QED
    BY <2>1, <2>2, <2>4, <1>m DEF Place, Labels
<1>9. CASE GiveVerdict(p)
  <2>1. pc'[p] \in {"await", "decompress"} /\ call'[p] = call[p] /\ pc[p] = "gather" /\ p # 0
    BY <1>9, <1>0 DEF GiveVerdict
  <2> QED
    BY <2>1, <1>0, <1>m DEF Place, Labels
<1>10. CASE Await(p)
  <2>1. pc'[p] = "decompress" /\ call'[p] = call[p] /\ pc[p] = "await"
    BY <1>10, <1>0 DEF Await
  <2> QED
    BY <2>1, <1>0, <1>m DEF Place, Labels
<1>11. CASE p = 0 /\ Read
  <2>1. pc'[p] \in {"bcast", "exit"} /\ call'[p] = call[p] /\ pc[p] = "read"
    BY <1>11, <1>0 DEF Read
  <2> QED
    BY <1>11, <2>1, <1>0 DEF Place, Labels
<1>12. CASE p = 0 /\ Collect
  <2>1. pc'[p] = "finalized" /\ call'[p] = call[p] /\ pc[p] = "collect"
    BY <1>12, <1>0 DEF Collect
  <2> QED
    BY <2>1, <1>0 DEF Place, Labels
<1>13. CASE Multiply(p)
  <2>1. pc'[p] = "collect" /\ call'[p] = NCalls + 1
    BY <1>13, <1>0 DEF Multiply
  <2> QED
    BY <2>1, <1>0 DEF Place, Labels
<1>14. CASE GiveBlock(p)
  <2>1. pc'[p] = "finalized" /\ call'[p] = call[p] /\ pc[p] = "collect"
    BY <1>14, <1>0 DEF GiveBlock
  <2> QED
    BY <2>1, <1>0 DEF Place, Labels
<1> QED
  BY <1>1, <1>2, <1>3, <1>4, <1>5, <1>6, <1>7, <1>8, <1>9, <1>10, <1>11, <1>12, <1>13,
     <1>14, StepCases

\* The places of all ranks.
LEMMA PlacesStep ==
  ASSUME BTypeOK, Places, NEW p \in Ranks, Step(p)
  PROVE  Places'
<1>1. Place(p)'
  BY PlaceStep
<1>2. \A q \in Ranks \ {p} : Place(q)'
  <2> SUFFICES ASSUME NEW q \in Ranks \ {p} PROVE Place(q)'
    OBVIOUS
  <2>1. pc'[q] = pc[q] /\ call'[q] = call[q] /\ i'[q] = i[q] /\ method' = method
    BY Alone
  <2>2. Place(q)
    BY DEF Places, Place
  <2>3. Blocks(call[q])' = Blocks(call[q])
    BY <2>1 DEF Blocks
  <2> QED
    BY <2>1, <2>2, <2>3 DEF Place
<1>3. \A q \in Ranks : Place(q)'
  BY <1>1, <1>2
<1>4. \E l : pc' = [pc EXCEPT ![p] = l] \/ pc' = pc
  BY StepCases DEF GoTo, Return, Post, RootGathers, TakeVerdicts, Resend, RootReturns,
     Receive, EndUnchecked, CheckByDraw, Check, Decode, GiveVerdict, Await, Decompress,
     Read, Collect, Multiply, GiveBlock
<1>5. DOMAIN pc' = Ranks /\ pc' = [q \in Ranks |-> pc'[q]]
  BY <1>4 DEF Places
<1>6. pc' \in [Ranks -> Labels]
  BY <1>3, <1>5 DEF Place
<1>7. input' \in Inputs
  BY Alone DEF Places
<1> QED
  BY <1>3, <1>6, <1>7 DEF Place, Places

\* Nothing is sent before rank 0 has accepted its input.
LEMMA AdmittedStep ==
  ASSUME BTypeOK, Places, Admitted, NEW p \in Ranks, Step(p)
  PROVE  Admitted'
<1> USE DEF At, GoTo, SetI
<1>0. Accepted' = Accepted
  BY Alone DEF Accepted, a, b
<1>t. /\ pc \in [Ranks -> Labels] /\ i \in [Ranks -> Nat] /\ posted \in [Calls -> Nat]
      /\ call \in [Ranks -> 0..(NCalls + 1)] /\ 0 \in Ranks /\ 0 \in Calls
      /\ Receivers = Ranks \ {0}
      /\ method \in Methods /\ Parts(0) = 1
  BY Basics, PartsAre DEF BTypeOK, Places, Receivers
<1>1. CASE p = 0
  <2>r. \A q \in Receivers : call'[q] = call[q] /\ i'[q] = i[q]
    BY <1>1, <1>t, Alone
  <2>1. CASE Read
    <3>1. pc[0] = "read" /\ posted' = posted
          /\ pc'[0] = (IF Accepted THEN "bcast" ELSE "exit")
      BY <1>t, <2>1 DEF Read
    <3> QED
      BY <2>r, <3>1, <1>0 DEF Admitted
  <2>2. CASE ~Read
    <3>1. pc[0] \notin {"read", "exit"} /\ pc'[0] \notin {"read", "exit"}
      BY <1>1, <2>2, <1>t, StepCases DEF Return, Post, RootGathers, TakeVerdicts, Resend,
         RootReturns, Receive, EndUnchecked, CheckByDraw, Check, Decode, GiveVerdict, Await,
         Decompress, Collect, Multiply, GiveBlock, AllPosted
    <3> QED
      BY <2>r, <3>1, <1>0 DEF Admitted
  <2> QED
    BY <2>1, <2>2
<1>2. CASE p # 0
  <2>r. pc'[0] = pc[0] /\ \A q \in Receivers \ {p} : call'[q] = call[q] /\ i'[q] = i[q]
    BY <1>2, <1>t, Alone
  <2>1. posted' = posted
    BY <1>2, StepCases DEF Receive, EndUnchecked, CheckByDraw, Check, Decode, GiveVerdict,
       Await, Decompress, Multiply, GiveBlock
  <2>2. call'[p] > 0 \/ i'[p] > 0 => call[p] > 0 \/ i[p] > 0 \/ posted[0] > 0
    <3> SUFFICES ASSUME call[p] = 0, i[p] = 0, posted[0] = 0
                 PROVE  call'[p] = 0 /\ i'[p] = 0
      BY <1>t
    <3>1. pc[p] \in {"bcast"}
      BY <1>2, <1>t, Basics DEF Places, Labels
    <3>2. ~AllPosted(p) /\ ~Receive(p) /\ ~EndUnchecked(p)
      BY <1>t, <3>1 DEF AllPosted, Receive, EndUnchecked
    <3>3. ~Multiply(p) /\ ~GiveBlock(p) /\ ~Decode(p) /\ ~GiveVerdict(p) /\ ~Await(p)
          /\ ~Decompress(p)
      BY <3>1, Basics DEF Multiply, GiveBlock, Decode, GiveVerdict, Await, Decompress
    <3> QED
      BY <1>2, <3>2, <3>3, StepCases DEF CheckByDraw, Check
  <2> QED
    BY <1>t, <2>r, <2>1, <2>2, <1>0 DEF Admitted
<1> QED
  BY <1>1, <1>2

-----------------------------------------------------------------------------
(* Verdicts and second copies. *)

Asking == {"bcast", "decode", "gather"}

\* The part of Protocol about the broadcasts.
Exchange == Verdicts /\ Copies /\ resend = Cardinality(Counted)

\* The counted copies are finitely many.
LEMMA CountedFinite == IsFiniteSet(Counted)
<1>1. IsFiniteSet(Calls) /\ IsFiniteSet(Ranks)
  <2>1. 0 \in Int /\ NCalls \in Int /\ Procs - 1 \in Int
    BY Basics
  <2> QED
    BY <2>1, FS_Interval DEF Calls, Ranks
<1>2. IsFiniteSet(Receivers)
  BY <1>1, FS_Subset DEF Receivers
<1>3. IsFiniteSet(Calls \X Receivers)
  BY <1>1, <1>2, FS_Product
<1>4. Counted \subseteq Calls \X Receivers
  BY DEF Counted, Asked
<1> QED
  BY <1>3, <1>4, FS_Subset

\* Steps that give no verdict, send no copy and do not make a rank wait or go on.
LEMMA Undisturbed ==
  ASSUME Exchange, UNCHANGED <<call, gathered, mail, resend, method>>,
         \A k \in Calls, q \in Receivers : Served(k, q)' = Served(k, q),
         \A k \in Calls, q \in Receivers : Waits(k, q)' = Waits(k, q),
         \A q \in Receivers : call[q] \in Calls /\ pc'[q] \in Asking => pc[q] \in Asking,
         pc'[0] = "resend" => pc[0] = "resend",
         mail \subseteq Calls \X Ranks
  PROVE  Exchange'
<1>1. \A k \in Calls : Checked(k)' = Checked(k)
  BY PartsSame
<1>2. Verdicts'
  BY <1>1 DEF Exchange, Verdicts, Asking
<1>3. Copies'
  <2> SUFFICES ASSUME NEW m \in mail
               PROVE  m[2] \in Receivers /\ Served(m[1], m[2])' /\ Waits(m[1], m[2])'
    BY DEF Copies
  <2>1. m[1] \in Calls
    OBVIOUS
  <2> QED
    BY <2>1 DEF Exchange, Copies
<1>4. Asked' = Asked
  BY DEF Asked
<1>5. Counted' = Counted
  <2>1. \A m \in Asked : m[1] \in Calls /\ m[2] \in Receivers
    BY DEF Asked
  <2>2. \A m \in Asked : Served(m[1], m[2])' = Served(m[1], m[2])
    BY <2>1
  <2> QED
    BY <1>4, <2>2 DEF Counted
<1> QED
  BY <1>2, <1>3, <1>5 DEF Exchange

\* Receiving a part, and looking at what has come.
LEMMA ReceiverExchange ==
  ASSUME BTypeOK, Places, Exchange, NEW p \in Receivers,
         Receive(p) \/ CheckByDraw(p) \/ Check(p) \/ Decode(p)
  PROVE  Exchange'
<1>1. /\ pc \in [Ranks -> Labels] /\ p \in Ranks /\ p # 0 /\ 0 \in Ranks
      /\ mail \subseteq Calls \X Ranks /\ Receivers \subseteq Ranks
  BY Basics DEF BTypeOK, Places
<1>2. UNCHANGED <<call, gathered, mail, resend, method>>
  BY DEF Receive, CheckByDraw, Check, Decode
<1>3. i'[0] = i[0]
  BY <1>1 DEF Receive, CheckByDraw, Check, Decode, SetI, BTypeOK
<1>4. /\ pc[p] \in Asking /\ pc'[p] \in Asking
      /\ \A q \in Ranks \ {p} : pc'[q] = pc[q]
  BY <1>1 DEF Receive, CheckByDraw, Check, Decode, GoTo, Asking, AllPosted, At
<1>5. pc'[0] = pc[0]
  BY <1>1, <1>4
<1>6. \A k \in Calls, q \in Receivers : Served(k, q)' = Served(k, q)
  BY <1>2, <1>3, <1>5 DEF Served
<1>7. \A k \in Calls, q \in Receivers : Waits(k, q)' = Waits(k, q)
  BY <1>1, <1>2, <1>4 DEF Waits, Asking
<1>8. \A q \in Receivers : pc'[q] \in Asking => pc[q] \in Asking
  BY <1>1, <1>4
<1> QED
  BY <1>1, <1>2, <1>5, <1>6, <1>7, <1>8, Undisturbed

\* The root before it has the verdicts, and what follows the broadcasts.
LEMMA OtherExchange ==
  ASSUME BTypeOK, Places, Exchange, NEW p \in Ranks,
         \/ p = 0 /\ (Post \/ RootGathers \/ Read \/ Collect)
         \/ Multiply(p)
         \/ GiveBlock(p)
  PROVE  Exchange'
<1>1. /\ pc \in [Ranks -> Labels] /\ 0 \in Ranks
      /\ mail \subseteq Calls \X Ranks /\ Receivers = Ranks \ {0}
      /\ NCalls + 1 \notin Calls
  BY Basics DEF BTypeOK, Places, Receivers
<1>2. UNCHANGED <<call, gathered, mail, resend, method>>
  BY DEF Post, RootGathers, Read, Collect, Multiply, GiveBlock
<1>3. i' = i \/ p = 0
  BY DEF Post, RootGathers, Read, Collect, Multiply, GiveBlock
<1>4. /\ pc[p] \notin {"resend", "await"} /\ pc'[p] \notin {"resend", "await"}
      /\ \A q \in Ranks \ {p} : pc'[q] = pc[q]
  BY <1>1 DEF Post, RootGathers, Read, Collect, Multiply, GiveBlock, GoTo, AllPosted, At
<1>5. pc'[0] = "resend" <=> pc[0] = "resend"
  BY <1>1, <1>4
<1>6. i'[0] = i[0] \/ pc[0] # "resend"
  BY <1>3, <1>4
<1>7. \A k \in Calls, q \in Receivers : Served(k, q)' = Served(k, q)
  BY <1>2, <1>5, <1>6 DEF Served
<1>8. \A k \in Calls, q \in Receivers : Waits(k, q)' = Waits(k, q)
  BY <1>1, <1>2, <1>4 DEF Waits
<1>9. \A q \in Receivers : call[q] \in Calls /\ pc'[q] \in Asking => pc[q] \in Asking
  <2> SUFFICES ASSUME NEW q \in Receivers, q = p, call[q] \in Calls, pc'[q] \in Asking
               PROVE  pc[q] \in Asking
    BY <1>1, <1>4
  <2>1. p # 0 /\ call[p] \in Calls
    BY <1>1
  <2> QED
    BY <1>1, <2>1 DEF Multiply, GiveBlock, Places, GoTo, Asking
<1> QED
  BY <1>1, <1>2, <1>5, <1>7, <1>8, <1>9, Undisturbed

\* Calls return on receivers that do not wait.
LEMMA ReturnExchange ==
  ASSUME BTypeOK, Places, Exchange, NEW p \in Receivers,
         EndUnchecked(p) \/ Decompress(p)
  PROVE  Exchange'
<1>1. /\ pc \in [Ranks -> Labels] /\ p \in Ranks /\ p # 0 /\ 0 \in Ranks
      /\ mail \subseteq Calls \X Ranks /\ Receivers \subseteq Ranks
      /\ call \in [Ranks -> 0..3] /\ Calls = 0..2 /\ p \in Nat
  BY Basics DEF BTypeOK, Places
<1>2. UNCHANGED <<gathered, mail, resend, method>>
  BY DEF EndUnchecked, Decompress
<1>3. /\ pc[p] # "await" /\ pc'[p] = "bcast" /\ call'[p] = call[p] + 1
      /\ \A q \in Ranks \ {p} : pc'[q] = pc[q] /\ call'[q] = call[q] /\ i'[q] = i[q]
  BY <1>1 DEF EndUnchecked, Decompress, Return, At, GoTo, SetI, BTypeOK
<1>4. pc'[0] = pc[0] /\ call'[0] = call[0] /\ i'[0] = i[0]
  BY <1>1, <1>3
<1>5. \A k \in Calls, q \in Receivers : Served(k, q)' = Served(k, q)
  BY <1>4 DEF Served
<1>6. \A k \in Calls, q \in Receivers : Waits(k, q)' = Waits(k, q)
  BY <1>1, <1>3 DEF Waits
<1>7. \A k \in Calls : Checked(k)' = Checked(k)
  BY <1>2, PartsSame
<1>8. Verdicts'
  <2> SUFFICES ASSUME NEW k \in Calls, NEW q \in Receivers
               PROVE  /\ call'[q] < k \/ ~Checked(k) => gathered[k][q] = "none"
                      /\ call'[q] = k /\ pc'[q] \in Asking => gathered[k][q] = "none"
                      /\ Checked(k) /\ (call'[0] > k \/ (call'[0] = k /\ pc'[0] = "resend"))
                           => gathered[k][q] # "none"
                      /\ gathered[k][q] = "n" /\ ~Served(k, q) => Waits(k, q)
    BY <1>2, <1>5, <1>6, <1>7 DEF Verdicts, Asking
  <2>1. CASE q = p
    BY <1>1, <1>3, <1>4, <2>1 DEF Exchange, Verdicts
  <2>2. CASE q # p
    BY <1>1, <1>3, <1>4, <2>2 DEF Exchange, Verdicts, Asking
  <2> QED
    BY <2>1, <2>2
<1>9. Copies'
  <2> SUFFICES ASSUME NEW m \in mail
               PROVE  m[2] \in Receivers /\ Served(m[1], m[2])' /\ Waits(m[1], m[2])'
    BY <1>2 DEF Copies
  <2>1. m[1] \in Calls
    BY <1>1
  <2> QED
    BY <1>5, <1>6, <2>1 DEF Exchange, Copies
<1>10. Counted' = Counted
  <2>1. Asked' = Asked
    BY <1>2 DEF Asked
  <2>2. \A m \in Asked : Served(m[1], m[2])' = Served(m[1], m[2])
    BY <1>5 DEF Asked
  <2> QED
    BY <2>1, <2>2 DEF Counted
<1> QED
  BY <1>2, <1>8, <1>9, <1>10 DEF Exchange

\* The root's calls return: it has come past every rank, or nobody was asked.
LEMMA RootReturnExchange ==
  ASSUME BTypeOK, Places, Exchange, RootReturns \/ EndUnchecked(0)
  PROVE  Exchange'
<1>1. /\ pc \in [Ranks -> Labels] /\ 0 \in Ranks
      /\ mail \subseteq Calls \X Ranks /\ Receivers = Ranks \ {0}
      /\ call \in [Ranks -> 0..3] /\ Calls = 0..2 /\ Ranks = 0..(Procs - 1) /\ Procs \in Nat
  BY Basics DEF BTypeOK, Places, Receivers, Ranks
<1>2. UNCHANGED <<gathered, mail, resend, method>>
  BY DEF EndUnchecked, RootReturns
<1>3. /\ call[0] \in Calls /\ pc'[0] = "bcast" /\ call'[0] = call[0] + 1
      /\ \A q \in Receivers : pc'[q] = pc[q] /\ call'[q] = call[q]
  BY <1>1 DEF EndUnchecked, RootReturns, Return, At, GoTo, SetI, BTypeOK
<1>4. \A k \in Calls, q \in Receivers :
        Served(k, q)' <=> Served(k, q) \/ (k = call[0] /\ ~Checked(k))
  <2>1. CASE RootReturns
    <3>1. pc[0] = "resend" /\ i[0] = Procs /\ Checked(call[0])
      BY <1>1, <2>1 DEF RootReturns, At, Places, Checked
    <3> QED
      BY <1>1, <1>3, <3>1 DEF Served
  <2>2. CASE EndUnchecked(0)
    <3>1. pc[0] = "bcast" /\ ~Checked(call[0])
      BY <2>2 DEF EndUnchecked, At
    <3> QED
      BY <1>1, <1>3, <3>1 DEF Served
  <2> QED
    BY <2>1, <2>2
<1>5. \A k \in Calls, q \in Receivers : Waits(k, q)' = Waits(k, q)
  BY <1>3 DEF Waits
<1>6. \A k \in Calls : Checked(k)' = Checked(k)
  BY <1>2, PartsSame
<1>7. ~Checked(call[0]) \/ pc[0] = "resend"
  BY DEF RootReturns, EndUnchecked, At
<1>8. Verdicts'
  <2> SUFFICES ASSUME NEW k \in Calls, NEW q \in Receivers
               PROVE  /\ call'[q] < k \/ ~Checked(k) => gathered[k][q] = "none"
                      /\ call'[q] = k /\ pc'[q] \in Asking => gathered[k][q] = "none"
                      /\ Checked(k) /\ (call'[0] > k \/ (call'[0] = k /\ pc'[0] = "resend"))
                           => gathered[k][q] # "none"
                      /\ gathered[k][q] = "n" /\ ~Served(k, q)' => Waits(k, q)'
    BY <1>2, <1>6 DEF Verdicts, Asking
  <2> QED
    BY <1>1, <1>3, <1>4, <1>5, <1>7 DEF Exchange, Verdicts, Asking
<1>9. Copies'
  <2> SUFFICES ASSUME NEW m \in mail
               PROVE  m[2] \in Receivers /\ Served(m[1], m[2])' /\ Waits(m[1], m[2])'
    BY <1>2 DEF Copies
  <2>1. m[1] \in Calls
    BY <1>1
  <2> QED
    BY <1>4, <1>5, <2>1 DEF Exchange, Copies
<1>10. Counted' = Counted
  <2>1. Asked' = Asked
    BY <1>2 DEF Asked
  <2>2. \A m \in Asked : m[1] \in Calls /\ m[2] \in Receivers /\ Checked(m[1])
    BY DEF Asked, Exchange, Verdicts
  <2>3. \A m \in Asked : Served(m[1], m[2])' <=> Served(m[1], m[2])
    BY <1>4, <2>2
  <2> QED
    BY <2>1, <2>3 DEF Counted
<1> QED
  BY <1>2, <1>8, <1>9, <1>10 DEF Exchange

\* A verdict is given while the root is not yet past the gather.
LEMMA VerdictExchange ==
  ASSUME BTypeOK, Places, Exchange, NEW p \in Receivers, GiveVerdict(p)
  PROVE  Exchange'
<1> DEFINE kp == call[p]
<1>1. /\ pc \in [Ranks -> Labels] /\ p \in Ranks /\ p # 0 /\ 0 \in Ranks
      /\ mail \subseteq Calls \X Ranks /\ Receivers \subseteq Ranks
      /\ gathered \in [Calls -> [Ranks -> {"y", "n", "none"}]]
      /\ crc_ok[p] \in {"y", "n"}
  BY Basics DEF BTypeOK, Places
<1>2. /\ UNCHANGED <<call, i, mail, resend, method>>
      /\ pc[p] = "gather" /\ kp \in Calls
      /\ pc' = [pc EXCEPT ![p] = IF crc_ok[p] = "n" THEN "await" ELSE "decompress"]
      /\ gathered' = [gathered EXCEPT ![kp][p] = crc_ok[p]]
  BY DEF GiveVerdict, At, GoTo
<1>3. Checked(kp)
  BY <1>1, <1>2 DEF Places, Checked
<1>4. /\ pc'[0] = pc[0] /\ \A q \in Receivers \ {p} : pc'[q] = pc[q]
      /\ pc'[p] = IF crc_ok[p] = "n" THEN "await" ELSE "decompress"
  BY <1>1, <1>2
<1>5. /\ gathered'[kp][p] = crc_ok[p]
      /\ \A k \in Calls, q \in Receivers : <<k, q>> # <<kp, p>> => gathered'[k][q] = gathered[k][q]
  BY <1>1, <1>2
<1>6. gathered[kp][p] = "none"
  BY <1>2 DEF Exchange, Verdicts
<1>7. ~(call[0] > kp \/ (call[0] = kp /\ pc[0] = "resend"))
  BY <1>2, <1>3, <1>6 DEF Exchange, Verdicts
<1>8. ~Served(kp, p)
  BY <1>7 DEF Served
<1>9. \A k \in Calls, q \in Receivers : Served(k, q)' = Served(k, q)
  BY <1>2, <1>4 DEF Served
<1>10. \A k \in Calls, q \in Receivers : <<k, q>> # <<kp, p>> => (Waits(k, q)' <=> Waits(k, q))
  BY <1>2, <1>4 DEF Waits
<1>11. \A k \in Calls : Checked(k)' = Checked(k)
  BY <1>2, PartsSame
<1> HIDE DEF kp
<1>12. Verdicts'
  <2> SUFFICES ASSUME NEW k \in Calls, NEW q \in Receivers
               PROVE  /\ call[q] < k \/ ~Checked(k) => gathered'[k][q] = "none"
                      /\ call[q] = k /\ pc'[q] \in Asking => gathered'[k][q] = "none"
                      /\ Checked(k) /\ (call[0] > k \/ (call[0] = k /\ pc[0] = "resend"))
                           => gathered'[k][q] # "none"
                      /\ gathered'[k][q] = "n" /\ ~Served(k, q) => Waits(k, q)'
    BY <1>2, <1>4, <1>9, <1>11 DEF Verdicts, Asking
  <2>1. CASE k = kp /\ q = p
    <3>1. call[q] = k /\ ~(call[q] < k) /\ Checked(k)
      BY <2>1, <1>3, Basics DEF kp
    <3>2. pc'[q] \notin Asking
      BY <2>1, <1>4 DEF Asking
    <3>3. gathered'[k][q] = "n" => Waits(k, q)'
      BY <2>1, <1>2, <1>4, <1>5 DEF Waits, kp
    <3> QED
      BY <2>1, <3>1, <3>2, <3>3, <1>1, <1>5
  <2>2. CASE <<k, q>> # <<kp, p>>
    <3>1. gathered'[k][q] = gathered[k][q] /\ (Waits(k, q)' <=> Waits(k, q))
      BY <2>2, <1>5, <1>10
    <3>2. call[q] = k /\ pc'[q] \in Asking => pc[q] \in Asking
      BY <2>2, <1>4 DEF Asking, kp
    <3> QED
      BY <3>1, <3>2 DEF Exchange, Verdicts, Asking
  <2> QED
    BY <2>1, <2>2
<1>13. Copies'
  <2> SUFFICES ASSUME NEW m \in mail
               PROVE  m[2] \in Receivers /\ Served(m[1], m[2])' /\ Waits(m[1], m[2])'
    BY <1>2 DEF Copies
  <2>1. m[1] \in Calls /\ m[2] \in Receivers /\ Served(m[1], m[2]) /\ Waits(m[1], m[2])
    BY <1>1 DEF Exchange, Copies
  <2>2. m[2] # p
    BY <2>1, <1>2 DEF Waits
  <2> QED
    BY <2>1, <2>2, <1>9, <1>10
<1>14. Counted' = Counted
  <2> SUFFICES ASSUME NEW k \in Calls, NEW q \in Receivers
               PROVE  gathered'[k][q] = "n" /\ Served(k, q) <=> gathered[k][q] = "n" /\ Served(k, q)
    <3>1. Counted = {m \in Calls \X Receivers : gathered[m[1]][m[2]] = "n" /\ Served(m[1], m[2])}
      BY DEF Counted, Asked
    <3>2. Counted' = {m \in Calls \X Receivers : gathered'[m[1]][m[2]] = "n" /\ Served(m[1], m[2])'}
      BY DEF Counted, Asked
    <3> QED
      BY <3>1, <3>2, <1>9
  <2> QED
    BY <1>5, <1>8
<1> QED
  BY <1>2, <1>12, <1>13, <1>14 DEF Exchange

\* The copy a rank takes is the one it waits for.
LEMMA AwaitExchange ==
  ASSUME BTypeOK, Places, Exchange, NEW p \in Receivers, Await(p)
  PROVE  Exchange' /\ <<call[p], p>> \in mail
         /\ \A m \in mail : m[2] = p => m[1] = call[p]
<1>1. /\ pc \in [Ranks -> Labels] /\ p \in Ranks /\ p # 0 /\ 0 \in Ranks
      /\ mail \subseteq Calls \X Ranks /\ Receivers \subseteq Ranks
  BY Basics DEF BTypeOK, Places
<1>2. PICK m0 \in mail : m0[2] = p /\ mail' = mail \ {m0}
  BY DEF Await
<1>3. /\ UNCHANGED <<call, i, gathered, resend, method>>
      /\ pc[p] = "await" /\ pc' = [pc EXCEPT ![p] = "decompress"]
  BY DEF Await, At, GoTo
<1>4. pc'[0] = pc[0] /\ pc'[p] = "decompress" /\ \A q \in Receivers \ {p} : pc'[q] = pc[q]
  BY <1>1, <1>3
<1>5. \A m \in mail : m[2] = p => m = <<call[p], p>> /\ m[1] = call[p]
  <2> SUFFICES ASSUME NEW m \in mail, m[2] = p PROVE m = <<call[p], p>> /\ m[1] = call[p]
    OBVIOUS
  <2>1. Waits(m[1], m[2])
    BY DEF Exchange, Copies
  <2>2. m[1] = call[p]
    BY <2>1 DEF Waits
  <2>3. m = <<m[1], m[2]>>
    BY <1>1
  <2> QED
    BY <2>2, <2>3
<1>6. m0 = <<call[p], p>> /\ Served(call[p], p) /\ call[p] \in Calls
  BY <1>1, <1>2, <1>5 DEF Exchange, Copies
<1>7. \A k \in Calls, q \in Receivers : Served(k, q)' = Served(k, q)
  BY <1>3, <1>4 DEF Served
<1>8. \A k \in Calls, q \in Receivers \ {p} : Waits(k, q)' = Waits(k, q)
  BY <1>3, <1>4 DEF Waits
<1>9. \A k \in Calls : Checked(k)' = Checked(k)
  BY <1>3, PartsSame
<1>10. Verdicts'
  <2> SUFFICES ASSUME NEW k \in Calls, NEW q \in Receivers
               PROVE  /\ call[q] < k \/ ~Checked(k) => gathered[k][q] = "none"
                      /\ call[q] = k /\ pc'[q] \in Asking => gathered[k][q] = "none"
                      /\ Checked(k) /\ (call[0] > k \/ (call[0] = k /\ pc[0] = "resend"))
                           => gathered[k][q] # "none"
                      /\ gathered[k][q] = "n" /\ ~Served(k, q) => Waits(k, q)'
    BY <1>3, <1>4, <1>7, <1>9 DEF Verdicts, Asking
  <2>1. CASE q = p
    <3>1. pc'[q] \notin Asking
      BY <2>1, <1>4 DEF Asking
    <3>2. gathered[k][q] = "n" => Served(k, q)
      BY <2>1, <1>6 DEF Exchange, Verdicts, Waits
    <3> QED
      BY <3>1, <3>2 DEF Exchange, Verdicts
  <2>2. CASE q # p
    BY <2>2, <1>4, <1>8 DEF Exchange, Verdicts, Asking
  <2> QED
    BY <2>1, <2>2
<1>11. Copies'
  <2> SUFFICES ASSUME NEW m \in mail, m # m0
               PROVE  m[2] \in Receivers /\ Served(m[1], m[2])' /\ Waits(m[1], m[2])'
    BY <1>2 DEF Copies
  <2>1. m[1] \in Calls /\ m[2] \in Receivers /\ Served(m[1], m[2]) /\ Waits(m[1], m[2])
    BY <1>1 DEF Exchange, Copies
  <2>2. m[2] # p
    BY <1>5, <1>6
  <2> QED
    BY <2>1, <2>2, <1>7, <1>8
<1>12. Counted' = Counted
  <2>1. Asked' = Asked
    BY <1>3 DEF Asked
  <2>2. \A m \in Asked : Served(m[1], m[2])' = Served(m[1], m[2])
    BY <1>7 DEF Asked
  <2> QED
    BY <2>1, <2>2 DEF Counted
<1> QED
  BY <1>2, <1>3, <1>5, <1>6, <1>10, <1>11, <1>12 DEF Exchange

\* The root leaves the gather with a verdict of each receiver.
LEMMA TakeExchange ==
  ASSUME BTypeOK, Places, Exchange, TakeVerdicts
  PROVE  Exchange'
<1>1. /\ pc \in [Ranks -> Labels] /\ 0 \in Ranks
      /\ mail \subseteq Calls \X Ranks /\ Receivers = Ranks \ {0}
      /\ gathered \in [Calls -> [Ranks -> {"y", "n", "none"}]]
      /\ Receivers \subseteq Nat
  BY Basics DEF BTypeOK, Places, Receivers
<1>2. /\ UNCHANGED <<call, mail, resend, method>>
      /\ call[0] \in Calls /\ pc[0] = "gather"
      /\ \A q \in Receivers : gathered[call[0]][q] # "none"
      /\ pc'[0] = "resend" /\ i'[0] = 0 /\ \A q \in Receivers : pc'[q] = pc[q]
      /\ \A k \in Calls, q \in Receivers : gathered'[k][q] = gathered[k][q]
  BY <1>1 DEF TakeVerdicts, At, GoTo, SetI, BTypeOK
<1>3. \A k \in Calls, q \in Receivers : Served(k, q)' = Served(k, q)
  BY <1>1, <1>2 DEF Served
<1>4. \A k \in Calls, q \in Receivers : Waits(k, q)' = Waits(k, q)
  BY <1>2 DEF Waits
<1>5. \A k \in Calls : Checked(k)' = Checked(k)
  BY <1>2, PartsSame
<1>6. Verdicts'
  <2> SUFFICES ASSUME NEW k \in Calls, NEW q \in Receivers
               PROVE  /\ call[q] < k \/ ~Checked(k) => gathered[k][q] = "none"
                      /\ call[q] = k /\ pc[q] \in Asking => gathered[k][q] = "none"
                      /\ Checked(k) /\ (call[0] > k \/ call[0] = k)
                           => gathered[k][q] # "none"
                      /\ gathered[k][q] = "n" /\ ~Served(k, q) => Waits(k, q)
    BY <1>2, <1>3, <1>4, <1>5 DEF Verdicts, Asking
  <2> QED
    BY <1>2 DEF Exchange, Verdicts, Asking
<1>7. Copies'
  <2> SUFFICES ASSUME NEW m \in mail
               PROVE  m[2] \in Receivers /\ Served(m[1], m[2])' /\ Waits(m[1], m[2])'
    BY <1>2 DEF Copies
  <2>1. m[1] \in Calls
    BY <1>1
  <2> QED
    BY <1>3, <1>4, <2>1 DEF Exchange, Copies
<1>8. Counted' = Counted
  <2>1. Counted = {m \in Calls \X Receivers : gathered[m[1]][m[2]] = "n" /\ Served(m[1], m[2])}
    BY DEF Counted, Asked
  <2>2. Counted' = {m \in Calls \X Receivers : gathered'[m[1]][m[2]] = "n" /\ Served(m[1], m[2])'}
    BY DEF Counted, Asked
  <2> QED
    BY <2>1, <2>2, <1>2, <1>3
<1> QED
  BY <1>2, <1>6, <1>7, <1>8 DEF Exchange

\* One turn of the root's loop serves one rank.
LEMMA ResendExchange ==
  ASSUME BTypeOK, Places, Exchange, Resend
  PROVE  Exchange'
<1>0. PICK k0, q0, wanted : k0 = call[0] /\ q0 = i[0] /\ wanted = (q0 # 0 /\ gathered[k0][q0] = "n")
  OBVIOUS
<1>1. /\ 0 \in Ranks /\ mail \subseteq Calls \X Ranks /\ Receivers = Ranks \ {0}
      /\ Ranks \subseteq Nat /\ i \in [Ranks -> Nat]
  BY Basics DEF BTypeOK, Receivers
<1>2. /\ UNCHANGED <<call, pc, gathered, method>>
      /\ k0 \in Calls /\ pc[0] = "resend" /\ q0 \in Ranks
      /\ i'[0] = q0 + 1
      /\ IF wanted THEN mail' = mail \cup {<<k0, q0>>} /\ resend' = resend + 1
                   ELSE mail' = mail /\ resend' = resend
  BY <1>0, <1>1 DEF Resend, At, SetI, WantsCopy
<1>3. \A k \in Calls, q \in Receivers :
        Served(k, q)' <=> Served(k, q) \/ (k = k0 /\ q = q0)
  <2> SUFFICES ASSUME NEW k \in Calls, NEW q \in Receivers
               PROVE  Served(k, q)' <=> Served(k, q) \/ (k = k0 /\ q = q0)
    OBVIOUS
  <2>1. q \in Nat /\ q0 \in Nat /\ (q0 + 1 > q <=> q0 > q \/ q = q0)
    BY <1>1, <1>2
  <2> QED
    BY <2>1, <1>0, <1>2 DEF Served
<1>4. \A k \in Calls, q \in Receivers : Waits(k, q)' = Waits(k, q)
  BY <1>2 DEF Waits
<1>5. \A k \in Calls : Checked(k)' = Checked(k)
  BY <1>2, PartsSame
<1>6. ~Served(k0, q0)
  BY <1>0, <1>1, <1>2, Basics DEF Served, BTypeOK
<1>7. wanted => q0 \in Receivers /\ Waits(k0, q0)
  BY <1>0, <1>1, <1>2, <1>6 DEF Exchange, Verdicts
<1>8. Verdicts'
  <2> SUFFICES ASSUME NEW k \in Calls, NEW q \in Receivers
               PROVE  gathered[k][q] = "n" /\ ~Served(k, q)' => Waits(k, q)
    BY <1>2, <1>4, <1>5 DEF Exchange, Verdicts
  <2> QED
    BY <1>3 DEF Exchange, Verdicts
<1>9. Copies'
  <2>1. \A m \in mail : m[2] \in Receivers /\ Served(m[1], m[2])' /\ Waits(m[1], m[2])'
    <3> SUFFICES ASSUME NEW m \in mail
                 PROVE  m[2] \in Receivers /\ Served(m[1], m[2])' /\ Waits(m[1], m[2])'
      OBVIOUS
    <3>1. m[1] \in Calls /\ m[2] \in Receivers /\ Served(m[1], m[2]) /\ Waits(m[1], m[2])
      BY <1>1 DEF Exchange, Copies
    <3> QED
      BY <3>1, <1>3, <1>4
  <2>2. wanted => q0 \in Receivers /\ Served(k0, q0)' /\ Waits(k0, q0)'
    BY <1>2, <1>3, <1>4, <1>7
  <2>3. <<k0, q0>>[1] = k0 /\ <<k0, q0>>[2] = q0
    OBVIOUS
  <2>4. SUFFICES ASSUME NEW m \in mail'
                 PROVE  m[2] \in Receivers /\ Served(m[1], m[2])' /\ Waits(m[1], m[2])'
    BY DEF Copies
  <2>5. m \in mail \/ (wanted /\ m = <<k0, q0>>)
    BY <1>2
  <2> QED
    BY <2>1, <2>2, <2>3, <2>5
<1>10. resend' = Cardinality(Counted')
  <2>1. /\ Counted = {m \in Calls \X Receivers : gathered[m[1]][m[2]] = "n" /\ Served(m[1], m[2])}
        /\ Counted' = {m \in Calls \X Receivers : gathered[m[1]][m[2]] = "n" /\ Served(m[1], m[2])'}
    BY <1>2 DEF Counted, Asked
  <2>2. CASE wanted
    <3>1. Counted' = Counted \cup {<<k0, q0>>}
      <4>1. gathered[k0][q0] = "n" /\ q0 \in Receivers /\ k0 \in Calls
        BY <2>2, <1>0, <1>2, <1>7
      <4>2. \A m \in Calls \X Receivers :
              Served(m[1], m[2])' <=> Served(m[1], m[2]) \/ m = <<k0, q0>>
        <5> SUFFICES ASSUME NEW m \in Calls \X Receivers
                     PROVE  Served(m[1], m[2])' <=> Served(m[1], m[2]) \/ m = <<k0, q0>>
          OBVIOUS
        <5>1. m = <<m[1], m[2]>> /\ m[1] \in Calls /\ m[2] \in Receivers
          OBVIOUS
        <5> QED
          BY <5>1, <1>3
      <4> QED
        BY <2>1, <4>1, <4>2
    <3>2. <<k0, q0>> \notin Counted
      BY <2>1, <1>6
    <3>3. Cardinality(Counted \cup {<<k0, q0>>}) = Cardinality(Counted) + 1
      BY <3>2, CountedFinite, FS_AddElement
    <3> QED
      BY <2>2, <3>1, <3>3, <1>2 DEF Exchange
  <2>3. CASE ~wanted
    <3>1. Counted' = Counted
      <4>1. \A m \in Calls \X Receivers : gathered[m[1]][m[2]] = "n" =>
              (Served(m[1], m[2])' <=> Served(m[1], m[2]))
        <5> SUFFICES ASSUME NEW m \in Calls \X Receivers, gathered[m[1]][m[2]] = "n"
                     PROVE  Served(m[1], m[2])' <=> Served(m[1], m[2])
          OBVIOUS
        <5>1. m[1] \in Calls /\ m[2] \in Receivers /\ m[2] # 0
          BY <1>1
        <5>2. ~(m[1] = k0 /\ m[2] = q0)
          BY <5>1, <2>3, <1>0
        <5> QED
          BY <5>1, <5>2, <1>3
      <4> QED
        BY <2>1, <4>1
    <3> QED
      BY <2>3, <3>1, <1>2 DEF Exchange
  <2> QED
    BY <2>2, <2>3
<1> QED
  BY <1>8, <1>9, <1>10 DEF Exchange

\* Every step keeps what is said of verdicts and copies.
LEMMA ExchangeStep ==
  ASSUME BTypeOK, Places, Exchange, NEW p \in Ranks, Step(p)
  PROVE  Exchange'
<1>1. Receivers = Ranks \ {0}
  BY DEF Receivers
<1>2. p = 0 => ~Receive(p) /\ ~CheckByDraw(p) /\ ~Check(p) /\ ~GiveVerdict(p)
  BY DEF Receive, CheckByDraw, Check, GiveVerdict
<1>3. p = 0 => ~Decode(p) /\ ~Await(p) /\ ~Decompress(p)
  BY Basics DEF Decode, Await, Decompress, Places, At
<1>4. CASE p = 0
  BY <1>2, <1>3, <1>4, StepCases, OtherExchange, RootReturnExchange, TakeExchange, ResendExchange
<1>5. CASE p # 0
  BY <1>1, <1>5, StepCases, OtherExchange, ReceiverExchange, ReturnExchange, VerdictExchange,
     AwaitExchange
<1> QED
  BY <1>4, <1>5

\* Rank 0 ends when it has the blocks of all, and a rank ends after it has
\* given its own.
LEMMA ProtocolStep ==
  ASSUME BTypeOK, Places, Protocol, NEW p \in Ranks, Step(p)
  PROVE  Protocol'
<1>1. Exchange'
  BY ExchangeStep DEF Exchange, Protocol
<1>2. /\ pc \in [Ranks -> Labels] /\ 0 \in Ranks /\ Receivers = Ranks \ {0}
  BY Basics DEF Places, Receivers
<1>3. pc[p] # "finalized"
  BY StepCases DEF At, AllPosted, Post, RootGathers, TakeVerdicts, Resend, RootReturns,
       Receive, EndUnchecked, CheckByDraw, Check, Decode, GiveVerdict, Await, Decompress,
       Read, Collect, Multiply, GiveBlock
<1>4. \A q \in Ranks \ {p} : pc'[q] = pc[q]
  BY Alone
<1>5. /\ sent' = sent \/ (GiveBlock(p) /\ sent' = sent \cup {p})
      /\ pc'[0] = "finalized" => pc[0] = "finalized" \/ (p = 0 /\ Collect)
  <2>1. CASE p = 0
    BY <2>1, <1>2, StepCases DEF mvars, At, GoTo, Return, AllPosted, Post, RootGathers,
       TakeVerdicts, Resend, RootReturns,
       Receive, EndUnchecked, CheckByDraw, Check, Decode, GiveVerdict, Await, Decompress,
       Read, Collect, Multiply, GiveBlock
  <2>2. CASE p # 0
    BY <2>2, <1>2, <1>4, StepCases DEF mvars, Multiply, GiveBlock
  <2> QED
    BY <2>1, <2>2
<1>6. Given'
  <2>1. CASE sent' = sent
    BY <2>1, <1>2, <1>3, <1>4 DEF Given, Protocol
  <2>2. CASE GiveBlock(p) /\ sent' = sent \cup {p}
    <3>1. p \in Receivers /\ pc'[p] = "finalized"
      BY <2>2, <1>2 DEF GiveBlock, GoTo
    <3> QED
      BY <2>2, <3>1, <1>2, <1>4 DEF Given, Protocol
  <2> QED
    BY <1>5, <2>1, <2>2
<1>7. pc'[0] = "finalized" => sent' = Receivers
  <2>1. CASE p = 0 /\ Collect
    BY <2>1 DEF Collect
  <2>2. CASE pc[0] = "finalized"
    <3>1. sent = Receivers
      BY <2>2 DEF Protocol
    <3>2. GiveBlock(p) => p \in Receivers
      BY <1>2 DEF GiveBlock
    <3> QED
      BY <3>1, <3>2, <1>5
  <2> QED
    BY <1>5, <2>1, <2>2
<1> QED
  BY <1>1, <1>6, <1>7 DEF Exchange, Protocol

-----------------------------------------------------------------------------
(* What the buffers hold. *)

\* The root's buffers are never written.
LEMMA RootData ==
  ASSUME BTypeOK, Places, Data, NEW p \in Ranks, Step(p)
  PROVE  \A k \in Calls : held'[k][0] = "exact"
<1>1. 0 \in Ranks /\ \A k \in Calls : held[k][0] = "exact"
  BY Basics DEF Data
<1>2. CASE p # 0
  BY <1>1, <1>2, Alone
<1>3. CASE p = 0 /\ EndUnchecked(p)
  <2>1. held' = [held EXCEPT ![call[0]][0] = "exact"]
    BY <1>3 DEF EndUnchecked
  <2> QED
    BY <1>1, <2>1 DEF BTypeOK
<1>4. CASE p = 0 /\ ~EndUnchecked(p)
  <2>1. ~Decompress(p)
    BY <1>4, Basics DEF Decompress, At, Places
  <2>2. held' = held
    BY <1>4, <2>1, StepCases DEF Post, RootGathers, TakeVerdicts, Resend, RootReturns, Receive,
       CheckByDraw, Check, Decode, GiveVerdict, Await, Read, Collect, Multiply, GiveBlock
  <2> QED
    BY <1>1, <2>2
<1> QED
  BY <1>2, <1>3, <1>4

\* A call returns with the data of the broadcast, and the next buffer is new.
LEMMA SoundReturn ==
  ASSUME BTypeOK, NEW p \in Ranks, Sound(p), call[p] \in Calls, method' = method,
         Return(p), pc \in [Ranks -> Labels],
         \A k \in Calls \ {call[p]} : held'[k][p] = held[k][p],
         call[p] # 0 => held'[call[p]][p] = Arrived
  PROVE  Sound(p)'
<1>1. /\ call'[p] = call[p] + 1 /\ pc'[p] = "bcast" /\ block'[p] = AllIntact
      /\ Calls = 0..2 /\ NCalls = 2 /\ call[p] \in 0..2
  BY Basics DEF BTypeOK, Return, GoTo
<1>2. Clean(p)'
  BY <1>1, IntactAre DEF Clean, AllIntact
<1>3. \A k \in 1..NCalls : call'[p] > k => held'[k][p] = Arrived'
  <2> SUFFICES ASSUME NEW k \in 1..NCalls, call'[p] > k PROVE held'[k][p] = Arrived'
    OBVIOUS
  <2>1. Arrived' = Arrived
    BY PartsSame
  <2>2. CASE k = call[p]
    BY <2>1, <2>2
  <2>3. CASE k # call[p]
    <3>1. call[p] > k /\ k \in Calls
      BY <1>1, <2>3
    <3> QED
      BY <2>1, <2>3, <3>1 DEF Sound
  <2> QED
    BY <2>2, <2>3
<1> QED
  BY <1>1, <1>2, <1>3 DEF Sound

\* Bits flipped, three in no block.
LEMMA SoundCheck ==
  ASSUME BTypeOK, Places, NEW p \in Receivers, Sound(p), Check(p), p \notin overload'
  PROVE  Sound(p)'
<1>1. PICK f \in Flips(call[p]) :
        /\ block' = [block EXCEPT ![p] =
                       [x \in AllBlocks |-> IF x \in DOMAIN f
                                            THEN [Intact EXCEPT !.data = f[x]]
                                            ELSE Intact]]
        /\ overload' = IF \E x \in DOMAIN f : f[x] > 2 THEN overload \cup {p}
                       ELSE overload
        /\ GoTo(p, IF \A x \in DOMAIN f : f[x] = 0 THEN "gather" ELSE "decode")
  BY DEF Check
<1>2. call[p] \in 1..NCalls /\ p \in Ranks
  BY CheckedCall, Basics DEF Check, AllPosted, At
<1>3. f \in [Blocks(call[p]) -> Nat] /\ DOMAIN f = Blocks(call[p])
  BY <1>2, FlipsAre
<1>4. \A x \in DOMAIN f : f[x] <= 2
  BY <1>1, <1>2, <1>3
<1>5. /\ UNCHANGED <<call, crc_ok, held, method>>
      /\ i'[p] = 0
      /\ pc'[p] = IF \A x \in DOMAIN f : f[x] = 0 THEN "gather" ELSE "decode"
  BY <1>1, <1>2 DEF Check, SetI, GoTo, Places, BTypeOK
<1>6. \A x \in AllBlocks : block'[p][x] = IF x \in DOMAIN f THEN [Intact EXCEPT !.data = f[x]]
                                          ELSE Intact
  BY <1>1, <1>2 DEF BTypeOK
<1>7. \A x \in AllBlocks : IF x \in Blocks(call[p])
                           THEN Weight(block'[p][x]) = f[x] /\ block'[p][x].data = f[x]
                           ELSE block'[p][x].data = 0
  BY <1>3, <1>6, IntactAre
<1>8. Arrived' = Arrived
  BY <1>5, PartsSame
<1>9. CASE \A x \in DOMAIN f : f[x] = 0
  <2>1. Clean(p)'
    BY <1>3, <1>7, <1>9 DEF Clean
  <2> QED
    BY <2>1, <1>5, <1>8, <1>9 DEF Sound
<1>10. CASE ~(\A x \in DOMAIN f : f[x] = 0)
  <2>1. Blocks(call[p])' = Blocks(call[p])
    BY <1>5 DEF Blocks
  <2>2. Decoding(p)'
    BY <2>1, <1>3, <1>4, <1>5, <1>7, BlocksAre, AllBlocksAre, <1>2 DEF Decoding
  <2> QED
    BY <2>2, <1>5, <1>8, <1>10 DEF Sound
<1> QED
  BY <1>9, <1>10

\* hamming_decode puts a block right or tells that it cannot.
LEMMA SoundDecode ==
  ASSUME BTypeOK, Places, NEW p \in Receivers, Sound(p), Decode(p)
  PROVE  Sound(p)'
<1>1. PICK o \in Outcomes(block[p][i[p]]) :
        /\ block' = [block EXCEPT ![p][i[p]] = o.left]
        /\ crc_ok' = [crc_ok EXCEPT ![p] = IF o.type = TwoBit THEN "n" ELSE @]
        /\ GoTo(p, IF o.type = TwoBit \/ i[p] + 1 \notin Blocks(call[p])
                   THEN "gather" ELSE "decode")
  BY DEF Decode
<1>2. /\ p \in Ranks /\ pc[p] = "decode" /\ call[p] \in 1..NCalls /\ i[p] \in Blocks(call[p])
      /\ UNCHANGED <<call, held, method>> /\ i'[p] = i[p] + 1
  BY Basics DEF Decode, At, Places, SetI, BTypeOK
<1>3. /\ pc'[p] = IF o.type = TwoBit \/ i[p] + 1 \notin Blocks(call[p])
                  THEN "gather" ELSE "decode"
      /\ o.type = TwoBit => crc_ok'[p] = "n"
  BY <1>1, <1>2 DEF GoTo, Places, BTypeOK
<1>4. i[p] \in AllBlocks /\ i[p] \in Nat /\ AllBlocks \subseteq Nat
  BY <1>2, BlocksAre, AllBlocksAre
<1>5. block'[p][i[p]] = o.left /\ \A x \in AllBlocks \ {i[p]} : block'[p][x] = block[p][x]
  BY <1>1, <1>2, <1>4 DEF BTypeOK
<1>6. Decoding(p)
  BY <1>2 DEF Sound
<1>7. Arrived' = Arrived
  BY <1>2, PartsSame
<1>8. CASE o.type = TwoBit
  BY <1>2, <1>3, <1>7, <1>8 DEF Sound
<1>9. CASE o.type # TwoBit
  <2>1. block[p][i[p]] \in Pattern /\ Weight(block[p][i[p]]) <= 2
    BY <1>2, <1>4, <1>6 DEF Decoding, BTypeOK
  <2>2. o.left.data = 0
    BY <2>1, <1>9, OutcomesRepair
  <2>3. \A x \in AllBlocks : IF x \in Blocks(call[p]) /\ x >= i[p] + 1
                             THEN Weight(block'[p][x]) <= 2 ELSE block'[p][x].data = 0
    <3> SUFFICES ASSUME NEW x \in AllBlocks
                 PROVE  IF x \in Blocks(call[p]) /\ x >= i[p] + 1
                        THEN Weight(block'[p][x]) <= 2 ELSE block'[p][x].data = 0
      OBVIOUS
    <3>1. CASE x = i[p]
      BY <3>1, <2>2, <1>4, <1>5
    <3>2. CASE x # i[p]
      BY <3>2, <1>4, <1>5, <1>6 DEF Decoding
    <3> QED
      BY <3>1, <3>2
  <2>4. CASE i[p] + 1 \in Blocks(call[p])
    <3>1. Blocks(call[p])' = Blocks(call[p])
      BY <1>2 DEF Blocks
    <3>2. Decoding(p)'
      BY <3>1, <2>3, <1>2 DEF Decoding
    <3> QED
      BY <3>2, <2>4, <1>2, <1>3, <1>7, <1>9 DEF Sound
  <2>5. CASE i[p] + 1 \notin Blocks(call[p])
    <3>1. \A x \in Blocks(call[p]) : ~(x >= i[p] + 1)
      <4>1. PICK n : n = bs_num(DataBytes[call[p]]) - 1
        OBVIOUS
      <4>2. Blocks(call[p]) = 0..n /\ n \in Int
        BY <4>1, <1>2, BlocksAre
      <4> QED
        BY <4>2, <2>5, <1>2
    <3>2. Clean(p)'
      BY <3>1, <2>3 DEF Clean
    <3> QED
      BY <3>2, <2>5, <1>2, <1>3, <1>7 DEF Sound
  <2> QED
    BY <2>4, <2>5
<1> QED
  BY <1>8, <1>9

\* A receiver that was never overloaded keeps what the broadcast promises.
LEMMA SoundStep ==
  ASSUME BTypeOK, Places, Exchange, NEW p \in Receivers, Sound(p), Step(p), p \notin overload'
  PROVE  Sound(p)'
<1> USE DEF At, GoTo
<1>0. /\ p \in Ranks /\ p # 0 /\ pc \in [Ranks -> Labels] /\ call[p] \in 0..(NCalls + 1)
      /\ method' = method
  BY Basics, Alone DEF Places, BTypeOK
<1>1. Arrived' = Arrived
  BY <1>0, PartsSame
<1>2. CASE Receive(p)
  <2>1. UNCHANGED <<pc, block, crc_ok, held, call>> /\ pc[p] = "bcast"
    BY <1>2 DEF Receive
  <2>2. Clean(p)' = Clean(p)
    BY <2>1 DEF Clean
  <2> QED
    BY <2>1, <2>2, <1>1 DEF Sound
<1>3. CASE EndUnchecked(p)
  <2>1. held' = [held EXCEPT ![call[p]][p] = IF call[p] = 0 THEN "exact" ELSE Arrived]
        /\ call[p] \in Calls /\ Return(p)
    BY <1>0, <1>3 DEF EndUnchecked
  <2>2. /\ \A k \in Calls \ {call[p]} : held'[k][p] = held[k][p]
        /\ call[p] # 0 => held'[call[p]][p] = Arrived
    BY <2>1, <1>0 DEF BTypeOK
  <2> QED
    BY <2>1, <2>2, <1>0, SoundReturn
<1>4. CASE CheckByDraw(p)
  <2>1. UNCHANGED <<block, held, call>> /\ pc[p] = "bcast" /\ pc'[p] = "gather"
    BY <1>0, <1>4 DEF CheckByDraw, AllPosted
  <2>2. Clean(p)' = Clean(p)
    BY <2>1 DEF Clean
  <2> QED
    BY <2>1, <2>2, <1>1 DEF Sound
<1>5. CASE Check(p)
  BY <1>5, SoundCheck
<1>6. CASE Decode(p)
  BY <1>6, SoundDecode
<1>7. CASE GiveVerdict(p)
  <2>1. /\ UNCHANGED <<block, held, call>> /\ pc[p] = "gather" /\ crc_ok[p] \in {"y", "n"}
        /\ pc'[p] = IF crc_ok[p] = "n" THEN "await" ELSE "decompress"
    BY <1>0, <1>7 DEF GiveVerdict, BTypeOK
  <2>2. Clean(p)' = Clean(p)
    BY <2>1 DEF Clean
  <2> QED
    BY <2>1, <2>2, <1>1 DEF Sound
<1>8. CASE Await(p)
  <2>1. \A m \in mail : m[2] = p => m[1] = call[p]
    BY <1>8, AwaitExchange
  <2>2. block' = [block EXCEPT ![p] = AllIntact]
    BY <1>8, <2>1 DEF Await
  <2>3. Clean(p)'
    BY <1>0, <2>2, IntactAre DEF Clean, AllIntact, BTypeOK
  <2>4. UNCHANGED <<held, call>> /\ pc'[p] = "decompress"
    BY <1>0, <1>8 DEF Await
  <2> QED
    BY <2>3, <2>4, <1>1 DEF Sound
<1>9. CASE Decompress(p)
  <2>1. Clean(p) /\ call[p] \in Calls /\ Return(p)
    BY <1>9 DEF Decompress, Sound
  <2>2. held' = [held EXCEPT ![call[p]][p] = Arrived]
    BY <2>1, <1>9 DEF Decompress
  <2>3. /\ \A k \in Calls \ {call[p]} : held'[k][p] = held[k][p]
        /\ held'[call[p]][p] = Arrived
    BY <2>1, <2>2, <1>0 DEF BTypeOK
  <2> QED
    BY <2>1, <2>3, <1>0, SoundReturn
<1>10. CASE Multiply(p) \/ GiveBlock(p)
  <2>1. UNCHANGED <<held, call>> /\ pc'[p] \in {"collect", "finalized"}
    BY <1>0, <1>10 DEF Multiply, GiveBlock
  <2> QED
    BY <2>1, <1>1 DEF Sound
<1> QED
  BY <1>0, <1>2, <1>3, <1>4, <1>5, <1>6, <1>7, <1>8, <1>9, <1>10, StepCases

\* The same for all of them.
LEMMA DataStep ==
  ASSUME BTypeOK, Places, Exchange, Data, NEW p \in Ranks, Step(p)
  PROVE  Data'
<1>1. \A k \in Calls : held'[k][0] = "exact"
  BY RootData
<1>2. ASSUME NEW q \in Receivers PROVE (q \in overload \/ Sound(q))'
  <2>1. CASE q = p
    BY <2>1, Alone, SoundStep DEF Data
  <2>2. CASE q # p
    <3>1. /\ pc'[q] = pc[q] /\ call'[q] = call[q] /\ i'[q] = i[q] /\ block'[q] = block[q]
          /\ crc_ok'[q] = crc_ok[q] /\ method' = method
          /\ \A k \in Calls : held'[k][q] = held[k][q]
          /\ (q \in overload') <=> (q \in overload)
      BY <2>2, Alone, Basics
    <3>2. Arrived' = Arrived
      BY <3>1, PartsSame
    <3>3. Clean(q)' = Clean(q)
      BY <3>1 DEF Clean
    <3>4. Blocks(call[q])' = Blocks(call[q])
      BY <3>1 DEF Blocks
    <3>5. Decoding(q) => Decoding(q)'
      BY <3>1, <3>4 DEF Decoding
    <3>6. 1..NCalls \subseteq Calls
      BY DEF Calls
    <3>7. Sound(q) => Sound(q)'
      BY <3>1, <3>2, <3>3, <3>5, <3>6 DEF Sound
    <3> QED
      BY <3>1, <3>7 DEF Data
  <2> QED
    BY <2>1, <2>2
<1> QED
  BY <1>1, <1>2 DEF Data

-----------------------------------------------------------------------------
(* The product. *)

\* Values and Block as functions of the input x and of what the buffers hold.
ValuesOf(m, h) ==
  CASE h = "exact"        -> m.data
    [] h = "decompressed" -> [x \in DOMAIN m.data |-> Decompressed[m.data[x]]]
    [] h = "damaged"      -> [x \in DOMAIN m.data |-> 0]

BlockOf(in, h1, h2, p) ==
  LET m_a == ValuesOf(in.a, h1)
      m_b == ValuesOf(in.b, h2)
      first == p * (in.a.rows \div Procs)
      last == (p + 1) * (in.a.rows \div Procs) - 1
      row(x) == first + x \div in.b.cols
      product(x, k) == m_a[row(x) * in.a.cols + k + 1] * m_b[k * in.b.cols + (x % in.b.cols) + 1]
  IN  [x \in 1..((last - first + 1) * in.b.cols) |->
         Total([k \in 0..(in.b.rows - 1) |-> product(x - 1, k)])]

\* A rank's block depends on nothing else.
LEMMA BlockIs ==
  ASSUME NEW p
  PROVE  /\ Block(p) = BlockOf(input, held[1][p], held[2][p], p)
         /\ Block(p)' = BlockOf(input', held'[1][p], held'[2][p], p)
<1>1. Block(p) = BlockOf(input, held[1][p], held[2][p], p)
  BY DEF Block, BlockOf, Values, ValuesOf, startrow, endrow, a, b
<1>2. Block(p)' = BlockOf(input', held'[1][p], held'[2][p], p)
  BY DEF Block, BlockOf, Values, ValuesOf, startrow, endrow, a, b
<1> QED
  BY <1>1, <1>2

\* A block stays what it is while it is gathered; so does what is made of them.
LEMMA ResultsStep ==
  ASSUME BTypeOK, Places, Protocol, Results, NEW p \in Ranks, Step(p)
  PROVE  Results'
<1> DEFINE Done == {"collect", "finalized"}
<1>1. /\ pc \in [Ranks -> Labels] /\ 0 \in Ranks /\ DOMAIN result = Ranks
      /\ 1 \in Calls /\ 2 \in Calls /\ Receivers = Ranks \ {0} /\ NCalls + 1 \notin Calls
  BY Basics DEF Places, Results, Receivers
<1>2. /\ \A q \in Ranks \ {p} : pc'[q] = pc[q]
      /\ \A q \in Ranks \ {p}, k \in Calls : held'[k][q] = held[k][q]
      /\ input' = input
  BY Alone
<1>3. \/ Multiply(p)
      \/ /\ result' = result
         /\ pc'[p] \in Done <=> pc[p] \in Done
         /\ pc[p] \in Done => held' = held
  <2>1. pc[p] \in Done => call[p] \notin Calls
    BY <1>1 DEF Places
  <2> QED
    BY <1>1, <2>1, StepCases DEF mvars, At, GoTo, Return, AllPosted, Post, RootGathers,
       TakeVerdicts, Resend, RootReturns, Receive, EndUnchecked, CheckByDraw, Check, Decode,
       GiveVerdict, Await, Decompress, Read, Collect, GiveBlock
<1>4. ASSUME NEW q \in Ranks
      PROVE  IF pc'[q] \in Done THEN result'[q] = Block(q)' ELSE result'[q] = Unset
  <2>0. IF pc[q] \in Done THEN result[q] = Block(q) ELSE result[q] = Unset
    BY DEF Results
  <2>1. CASE Multiply(p) /\ q = p
    <3>1. result'[q] = Block(q) /\ held' = held /\ pc'[q] = "collect"
      BY <1>1, <2>1 DEF Multiply, GoTo
    <3>2. Block(q)' = Block(q)
      BY <3>1, <1>2, BlockIs
    <3> QED
      BY <3>1, <3>2
  <2>2. CASE ~(Multiply(p) /\ q = p)
    <3>1. result'[q] = result[q] /\ (pc'[q] \in Done <=> pc[q] \in Done)
      BY <1>1, <1>2, <1>3, <2>2 DEF Multiply
    <3>2. pc[q] \in Done => held'[1][q] = held[1][q] /\ held'[2][q] = held[2][q]
      BY <1>1, <1>2, <1>3, <2>2
    <3>3. pc[q] \in Done => Block(q)' = Block(q)
      BY <3>2, <1>2, BlockIs
    <3> QED
      BY <2>0, <3>1, <3>3
  <2> QED
    BY <2>1, <2>2
<1>5. DOMAIN result' = Ranks
  BY <1>1, <1>3 DEF Multiply
<1>6. IF pc'[0] = "finalized" THEN final' = Joined' ELSE final' = Unset
  <2>1. CASE p = 0 /\ Collect
    <3>1. final' = Joined /\ UNCHANGED <<input, result>> /\ pc'[0] = "finalized"
      BY <1>1, <2>1 DEF Collect, Joined, GoTo
    <3>2. Joined' = Joined
      BY <3>1 DEF Joined, number_of_rows, a, b
    <3> QED
      BY <3>1, <3>2
  <2>2. CASE ~(p = 0 /\ Collect)
    <3>1. final' = final /\ (pc'[0] = "finalized" <=> pc[0] = "finalized")
      <4>1. CASE p = 0
        BY <2>2, <4>1, <1>1, StepCases DEF mvars, At, GoTo, Return, AllPosted, Post,
           RootGathers, TakeVerdicts, Resend, RootReturns, Receive, EndUnchecked, CheckByDraw,
           Check, Decode, GiveVerdict, Await, Decompress, Read, Multiply, GiveBlock
      <4>2. CASE p # 0
        BY <4>2, <1>1, <1>2, StepCases DEF mvars, Multiply, GiveBlock
      <4> QED
        BY <4>1, <4>2
    <3>2. pc[0] = "finalized" => ~Multiply(p)
      <4>1. pc[0] = "finalized" => \A q \in Receivers : pc[q] = "finalized"
        BY DEF Protocol, Given
      <4> QED
        BY <4>1, <1>1 DEF Multiply
    <3>3. pc[0] = "finalized" => Joined' = Joined
      BY <3>2, <1>2, <1>3 DEF Joined, number_of_rows, a, b
    <3> QED
      BY <3>1, <3>3 DEF Results
  <2> QED
    BY <2>1, <2>2
<1> QED
  BY <1>4, <1>5, <1>6 DEF Results

\* The invariant holds at the start.
LEMMA InitIInv == Init => IInv
<1> SUFFICES ASSUME Init PROVE IInv
  OBVIOUS
<1> USE DEF Init, BInit
<1>0. /\ Procs \in Nat \ {0} /\ 0 \in Ranks /\ Receivers = Ranks \ {0} /\ NCalls = 2
      /\ 0 \in Calls /\ Calls = 0..2 /\ Ranks \subseteq Nat
  BY Basics DEF Receivers
<1>1. BTypeOK
  <2>1. \A k \in Calls : posted[k] = 0 /\ Parts(k) \in Nat /\ posted[k] <= Parts(k)
    BY PartsAre
  <2>2. block \in [Ranks -> [AllBlocks -> Pattern]]
    BY IntactAre
  <2> QED
    BY <1>0, <2>1, <2>2 DEF BTypeOK
<1>2. Places
  BY <1>0 DEF Places, Labels
<1>3. Admitted
  BY <1>0 DEF Admitted
<1>4. Protocol
  <2>1. Verdicts
    BY <1>0 DEF Verdicts, Served
  <2>2. Asked = {}
    BY <1>0 DEF Asked
  <2>3. Counted = {} /\ Cardinality({}) = 0
    BY <2>2, FS_EmptySet DEF Counted
  <2> QED
    BY <1>0, <2>1, <2>3 DEF Protocol, Copies, Given
<1>5. Data
  <2>1. \A p \in Ranks : Clean(p)
    BY IntactAre DEF Clean, AllIntact
  <2> QED
    BY <1>0, <2>1 DEF Data, Sound
<1>6. Results
  BY <1>0 DEF Results
<1> QED
  BY <1>1, <1>2, <1>3, <1>4, <1>5, <1>6 DEF IInv

\* Every step keeps it.
LEMMA NextIInv == IInv /\ [Next]_vars => IInv'
<1> SUFFICES ASSUME IInv, [Next]_vars PROVE IInv'
  OBVIOUS
<1>1. CASE \E p \in Ranks : Step(p)
  <2>1. PICK p \in Ranks : Step(p)
    BY <1>1
  <2>2. BTypeOK /\ Places /\ Admitted /\ Protocol /\ Data /\ Results /\ Exchange
    BY DEF IInv, Protocol, Exchange
  <2> QED
    BY <2>1, <2>2, TypeStep, PlacesStep, AdmittedStep, ProtocolStep, DataStep, ResultsStep
    DEF IInv
<1>2. CASE UNCHANGED vars
  <2>1. UNCHANGED <<method, eager, call, pc, i, posted, block, crc_ok, gathered, mail, resend,
                    held, overload, input, result, sent, final>>
    BY <1>2 DEF vars, bvars, mvars
  <2>2. BTypeOK'
    BY <2>1, PartsSame DEF IInv, BTypeOK
  <2>3. Places' /\ Admitted'
    BY <2>1 DEF IInv, Places, Admitted, Accepted, a, b, Blocks
  <2>4. Protocol'
    <3>1. Counted' = Counted
      BY <2>1 DEF Counted, Asked, Served
    <3>2. Verdicts' /\ Copies'
      BY <2>1 DEF IInv, Protocol, Verdicts, Copies, Served, Waits, Checked
    <3> QED
      BY <2>1, <3>1, <3>2 DEF IInv, Protocol, Given
  <2>5. Data'
    BY <2>1 DEF IInv, Data, Sound, Clean, Decoding, Blocks, Arrived
  <2>6. Results'
    <3>1. \A p \in Ranks : Block(p)' = Block(p)
      BY <2>1, BlockIs
    <3>2. Joined' = Joined
      BY <2>1 DEF Joined, number_of_rows, a, b
    <3> QED
      BY <2>1, <3>1, <3>2 DEF IInv, Results
  <2> QED
    BY <2>2, <2>3, <2>4, <2>5, <2>6 DEF IInv
<1> QED
  BY <1>1, <1>2 DEF Next, Terminated

\* The invariant of the matrix multiplication, its broadcasts included.
THEOREM Invariance == Spec => []IInv
<1> QED
  BY InitIInv, NextIInv, PTL DEF Spec

\* ResentIsCounted: when rank 0 has ended, the number it prints is that of the
\* failed checks, and no second copy was left behind.
THEOREM ResentCounted == Spec => []ResentIsCounted
<1>1. IInv => ResentIsCounted
  <2> SUFFICES ASSUME IInv, pc[0] = "finalized"
               PROVE  resend = Cardinality(Asked) /\ mail = {}
    BY DEF ResentIsCounted
  <2>1. call[0] = 3 /\ Calls = 0..2 /\ 0 \in Ranks
    BY Basics DEF IInv, Places
  <2>2. Counted = Asked
    BY <2>1 DEF Counted, Asked, Served
  <2>3. \A q \in Receivers : pc[q] = "finalized"
    BY DEF IInv, Protocol, Given
  <2>4. mail = {}
    BY <2>3 DEF IInv, Protocol, Copies, Waits
  <2> QED
    BY <2>2, <2>4 DEF IInv, Protocol
<1> QED
  BY Invariance, <1>1, PTL

\* The shapes of accepted matrices: every rank gets h rows.
LEMMA Shapes ==
  ASSUME input \in Inputs, Accepted
  PROVE  \E h \in Nat \ {0} :
           /\ a.rows \div Procs = h /\ a.rows = Procs * h
           /\ number_of_rows = h * b.cols /\ Procs * number_of_rows = a.rows * b.cols
           /\ b.cols \in Nat \ {0} /\ b.rows = a.cols
           /\ a \in [rows : Nat \ {0}, cols : Nat \ {0}, data : [1..(a.rows * a.cols) -> DOMAIN Decompressed]]
           /\ b \in [rows : Nat \ {0}, cols : Nat \ {0}, data : [1..(b.rows * b.cols) -> DOMAIN Decompressed]]
<1>1. a # Missing /\ b # Missing /\ a.cols = b.rows /\ a.rows % Procs = 0
  BY DEF Accepted
<1>2. a \in UNION {{x.a, x.b} : x \in Inputs} /\ b \in UNION {{x.a, x.b} : x \in Inputs}
  BY DEF a, b
<1>3. /\ a \in [rows : Nat \ {0}, cols : Nat \ {0}, data : [1..(a.rows * a.cols) -> DOMAIN Decompressed]]
      /\ b \in [rows : Nat \ {0}, cols : Nat \ {0}, data : [1..(b.rows * b.cols) -> DOMAIN Decompressed]]
  BY <1>1, <1>2, MatMulAssumption
<1>4. PICK r, c, h : r = a.rows /\ c = b.cols /\ h = a.rows \div Procs
  OBVIOUS
<1>5. r \in Nat \ {0} /\ c \in Nat \ {0} /\ r % Procs = 0 /\ Procs \in Nat \ {0} /\ h = r \div Procs
  BY <1>1, <1>3, <1>4, Basics
<1>6. h \in Nat \ {0} /\ r = Procs * h
  BY <1>5, Z3
<1>7. r * c = Procs * (h * c) /\ h * c \in Nat
  BY <1>5, <1>6, Z3
<1>8. PICK l \in Nat : l = h * c
  BY <1>7
<1>9. (Procs * l) \div Procs = l
  BY <1>5, <1>8, Z3
<1>10. number_of_rows = l /\ Procs * number_of_rows = r * c
  BY <1>4, <1>7, <1>8, <1>9 DEF number_of_rows
<1> QED
  BY <1>1, <1>3, <1>4, <1>5, <1>6, <1>8, <1>10

\* Each rank's loops fill the memory it has for its block.
LEMMA BlockShape ==
  ASSUME input \in Inputs, Accepted, NEW p \in Ranks
  PROVE  DOMAIN Block(p) = 1..number_of_rows
<1>1. PICK h \in Nat \ {0} : a.rows \div Procs = h /\ number_of_rows = h * b.cols /\ b.cols \in Nat
  BY Shapes
<1>2. startrow(p) = p * h /\ endrow(p) = (p + 1) * h - 1 /\ p \in Nat
  BY <1>1, Basics DEF startrow, endrow
<1>3. (p + 1) * h - 1 - p * h + 1 = h
  BY <1>2
<1>4. DOMAIN Block(p) = 1..((endrow(p) - startrow(p) + 1) * b.cols)
  BY DEF Block
<1> QED
  BY <1>1, <1>2, <1>3, <1>4

\* Rank 0 has accepted the input wherever a result is computed.
LEMMA ResultAccepted ==
  ASSUME IInv, NEW p \in Ranks, pc[p] \in {"collect", "finalized"}
  PROVE  Accepted /\ input \in Inputs
<1>1. call[p] = 3 /\ 0 \in Ranks
  BY Basics DEF IInv, Places
<1>2. pc[0] \notin {"read", "exit"}
  BY <1>1 DEF IInv, Admitted, Receivers
<1> QED
  BY <1>2 DEF IInv, Admitted, Places

\* TypeOK: every variable has its type, and blocks and result fill exactly the
\* memory allocated for them.
THEOREM TypeCorrect == Spec => []TypeOK
<1>1. IInv => TypeOK
  <2> SUFFICES ASSUME IInv PROVE TypeOK
    OBVIOUS
  <2>1. BTypeOK /\ pc \in [Ranks -> Labels] /\ input \in Inputs /\ sent \subseteq Receivers
        /\ 0 \in Ranks
    BY Basics DEF IInv, Places, Protocol, Given
  <2>2. \A p \in Ranks : result[p] # Unset => DOMAIN result[p] = 1..number_of_rows
    <3> SUFFICES ASSUME NEW p \in Ranks, result[p] # Unset
                 PROVE  DOMAIN result[p] = 1..number_of_rows
      OBVIOUS
    <3>1. pc[p] \in {"collect", "finalized"} /\ result[p] = Block(p)
      BY DEF IInv, Results
    <3> QED
      BY <3>1, ResultAccepted, BlockShape
  <2>3. final # Unset => DOMAIN final = 1..(a.rows * b.cols)
    <3> SUFFICES ASSUME final # Unset PROVE DOMAIN final = 1..(a.rows * b.cols)
      OBVIOUS
    <3>1. pc[0] = "finalized" /\ final = Joined
      BY DEF IInv, Results
    <3>2. Accepted
      BY <2>1, <3>1, ResultAccepted
    <3>3. Procs * number_of_rows = a.rows * b.cols
      BY <2>1, <3>2, Shapes
    <3>4. DOMAIN Joined = 1..(Procs * number_of_rows)
      BY DEF Joined
    <3> QED
      BY <3>1, <3>3, <3>4
  <2> QED
    BY <2>1, <2>2, <2>3 DEF TypeOK, Labels
<1> QED
  BY Invariance, <1>1, PTL

\* The entry in row r and column c of n * h rows of width w is entry y of the
\* block of rank o, which has h rows.
Located(n, h, w, r, c, o, y) ==
  /\ o = (r - 1) \div h
  /\ (r - 1) * w + c \in 1..(n * (h * w))
  /\ ((r - 1) * w + c - 1) \div (h * w) = o
  /\ ((r - 1) * w + c - 1) % (h * w) = y
  /\ o * h + y \div w = r - 1
  /\ y % w = c - 1

\* Every entry is in one rank's block.
LEMMA Position ==
  ASSUME NEW n \in Nat \ {0}, NEW h \in Nat \ {0}, NEW w \in Nat \ {0},
         NEW r \in 1..(n * h), NEW c \in 1..w
  PROVE  \E o \in 0..(n - 1), y \in 0..(h * w - 1) : Located(n, h, w, r, c, o, y)
<1>1. PICK o, s : o = (r - 1) \div h /\ s = (r - 1) % h
  OBVIOUS
<1>2. r - 1 \in Nat /\ r \in Nat /\ r - 1 < n * h /\ c \in Nat /\ c >= 1 /\ c <= w
  <2>1. n * h \in Nat
    OBVIOUS
  <2> QED
    BY <2>1
<1>3. o \in Nat /\ s \in Nat /\ s < h /\ r - 1 = o * h + s
  BY <1>1, <1>2, Z3
<1>4. o < n
  BY <1>2, <1>3, Z3
<1>5. PICK y : y = s * w + (c - 1)
  OBVIOUS
<1>6. y \in Nat /\ s * w \in Nat /\ y < h * w
  <2>1. s * w \in Nat /\ s * w + w = (s + 1) * w /\ (s + 1) * w <= h * w
    BY <1>3, Z3
  <2> QED
    BY <2>1, <1>2, <1>5
<1>7. (r - 1) * w + c - 1 = o * (h * w) + y
  BY <1>2, <1>3, <1>5, Z3
<1>8. PICK l : l = h * w
  OBVIOUS
<1>9. l \in Nat \ {0} /\ y < l /\ o * l \in Nat
  BY <1>3, <1>6, <1>8, Z3
<1>10. (o * l + y) \div l = o /\ (o * l + y) % l = y
  BY <1>3, <1>6, <1>9, Z3
<1>11. y \div w = s /\ y % w = c - 1
  BY <1>2, <1>3, <1>5, Z3
<1>12. o * l + y < n * l /\ o * l + y \in Nat
  <2>1. o * l + l = (o + 1) * l /\ (o + 1) * l <= n * l
    BY <1>3, <1>4, <1>9, Z3
  <2> QED
    BY <2>1, <1>6, <1>9
<1>13. (r - 1) * w + c \in 1..(n * l)
  <2>1. PICK u, v : u = (r - 1) * w /\ v = n * l
    OBVIOUS
  <2>2. u \in Nat /\ v \in Nat
    BY <2>1, <1>2, <1>9, Z3
  <2>3. u + c - 1 < v
    BY <2>1, <1>7, <1>8, <1>12
  <2> QED
    BY <2>1, <2>2, <2>3, <1>2
<1>14. o \in 0..(n - 1) /\ y \in 0..(l - 1)
  BY <1>3, <1>4, <1>6, <1>9
<1>15. o * h + y \div w = r - 1
  BY <1>3, <1>11
<1>16. Located(n, h, w, r, c, o, y)
  BY <1>1, <1>7, <1>8, <1>10, <1>11, <1>13, <1>15 DEF Located
<1> QED
  BY <1>8, <1>14, <1>16

\* What compression leaves of a matrix.
LEMMA LossyIs ==
  ASSUME NEW m, NEW S, m \in [rows : Nat \ {0}, cols : Nat \ {0}, data : S]
  PROVE  Lossy(m).cols = m.cols /\ Lossy(m).data = [x \in DOMAIN m.data |-> Decompressed[m.data[x]]]
<1> QED
  BY DEF Lossy

\* Entry n of the block of rank o, which holds the matrices x and y, is in row r
\* and column c of the product.
Computes(o, n, r, c, x, y) ==
  /\ Values(a, 1, o) = x.data /\ Values(b, 2, o) = y.data
  /\ x.cols = b.rows /\ x.cols = a.cols /\ y.cols = b.cols /\ a.cols \in Nat /\ b.cols \in Nat
  /\ n \in Nat /\ r \in Nat /\ c \in Nat /\ n + 1 \in DOMAIN Block(o)
  /\ startrow(o) + n \div b.cols = r - 1 /\ n % b.cols = c - 1

\* It is that entry of the product of x and y.
LEMMA EntryIs ==
  ASSUME NEW o, NEW n, NEW r, NEW c, NEW x, NEW y, Computes(o, n, r, c, x, y)
  PROVE  Block(o)[n + 1] = Entry(x, y, r, c)
<1> USE DEF Computes
<1> DEFINE f1 == [k \in 0..(b.rows - 1) |->
                    Values(a, 1, o)[(startrow(o) + ((n + 1) - 1) \div b.cols) * a.cols + k + 1]
                    * Values(b, 2, o)[k * b.cols + (((n + 1) - 1) % b.cols) + 1]]
           f2 == [k \in 0..(x.cols - 1) |->
                    x.data[(r - 1) * x.cols + k + 1] * y.data[k * y.cols + c]]
<1>1. Block(o)[n + 1] = Total(f1)
  <2>1. n + 1 \in 1..((endrow(o) - startrow(o) + 1) * b.cols)
    BY DEF Block
  <2> QED
    BY <2>1 DEF Block
<1>2. Entry(x, y, r, c) = Total(f2)
  BY DEF Entry
<1>3. f1 = f2
  <2>1. (n + 1) - 1 = n
    OBVIOUS
  <2>2. \A k \in 0..(b.rows - 1) : k * b.cols + (c - 1) + 1 = k * b.cols + c
    OBVIOUS
  <2> QED
    BY <2>1, <2>2
<1> HIDE DEF f1, f2
<1> QED
  BY <1>1, <1>2, <1>3

\* ResultIsProduct: the matrix rank 0 writes is the product, each row of the
\* matrices as its rank received them.
THEOREM ProductCorrect == Spec => []ResultIsProduct
<1>1. IInv => ResultIsProduct
  <2> SUFFICES ASSUME IInv, pc[0] = "finalized", NEW r \in 1..a.rows, NEW c \in 1..b.cols
               PROVE  LET owner == (r - 1) \div (a.rows \div Procs)
                          exact == owner = 0 \/ method \in {"plain", "abft"}
                      IN  \/ owner \in overload
                          \/ final[(r - 1) * b.cols + c] =
                               IF exact THEN Entry(a, b, r, c)
                               ELSE Entry(Lossy(a), Lossy(b), r, c)
    BY DEF ResultIsProduct
  <2>1. 0 \in Ranks /\ Ranks = 0..(Procs - 1) /\ Procs \in Nat \ {0} /\ Ranks \subseteq Nat
        /\ Receivers = Ranks \ {0} /\ NCalls = 2
    BY Basics DEF Ranks, Receivers
  <2>2. Accepted /\ input \in Inputs
    BY <2>1, ResultAccepted
  <2>3. PICK h \in Nat \ {0} :
           /\ a.rows \div Procs = h /\ a.rows = Procs * h
           /\ number_of_rows = h * b.cols /\ Procs * number_of_rows = a.rows * b.cols
           /\ b.cols \in Nat \ {0} /\ b.rows = a.cols
           /\ a \in [rows : Nat \ {0}, cols : Nat \ {0}, data : [1..(a.rows * a.cols) -> DOMAIN Decompressed]]
           /\ b \in [rows : Nat \ {0}, cols : Nat \ {0}, data : [1..(b.rows * b.cols) -> DOMAIN Decompressed]]
    BY <2>2, Shapes
  <2>4. PICK w \in Nat \ {0} : w = b.cols
    BY <2>3
  <2>5. r \in 1..(Procs * h) /\ c \in 1..w
    BY <2>3, <2>4
  <2>5a. PICK o \in 0..(Procs - 1), y \in 0..(h * w - 1) : Located(Procs, h, w, r, c, o, y)
    BY <2>1, <2>5, Position
  <2>6. /\ o = (r - 1) \div h
        /\ (r - 1) * w + c \in 1..(Procs * (h * w))
        /\ ((r - 1) * w + c - 1) \div (h * w) = o
        /\ ((r - 1) * w + c - 1) % (h * w) = y
        /\ o * h + y \div w = r - 1
        /\ y % w = c - 1
    BY <2>5a DEF Located
  <2>7. final = Joined /\ \A p \in Ranks : pc[p] = "finalized" /\ result[p] = Block(p)
    BY <2>1 DEF IInv, Results, Protocol, Given
  <2>8. final[(r - 1) * b.cols + c] = Block(o)[y + 1]
    <3>1. final[(r - 1) * w + c] =
            result[((r - 1) * w + c - 1) \div number_of_rows]
                  [(((r - 1) * w + c - 1) % number_of_rows) + 1]
      <4>1. (r - 1) * w + c \in 1..(Procs * number_of_rows)
        BY <2>3, <2>4, <2>6
      <4>2. PICK u : u = (r - 1) * w + c
        OBVIOUS
      <4>3. Joined[u] = result[(u - 1) \div number_of_rows][((u - 1) % number_of_rows) + 1]
        BY <4>1, <4>2 DEF Joined
      <4> QED
        BY <4>2, <4>3, <2>7
    <3> QED
      BY <3>1, <2>1, <2>3, <2>4, <2>6, <2>7
  <2>9. y \in Nat /\ y + 1 \in DOMAIN Block(o) /\ startrow(o) + y \div b.cols = r - 1
        /\ y % b.cols = c - 1 /\ r \in Nat /\ c \in Nat /\ o \in Ranks
        /\ a.cols \in Nat /\ b.cols \in Nat
    <3>1. PICK l \in Nat : l = h * w
      BY <2>4
    <3>2. y \in 0..(l - 1) /\ number_of_rows = l
      BY <3>1, <2>3, <2>4, <2>6
    <3>3. DOMAIN Block(o) = 1..l /\ o \in Ranks
      BY <3>2, <2>1, <2>2, BlockShape
    <3>4. startrow(o) = o * h
      BY <2>3 DEF startrow
    <3>5. r \in Nat /\ c \in Nat
      BY <2>3, <2>4, <2>5
    <3> QED
      BY <3>2, <3>3, <3>4, <3>5, <2>3, <2>4, <2>6
  <2>10. o = 0 => held[1][o] = "exact" /\ held[2][o] = "exact"
    BY Basics DEF IInv, Data
  <2>11. o # 0 /\ o \notin overload => held[1][o] = Arrived /\ held[2][o] = Arrived
    <3> SUFFICES ASSUME o # 0, o \notin overload PROVE held[1][o] = Arrived /\ held[2][o] = Arrived
      OBVIOUS
    <3>1. Sound(o) /\ call[o] = 3
      BY <2>1, <2>7, <2>9 DEF IInv, Data, Places
    <3> QED
      BY <3>1, <2>1 DEF Sound
  <2> DEFINE exact == o = 0 \/ method \in {"plain", "abft"}
  <2>12. CASE o \in overload
    BY <2>3, <2>6, <2>12
  <2>13. CASE o \notin overload /\ exact
    <3>1. held[1][o] = "exact" /\ held[2][o] = "exact"
      BY <2>10, <2>11, <2>13 DEF Arrived
    <3>2. Values(a, 1, o) = a.data /\ Values(b, 2, o) = b.data
      BY <3>1 DEF Values
    <3>3. Block(o)[y + 1] = Entry(a, b, r, c)
      <4>1. a.cols = b.rows
        BY <2>3
      <4>2. Computes(o, y, r, c, a, b)
        BY <4>1, <3>2, <2>9 DEF Computes
      <4> QED
        BY <4>2, EntryIs
    <3> QED
      BY <3>3, <2>3, <2>6, <2>8, <2>13
  <2>14. CASE o \notin overload /\ ~exact
    <3>1. held[1][o] = "decompressed" /\ held[2][o] = "decompressed"
      BY <2>11, <2>14 DEF Arrived
    <3>2. /\ Lossy(a).cols = a.cols /\ Lossy(b).cols = b.cols
          /\ Lossy(a).data = [x \in DOMAIN a.data |-> Decompressed[a.data[x]]]
          /\ Lossy(b).data = [x \in DOMAIN b.data |-> Decompressed[b.data[x]]]
      BY <2>3, LossyIs
    <3>3. Values(a, 1, o) = Lossy(a).data /\ Values(b, 2, o) = Lossy(b).data
      BY <3>1, <3>2 DEF Values
    <3>4. PICK x, z : x = Lossy(a) /\ z = Lossy(b)
      OBVIOUS
    <3>5. Block(o)[y + 1] = Entry(x, z, r, c)
      <4>1. /\ x.cols = b.rows /\ x.cols = a.cols /\ z.cols = b.cols
            /\ Values(a, 1, o) = x.data /\ Values(b, 2, o) = z.data
        BY <3>2, <3>3, <3>4, <2>3
      <4>2. Computes(o, y, r, c, x, z)
        BY <4>1, <2>9 DEF Computes
      <4> QED
        BY <4>2, EntryIs
    <3> QED
      BY <3>4, <3>5, <2>3, <2>6, <2>8, <2>14
  <2> QED
    BY <2>12, <2>13, <2>14
<1> QED
  BY Invariance, <1>1, PTL
=============================================================================
