--------------------------- MODULE PingPong_proofs ---------------------------
(***************************************************************************)
(* Proofs about the ping-pong programs for every limit, every size of the  *)
(* data, every method and both ways of sending.                            *)
(***************************************************************************)
EXTENDS PingPong, Secded_proofs, SequenceTheorems, TLAPS

-----------------------------------------------------------------------------
(* The inductive invariant.  n transfers are settled, s is the rank that   *)
(* sends the next one and r the other.                                     *)

\* s has sent the count of transfer n + 1; its message k.
HasSent(n, s) == count[s] = n + 1 /\ pc[s] # "number"
PartSent(n, s, k) == HasSent(n, s) /\ (pc[s] = "send" => k < i[s])

\* r has received the count; message k.
HasGot(n, s, r) == count[r] = n + 1 \/ pc[r] = "answer" \/ answers[s] # << >>
PartGot(n, s, r, k) == HasGot(n, s, r) /\ (pc[r] = "recv" => k < i[r])

\* Where the sender may be: before its transfer, in it, or past a transfer
\* nobody answers.
SenderAt(n, s) ==
  \/ /\ count[s] = n
     /\ pc[s] \in {"loop", "show", "done"}
     /\ pc[s] = "done" => n = LIMIT
  \/ /\ count[s] = n + 1
     /\ n < LIMIT
     /\ \/ pc[s] = "number"
        \/ pc[s] = "send" /\ i[s] \in 1..Len(Tags)
        \/ pc[s] = "await" /\ Answered
        \/ pc[s] = "loop" /\ ~Answered
        \/ pc[s] = "listen" /\ ~Answered /\ n + 1 < LIMIT
        \/ pc[s] = "done" /\ ~Answered /\ n + 1 = LIMIT

\* s waits for the verdict on all it has sent.
Awaits(n, s) == pc[s] = "await" /\ count[s] = n + 1 /\ answers[s] = << >>

\* Where the receiver may be: before the transfer, not even told that the last
\* one was accepted, receiving, or about to answer.
ReceiverAt(n, s, r) ==
  \/ /\ count[r] = n
     /\ pc[r] \in {"loop", "listen", "show", "done"}
     /\ pc[r] \in {"listen", "show"} => n < LIMIT
     /\ pc[r] = "done" => n = LIMIT
     /\ answers[r] = << >>
  \/ /\ count[r] = n /\ n > 0
     /\ pc[r] = "await" /\ Answered
     /\ answers[r] = <<"y">>
  \/ /\ count[r] = n + 1
     /\ pc[r] = "recv" /\ i[r] \in 1..Len(Tags)
     /\ HasSent(n, s) /\ (pc[s] = "send" => i[r] <= i[s])
     /\ answers[r] = << >>
  \/ /\ count[r] = n + 1
     /\ pc[r] \in {"flip", "check", "decode"}
     /\ Awaits(n, s)
     /\ answers[r] = << >>
  \/ /\ count[r] = IF crc_ok[r] = "n" THEN n ELSE n + 1
     /\ pc[r] = "answer"
     /\ Awaits(n, s)
     /\ answers[r] = << >>

\* The messages under way: those sent and not received, in one direction.
MailAt(n, s, r) ==
  /\ numbers[s] = << >>
  /\ numbers[r] = IF HasSent(n, s) /\ ~HasGot(n, s, r) THEN <<n + 1>> ELSE << >>
  /\ \A t \in TagSet : parts[s][t] = << >>
  /\ \A k \in 1..Len(Tags) :
       IF PartSent(n, s, k) /\ ~PartGot(n, s, r, k)
       THEN Len(parts[r][Tags[k]]) = 1 ELSE parts[r][Tags[k]] = << >>
  /\ \/ answers[s] = << >>
     \/ /\ answers[s] = <<"n">>
        /\ pc[s] = "await" /\ count[s] = n + 1
        /\ count[r] = n /\ pc[r] \in {"loop", "listen", "show"}

\* The loops of the receiver.
LoopsAt(r) ==
  /\ pc[r] = "flip" => CT \in {8, 10} /\ i[r] >= 1
  /\ pc[r] = "check" => Answered
  /\ pc[r] = "decode" => CT = 10 /\ i[r] \in Blocks /\ crc_ok[r] = "y"

\* An odd number of flips leaves an odd number of wrong bits (CT 8), and what
\* is hopeless is not accepted.
ParityAt(n, r) ==
  /\ CT = 8 /\ pc[r] = "recv" /\ i[r] > 1 => block[r][0].data = 0
  /\ CT = 8 /\ pc[r] = "flip" => (block[r][0].data + i[r]) % 2 = Errors % 2
  /\ CT = 8 /\ pc[r] = "check" => block[r][0].data % 2 = Errors % 2
  /\ Hopeless => n = 0 /\ (pc[r] = "answer" => crc_ok[r] = "n")

\* Who sends has data that are right; what the receiver damages it can tell.
Tellable(r) == \A b \in Blocks : Weight(block[r][b]) <= 2
Decoding(r) ==
  \A b \in Blocks : IF b < i[r] THEN block[r][b].data = 0
                                ELSE Weight(block[r][b]) <= 2

DataAt(s, r) ==
  /\ CT \notin {8, 10} => Clean(r)
  /\ Clean(s)
  /\ \A p \in Ranks : source[p] = "exact"
  /\ \A p \in Ranks : \A t \in TagSet :
       \A k \in 1..Len(parts[p][t]) : parts[p][t][k] = "exact"
  /\ CT = 10 /\ pc[r] = "recv" /\ i[r] > 1 => Tellable(r)
  /\ CT = 10 /\ pc[r] \in {"flip", "check"} => Tellable(r)
  /\ pc[r] = "decode" => Decoding(r)
  /\ pc[r] = "answer" /\ crc_ok[r] = "y" => Clean(r)

\* The rank that got the last number has shown the error once it is past it.
ShownAt(n, s, r) ==
  /\ shown[r] = 0
  /\ shown[s] = IF n = LIMIT /\ pc[s] # "show" THEN 1 ELSE 0

Phase(n, s, r) ==
  /\ s = n % 2 /\ r = (n + 1) % 2
  /\ SenderAt(n, s)
  /\ ReceiverAt(n, s, r)
  /\ MailAt(n, s, r)
  /\ LoopsAt(r)
  /\ ParityAt(n, r)
  /\ overload \/ DataAt(s, r)
  /\ ShownAt(n, s, r)

IInv ==
  /\ TypeOK
  /\ \E n \in 0..LIMIT : Phase(n, n % 2, (n + 1) % 2)

-----------------------------------------------------------------------------
(* What the arguments of the program fix. *)

\* What is fixed with the arguments of a transfer does not change.
LEMMA Fixed ==
  ASSUME UNCHANGED transfer
  PROVE  /\ CT' = CT /\ Answered' = Answered /\ Blocks' = Blocks
         /\ Tags' = Tags /\ TagSet' = TagSet /\ Errors' = Errors
         /\ AllIntact' = AllIntact /\ Hopeless' = Hopeless
BY DEF CT, Bytes, Answered, Blocks, CodeTags, Tags, TagSet, Errors, AllIntact,
       Hopeless

\* Partner and the parity of the count agree: the ranks take turns.
LEMMA Turns ==
  ASSUME NEW n \in Nat, NEW s, NEW r, s = n % 2, r = (n + 1) % 2
  PROVE  /\ Ranks = {s, r} /\ s # r
         /\ Partner(s) = r /\ Partner(r) = s
         /\ (n + 1 + 1) % 2 = s
<1>1. \/ s = 0 /\ r = 1
      \/ s = 1 /\ r = 0
  BY Z3
<1>2. (n + 1 + 1) % 2 = s
  BY Z3
<1> QED
  BY <1>1, <1>2 DEF Ranks, Partner

\* No tag is used for two messages of a transfer, and what is answered has at
\* least one message.
LEMMA TagsDiffer ==
  ASSUME TypeOK
  PROVE  /\ Tags \in Seq(Nat)
         /\ Len(Tags) \in Nat
         /\ \A k \in 1..Len(Tags) : Tags[k] \in TagSet
         /\ \A t \in TagSet : \E k \in 1..Len(Tags) : t = Tags[k]
         /\ \A k, l \in 1..Len(Tags) : Tags[k] = Tags[l] => k = l
         /\ Answered => Len(Tags) >= 1
         /\ Tags = << >> <=> Len(Tags) = 0
<1>1. CT \in Nat /\ Bytes \in Nat \ {0}
  BY PingPongAssumption DEF TypeOK, CT, Bytes
<1>2. bs_num(Bytes) \in Nat /\ bs_num(Bytes) >= 1
  BY <1>1, BlockCount
<1>3. CodeTags \in Seq(Nat) /\ Len(CodeTags) = bs_num(Bytes)
      /\ \A b \in 1..Len(CodeTags) : CodeTags[b] = 1000 + b
  BY <1>2 DEF CodeTags
<1>4. \A k \in 1..Len(Tags) : Tags[k] \in TagSet
  BY DEF TagSet
<1>5. \A t \in TagSet : \E k \in 1..Len(Tags) : t = Tags[k]
  BY DEF TagSet
<1>6. CASE CT = 10
  <2>1. Tags = <<10, 32, 1000>> \o CodeTags
    BY <1>6 DEF Tags
  <2>2. Tags \in Seq(Nat) /\ Len(Tags) = 3 + Len(CodeTags)
    BY <1>3, <2>1
  <2>3. \A k \in 1..Len(Tags) :
          Tags[k] = IF k = 1 THEN 10 ELSE IF k = 2 THEN 32
                    ELSE IF k = 3 THEN 1000 ELSE 1000 + (k - 3)
    BY <1>3, <2>1, <2>2
  <2>4. \A k, l \in 1..Len(Tags) : Tags[k] = Tags[l] => k = l
    <3> SUFFICES ASSUME NEW k \in 1..Len(Tags), NEW l \in 1..Len(Tags),
                        Tags[k] = Tags[l]
                 PROVE  k = l
      OBVIOUS
    <3> DEFINE tag(x) == IF x = 1 THEN 10 ELSE IF x = 2 THEN 32
                         ELSE IF x = 3 THEN 1000 ELSE 1000 + (x - 3)
    <3>1. tag(k) = tag(l)
      BY <2>3
    <3>2. k \in Nat /\ l \in Nat /\ k >= 1 /\ l >= 1
      BY <1>2, <1>3, <2>2
    <3> QED
      BY <3>1, <3>2
  <2> QED
    BY <1>2, <1>3, <1>4, <1>5, <2>2, <2>4
<1>7. CASE CT # 10
  <2>1. \/ Tags = << >> /\ ~Answered
        \/ \E x \in Nat : Tags = <<x>> /\ ~Answered
        \/ \E x, y \in Nat : x # y /\ Tags = <<x, y>>
    BY <1>1, <1>7 DEF Tags, Answered
  <2>2. CASE Tags = << >> /\ ~Answered
    BY <1>4, <1>5, <2>2
  <2>3. ASSUME NEW x \in Nat, Tags = <<x>>, ~Answered
        PROVE  /\ Tags \in Seq(Nat) /\ Len(Tags) = 1 /\ Tags # << >>
               /\ \A k, l \in 1..Len(Tags) : Tags[k] = Tags[l] => k = l
    BY <2>3
  <2>4. ASSUME NEW x \in Nat, NEW y \in Nat, x # y, Tags = <<x, y>>
        PROVE  /\ Tags \in Seq(Nat) /\ Len(Tags) = 2 /\ Tags # << >>
               /\ \A k, l \in 1..Len(Tags) : Tags[k] = Tags[l] => k = l
    <3>1. Tags \in Seq(Nat) /\ Len(Tags) = 2 /\ Tags[1] = x /\ Tags[2] = y
      BY <2>4
    <3> QED
      BY <2>4, <3>1
  <2> QED
    BY <1>4, <1>5, <2>1, <2>2, <2>3, <2>4
<1> QED
  BY <1>6, <1>7

\* A message queue with one message, and one more.
LEMMA OneMessage ==
  ASSUME NEW S, NEW q \in Seq(S), Len(q) = 1
  PROVE  Head(q) = q[1] /\ Head(q) \in S /\ Tail(q) = << >> /\ q # << >>
<1>1. Len(Tail(q)) = 0 /\ Tail(q) \in Seq(S)
  OBVIOUS
<1>2. Tail(q) = << >>
  BY <1>1, EmptySeq
<1> QED
  BY <1>2

\* A message put on an empty channel.
LEMMA FirstMessage ==
  ASSUME NEW S, NEW x \in S
  PROVE  /\ Append(<< >>, x) = <<x>> /\ <<x>> \in Seq(S) /\ Len(<<x>>) = 1
         /\ <<x>>[1] = x /\ Head(<<x>>) = x /\ Tail(<<x>>) = << >>
         /\ <<x>> # << >>
OBVIOUS

\* A function updated within its range keeps its type.
LEMMA ExceptType ==
  ASSUME NEW D, NEW X, NEW f \in [D -> X], NEW d \in D, NEW x \in X
  PROVE  [f EXCEPT ![d] = x] \in [D -> X]
OBVIOUS

\* What every step starts from.
Stage(n, s, r) ==
  /\ n \in Nat /\ LIMIT \in Nat
  /\ Ranks = {s, r} /\ s # r /\ Partner(s) = r /\ Partner(r) = s
  /\ CT' = CT /\ Answered' = Answered /\ Blocks' = Blocks
  /\ Tags' = Tags /\ TagSet' = TagSet /\ Errors' = Errors
  /\ AllIntact' = AllIntact /\ Hopeless' = Hopeless

\* What a step in phase n may use of the phase it starts from.
LEMMA Setting ==
  ASSUME NEW n \in 0..LIMIT, NEW s, NEW r, TypeOK, Phase(n, s, r),
         UNCHANGED transfer
  PROVE  Stage(n, s, r)
<1>1. n \in Nat /\ LIMIT \in Nat
  BY PingPongAssumption
<1>2. s = n % 2 /\ r = (n + 1) % 2
  BY DEF Phase
<1> QED
  BY <1>1, <1>2, Turns, Fixed DEF Stage

-----------------------------------------------------------------------------
(* One lemma per action. *)

\* The test of the loop: who sends next goes on to send.
LEMMA ServeStep ==
  ASSUME NEW n \in 0..LIMIT, NEW s, NEW r, TypeOK, Phase(n, s, r),
         NEW p \in Ranks, Serve(p)
  PROVE  TypeOK' /\ Phase(n, s, r)'
<1>0. Stage(n, s, r)
  BY Setting DEF Serve
<1> USE <1>0 DEF Stage, Serve
<1>1. p = s /\ count[s] = n /\ pc[s] = "loop" /\ n < LIMIT
  BY DEF Phase, SenderAt, ReceiverAt, Continues, At
<1>2. /\ pc'[s] = "number" /\ pc'[r] = pc[r]
      /\ count'[s] = n + 1 /\ count'[r] = count[r]
  BY <1>1 DEF GoTo, TypeOK
<1>3. TypeOK'
  <2>1. pc' = [pc EXCEPT ![s] = "number"] /\ count' = [count EXCEPT ![s] = @ + 1]
    BY <1>1 DEF GoTo
  <2>2. pc' \in [Ranks -> Label]
    BY ONLY <2>1, TypeOK DEF TypeOK, Label
  <2>3. count' \in [Ranks -> 0..LIMIT]
    <3>1. count \in [Ranks -> 0..LIMIT] /\ count[s] + 1 \in 0..LIMIT
      BY <1>1 DEF TypeOK
    <3> QED
      BY ONLY <2>1, <3>1
  <2> QED
    BY <2>2, <2>3 DEF TypeOK, mailvars, datavars
<1>4. SenderAt(n, s)'
  BY <1>1, <1>2 DEF SenderAt
<1>5. ReceiverAt(n, s, r)'
  BY <1>1, <1>2 DEF Phase, ReceiverAt, mailvars, Awaits, HasSent
<1>6. MailAt(n, s, r)'
  BY <1>1, <1>2 DEF Phase, MailAt, mailvars, HasSent, HasGot, PartSent, PartGot
<1>7. LoopsAt(r)' /\ ParityAt(n, r)' /\ ShownAt(n, s, r)'
  BY <1>1, <1>2 DEF Phase, LoopsAt, ParityAt, ShownAt, datavars
<1>8. (overload \/ DataAt(s, r))'
  BY <1>1, <1>2 DEF Phase, DataAt, datavars, mailvars, Clean, Tellable, Decoding
<1> QED
  BY <1>3, <1>4, <1>5, <1>6, <1>7, <1>8 DEF Phase

\* The other one waits for the count, also when it has sent the last transfer
\* without waiting for an answer.
LEMMA ListenStep ==
  ASSUME NEW n \in 0..LIMIT, NEW s, NEW r, TypeOK, Phase(n, s, r),
         NEW p \in Ranks, Listen(p)
  PROVE  TypeOK' /\ Phase(n, s, r)'
<1>0. Stage(n, s, r)
  BY Setting DEF Listen
<1> USE <1>0 DEF Stage, Listen
<1>1. \/ p = s /\ count[s] = n + 1 /\ n + 1 < LIMIT /\ ~Answered
      \/ p = r /\ count[r] = n /\ n < LIMIT /\ answers[r] = << >>
  BY DEF Phase, SenderAt, ReceiverAt, Continues, At
<1>2. pc[p] = "loop" /\ pc' = [pc EXCEPT ![p] = "listen"] /\ count' = count
  BY DEF At, GoTo
<1>3. TypeOK'
  BY <1>2 DEF TypeOK, Label, mailvars, datavars
<1>4. SenderAt(n, s)'
  BY <1>1, <1>2 DEF Phase, SenderAt, TypeOK
<1>5. ReceiverAt(n, s, r)'
  BY <1>1, <1>2 DEF Phase, ReceiverAt, mailvars, Awaits, HasSent, TypeOK
<1>6. MailAt(n, s, r)'
  BY <1>1, <1>2 DEF Phase, MailAt, mailvars, HasSent, HasGot, PartSent, PartGot, TypeOK
<1>7. LoopsAt(r)' /\ ParityAt(n, r)' /\ ShownAt(n, s, r)'
  BY <1>1, <1>2 DEF Phase, LoopsAt, ParityAt, ShownAt, datavars, TypeOK
<1>8. (overload \/ DataAt(s, r))'
  BY <1>1, <1>2 DEF Phase, DataAt, datavars, mailvars, Clean, Tellable, Decoding, TypeOK
<1> QED
  BY <1>3, <1>4, <1>5, <1>6, <1>7, <1>8 DEF Phase

\* A rank leaves the loop with LIMIT.
LEMMA LeaveStep ==
  ASSUME NEW n \in 0..LIMIT, NEW s, NEW r, TypeOK, Phase(n, s, r),
         NEW p \in Ranks, Leave(p)
  PROVE  TypeOK' /\ Phase(n, s, r)'
<1>0. Stage(n, s, r)
  BY Setting DEF Leave
<1> USE <1>0 DEF Stage, Leave
<1>1. \/ p = s /\ count[s] = n + 1 /\ n + 1 = LIMIT /\ ~Answered
      \/ p = s /\ count[s] = n /\ n = LIMIT
      \/ p = r /\ count[r] = n /\ n = LIMIT /\ answers[r] = << >>
  BY DEF Phase, SenderAt, ReceiverAt, Continues, At
<1>2. pc[p] = "loop" /\ pc' = [pc EXCEPT ![p] = "done"] /\ count' = count
  BY DEF At, GoTo
<1>3. TypeOK'
  BY <1>2 DEF TypeOK, Label, mailvars, datavars
<1>4. SenderAt(n, s)'
  BY <1>1, <1>2 DEF Phase, SenderAt, TypeOK
<1>5. ReceiverAt(n, s, r)'
  BY <1>1, <1>2 DEF Phase, ReceiverAt, mailvars, Awaits, HasSent, TypeOK
<1>6. MailAt(n, s, r)'
  <2>1. p = r => answers[s] = << >>
    BY <1>1 DEF Phase, SenderAt, MailAt
  <2> QED
    BY <1>1, <1>2, <2>1
    DEF Phase, MailAt, mailvars, HasSent, HasGot, PartSent, PartGot, TypeOK
<1>7. LoopsAt(r)' /\ ParityAt(n, r)' /\ ShownAt(n, s, r)'
  BY <1>1, <1>2 DEF Phase, LoopsAt, ParityAt, ShownAt, datavars, TypeOK
<1>8. (overload \/ DataAt(s, r))'
  BY <1>1, <1>2 DEF Phase, DataAt, datavars, mailvars, Clean, Tellable, Decoding, TypeOK
<1> QED
  BY <1>3, <1>4, <1>5, <1>6, <1>7, <1>8 DEF Phase

-----------------------------------------------------------------------------
\* Sending a number keeps the phase.
LEMMA SendNumberStep ==
  ASSUME NEW n \in 0..LIMIT, NEW s, NEW r, TypeOK, Phase(n, s, r),
         NEW p \in Ranks, SendNumber(p)
  PROVE  TypeOK' /\ Phase(n, s, r)'
<1>0. Stage(n, s, r)
  BY Setting DEF SendNumber
<1> USE <1>0 DEF Stage, SendNumber
<1>1. p = s /\ count[s] = n + 1 /\ n < LIMIT /\ pc[s] = "number"
  BY DEF Phase, SenderAt, ReceiverAt, At
<1>2. /\ pc'[s] = IF Len(Tags) = 0 THEN "loop" ELSE "send"
      /\ Len(Tags) = 0 => ~Answered
      /\ pc'[r] = pc[r] /\ i'[s] = 1 /\ i'[r] = i[r] /\ count' = count
  BY <1>1, TagsDiffer DEF GoTo, SetI, TypeOK, AfterSend
<1>3. /\ answers[s] = << >> /\ count[r] = n
      /\ pc[r] \in {"loop", "listen", "show", "done", "await"}
  BY <1>1 DEF Phase, ReceiverAt, MailAt, Awaits, HasSent
<1>4. numbers'[s] = << >> /\ numbers'[r] = <<n + 1>>
  <2>1. numbers[s] = << >> /\ numbers[r] = << >>
    BY <1>1 DEF Phase, MailAt, HasSent
  <2> QED
    BY <2>1, <1>1, FirstMessage DEF TypeOK
<1>5. TypeOK'
  <2>1. numbers' \in [Ranks -> Seq(0..LIMIT)]
    <3>1. <<n + 1>> \in Seq(0..LIMIT) /\ << >> \in Seq(0..LIMIT)
      BY <1>1
    <3>2. numbers' = [q \in Ranks |-> numbers'[q]]
      BY <1>1 DEF TypeOK
    <3>3. \A q \in Ranks : numbers'[q] \in Seq(0..LIMIT)
      BY ONLY <1>0, <1>4, <3>1 DEF Stage
    <3> QED
      BY ONLY <3>2, <3>3
  <2> QED
    BY <1>1, <1>2, <2>1 DEF TypeOK, GoTo, SetI, AfterSend, Label, datavars
<1>6. SenderAt(n, s)'
  BY <1>1, <1>2 DEF SenderAt
<1>7. ReceiverAt(n, s, r)'
  BY <1>1, <1>2, <1>3 DEF Phase, ReceiverAt, Awaits, HasSent
<1>8. MailAt(n, s, r)'
  <2>1. \A k \in 1..Len(Tags) : ~PartSent(n, s, k)' /\ ~PartSent(n, s, k)
    BY <1>1, <1>2 DEF PartSent, HasSent
  <2> QED
    BY <1>1, <1>2, <1>3, <1>4, <2>1 DEF Phase, MailAt, HasSent, HasGot
<1>9. LoopsAt(r)' /\ ParityAt(n, r)' /\ ShownAt(n, s, r)'
  BY <1>1, <1>2 DEF Phase, LoopsAt, ParityAt, ShownAt, datavars
<1>10. (overload \/ DataAt(s, r))'
  BY <1>1, <1>2 DEF Phase, DataAt, datavars, Clean, Tellable, Decoding
<1> QED
  BY <1>5, <1>6, <1>7, <1>8, <1>9, <1>10 DEF Phase

\* Sending a part of the data, with or without errors, keeps the phase.
LEMMA SendPartStep ==
  ASSUME NEW n \in 0..LIMIT, NEW s, NEW r, TypeOK, Phase(n, s, r),
         NEW p \in Ranks, SendPart(p)
  PROVE  TypeOK' /\ Phase(n, s, r)'
<1>0. Stage(n, s, r)
  BY Setting DEF SendPart
<1> USE <1>0 DEF Stage
<1> DEFINE j == i[s]
           t == Tags[j]
<1>1. /\ p = s /\ count[s] = n + 1 /\ n < LIMIT /\ pc[s] = "send"
      /\ j \in 1..Len(Tags) /\ answers[s] = << >>
  BY DEF Phase, SenderAt, ReceiverAt, MailAt, SendPart, At
<1>2. Len(Tags) \in Nat /\ j \in Nat /\ t \in TagSet
  BY <1>1, TagsDiffer
<1> DEFINE l == IF j # Len(Tags) THEN "send"
                ELSE IF Answered THEN "await" ELSE "loop"
<1>3. /\ pc' = [pc EXCEPT ![s] = l] /\ i' = [i EXCEPT ![s] = j + 1]
      /\ UNCHANGED <<count, numbers, answers, source, block, overload, crc_ok,
                     shown, resent, transfer, eager>>
  BY <1>1 DEF SendPart, GoTo, SetI, AfterSend, datavars
<1>a. pc'[s] = l /\ pc'[r] = pc[r] /\ i'[s] = j + 1 /\ i'[r] = i[r]
  BY <1>3 DEF TypeOK
<1>4. \/ count[r] = n /\ pc[r] \in {"loop", "listen", "show", "done", "await"}
      \/ count[r] = n + 1 /\ pc[r] = "recv" /\ i[r] \in 1..j
  BY <1>1, <1>2 DEF Phase, ReceiverAt, Awaits, HasSent
<1>5. parts[r][t] = << >>
  BY <1>1, <1>2 DEF Phase, MailAt, PartSent
<1>6. /\ parts'[s] = parts[s]
      /\ parts'[r] = [parts[r] EXCEPT ![t] = <<Held(s)>>]
      /\ parts' = [q \in Ranks |-> parts'[q]]
  <2>1. parts' = [parts EXCEPT ![r][t] = Append(@, Held(s))]
    BY <1>1 DEF SendPart
  <2>2. Held(s) \in Holds
    BY DEF Held, Holds
  <2>3. parts' = [parts EXCEPT ![r] = [parts[r] EXCEPT ![t] = <<Held(s)>>]]
    BY <1>5, <2>1, <2>2, FirstMessage
  <2> QED
    BY ONLY <1>0, <2>3, TypeOK DEF Stage, TypeOK
<1>7. TypeOK'
  <2>1. parts' \in [Ranks -> [TagSet -> Seq(Holds)]]
    <3>1. <<Held(s)>> \in Seq(Holds)
      BY DEF Held, Holds
    <3>2. \A q \in Ranks : parts[q] \in [TagSet -> Seq(Holds)]
      BY DEF TypeOK
    <3>3. \A q \in Ranks : parts'[q] \in [TagSet -> Seq(Holds)]
      <4>1. parts'[r] \in [TagSet -> Seq(Holds)]
        BY <1>2, <1>6, <3>1, <3>2, ExceptType
      <4> QED
        BY ONLY <1>0, <1>6, <3>2, <4>1 DEF Stage
    <3> QED
      BY ONLY <1>6, <3>3
  <2>2. l \in Label /\ j + 1 \in Nat
    BY <1>2 DEF Label
  <2>3. pc' \in [Ranks -> Label] /\ i' \in [Ranks -> Nat]
    BY ONLY <1>3, <2>2, TypeOK DEF TypeOK
  <2> QED
    BY <1>3, <2>1, <2>3 DEF TypeOK
<1>8. SenderAt(n, s)'
  BY <1>1, <1>2, <1>3, <1>a DEF SenderAt
<1>9. ReceiverAt(n, s, r)'
  BY <1>1, <1>2, <1>3, <1>a, <1>4 DEF Phase, ReceiverAt, HasSent
<1>10. MailAt(n, s, r)'
  <2>1. \A k \in 1..Len(Tags) : /\ PartSent(n, s, k)' <=> k <= j
                                /\ PartSent(n, s, k) <=> k < j
                                /\ PartGot(n, s, r, k)' <=> PartGot(n, s, r, k)
    BY <1>1, <1>2, <1>3, <1>a DEF PartSent, PartGot, HasSent, HasGot
  <2>2. ~PartGot(n, s, r, j)
    BY <1>1, <1>2, <1>4 DEF PartGot, HasGot
  <2>3. Len(parts'[r][t]) = 1
    BY <1>2, <1>6 DEF TypeOK
  <2>4. \A k \in 1..Len(Tags) : k # j => parts'[r][Tags[k]] = parts[r][Tags[k]]
    <3>1. parts[r] \in [TagSet -> Seq(Holds)]
      BY DEF TypeOK
    <3>2. \A k \in 1..Len(Tags) : k # j => Tags[k] \in TagSet /\ Tags[k] # t
      BY <1>1, TagsDiffer
    <3>3. \A x \in TagSet : x # t => parts'[r][x] = parts[r][x]
      BY ONLY <1>6, <3>1
    <3> QED
      BY ONLY <3>2, <3>3
  <2>5. \A k \in 1..Len(Tags) :
          IF PartSent(n, s, k)' /\ ~PartGot(n, s, r, k)'
          THEN Len(parts'[r][Tags[k]]) = 1 ELSE parts'[r][Tags[k]] = << >>
    <3> TAKE k \in 1..Len(Tags)
    <3>1. CASE k = j
      BY <1>1, <2>1, <2>2, <2>3, <3>1
    <3>2. CASE k # j
      BY <1>2, <2>1, <2>4, <3>2 DEF Phase, MailAt
    <3> QED
      BY <3>1, <3>2
  <2>6. parts'[s] = parts[s]
    BY <1>6 DEF TypeOK
  <2>7. (HasSent(n, s) /\ ~HasGot(n, s, r))' <=> (HasSent(n, s) /\ ~HasGot(n, s, r))
    BY <1>1, <1>3, <1>a, <1>4 DEF HasSent, HasGot
  <2> QED
    BY <1>1, <1>3, <1>a, <1>4, <1>6, <2>5, <2>6, <2>7 DEF Phase, MailAt
<1>11. LoopsAt(r)' /\ ParityAt(n, r)' /\ ShownAt(n, s, r)'
  BY <1>1, <1>3, <1>a DEF Phase, LoopsAt, ParityAt, ShownAt
<1>12. (overload \/ DataAt(s, r))'
  <2> SUFFICES ASSUME ~overload PROVE DataAt(s, r)'
    BY <1>3, <1>a
  <2>1. Held(s) = "exact"
    BY DEF Phase, DataAt, Held
  <2>2. \A q \in Ranks : \A x \in TagSet :
          \A k \in 1..Len(parts'[q][x]) : parts'[q][x][k] = "exact"
    <3>1. /\ \A q \in Ranks : parts[q] \in [TagSet -> Seq(Holds)]
          /\ \A q \in Ranks : \A x \in TagSet :
               \A k \in 1..Len(parts[q][x]) : parts[q][x][k] = "exact"
      BY DEF Phase, DataAt, TypeOK
    <3>2. \A x \in TagSet : parts'[s][x] = parts[s][x]
      BY <1>6
    <3>3. \A x \in TagSet : parts'[r][x] = IF x = t THEN <<"exact">> ELSE parts[r][x]
      BY ONLY <1>0, <1>2, <1>6, <2>1, <3>1 DEF Stage
    <3> QED
      BY ONLY <1>0, <3>1, <3>2, <3>3 DEF Stage
  <2> QED
    BY <1>3, <1>a, <2>2 DEF Phase, DataAt, Clean, Tellable, Decoding
<1> QED
  BY <1>7, <1>8, <1>9, <1>10, <1>11, <1>12 DEF Phase

\* The sender takes its count back as the receiver has done, or the receiver's
\* partner learns late that it is its turn to listen.
LEMMA GetAnswerStep ==
  ASSUME NEW n \in 0..LIMIT, NEW s, NEW r, TypeOK, Phase(n, s, r),
         NEW p \in Ranks, GetAnswer(p)
  PROVE  TypeOK' /\ Phase(n, s, r)'
<1>0. Stage(n, s, r)
  BY Setting DEF GetAnswer
<1> USE <1>0 DEF Stage
<1>1. \/ /\ p = s /\ answers[s] = <<"n">> /\ count[s] = n + 1 /\ n < LIMIT
         /\ count[r] = n /\ pc[r] \in {"loop", "listen", "show"}
         /\ answers[r] = << >>
      \/ /\ p = r /\ answers[r] = <<"y">> /\ count[r] = n
         /\ answers[s] = << >>
  BY DEF Phase, SenderAt, ReceiverAt, MailAt, GetAnswer, At
<1>2. /\ pc[p] = "await" /\ pc' = [pc EXCEPT ![p] = "loop"]
      /\ count' = [count EXCEPT ![p] = n]
      /\ answers' = [answers EXCEPT ![p] = << >>]
      /\ crc_ok' = [crc_ok EXCEPT ![p] = Head(answers[p])]
      /\ Head(answers[p]) \in {"y", "n"}
      /\ UNCHANGED <<transfer, eager, i, numbers, parts, source, block, overload,
                     resent, shown>>
  <2>1. /\ Head(answers[p]) = IF p = s THEN "n" ELSE "y"
        /\ Tail(answers[p]) = << >>
    BY <1>1, FirstMessage
  <2>2. Undone(p, Head(answers[p])) = n
    BY <1>1, <2>1 DEF Undone
  <2> QED
    BY <2>1, <2>2 DEF GetAnswer, At, GoTo, datavars
<1>3. TypeOK'
  BY <1>2 DEF TypeOK, Label, Verdict
<1>4. SenderAt(n, s)'
  BY <1>1, <1>2 DEF Phase, SenderAt, TypeOK
<1>5. ReceiverAt(n, s, r)'
  BY <1>1, <1>2 DEF Phase, ReceiverAt, Awaits, HasSent, TypeOK
<1>6. MailAt(n, s, r)'
  <2>1. /\ pc'[p] = "loop" /\ count'[p] = n /\ answers'[p] = << >>
        /\ \A q \in Ranks : q # p => /\ pc'[q] = pc[q] /\ count'[q] = count[q]
                                    /\ answers'[q] = answers[q]
        /\ i' = i /\ numbers' = numbers /\ parts' = parts
    BY <1>2 DEF TypeOK
  <2>2. /\ numbers[s] = << >>
        /\ numbers[r] = IF HasSent(n, s) /\ ~HasGot(n, s, r) THEN <<n + 1>> ELSE << >>
        /\ \A t \in TagSet : parts[s][t] = << >>
        /\ \A k \in 1..Len(Tags) :
             IF PartSent(n, s, k) /\ ~PartGot(n, s, r, k)
             THEN Len(parts[r][Tags[k]]) = 1 ELSE parts[r][Tags[k]] = << >>
    BY DEF Phase, MailAt
  <2>3. CASE p = s
    <3>1. /\ answers[s] # << >> /\ answers'[s] = << >>
          /\ pc[r] \in {"loop", "listen", "show"}
      <4>1. answers[s] = <<"n">> /\ pc[r] \in {"loop", "listen", "show"}
        BY ONLY <1>0, <1>1, <2>3 DEF Stage
      <4>2. answers[s] # << >>
        BY ONLY <4>1
      <4> QED
        BY <2>1, <2>3, <4>1, <4>2
    <3>2. ~HasSent(n, s)'
      BY <2>1, <2>3 DEF HasSent
    <3>3. HasGot(n, s, r) /\ \A k \in 1..Len(Tags) : PartGot(n, s, r, k)
      BY <3>1 DEF HasGot, PartGot
    <3>4. \A k \in 1..Len(Tags) : ~PartSent(n, s, k)' /\ parts[r][Tags[k]] = << >>
      BY <2>2, <3>2, <3>3 DEF PartSent
    <3> QED
      BY <2>1, <2>2, <3>1, <3>2, <3>3, <3>4 DEF MailAt
  <2>4. CASE p = r
    <3>1. /\ pc[r] = "await" /\ pc'[r] = "loop" /\ count[r] = n /\ count'[r] = n
          /\ answers[s] = << >> /\ answers'[s] = << >>
          /\ pc'[s] = pc[s] /\ count'[s] = count[s]
      BY <1>1, <1>2, <2>1, <2>4
    <3>2. HasSent(n, s)' <=> HasSent(n, s)
      BY <3>1 DEF HasSent
    <3>3. ~HasGot(n, s, r) /\ ~HasGot(n, s, r)'
      BY <3>1 DEF HasGot
    <3>4. \A k \in 1..Len(Tags) : /\ PartSent(n, s, k)' <=> PartSent(n, s, k)
                                  /\ ~PartGot(n, s, r, k) /\ ~PartGot(n, s, r, k)'
      BY <2>1, <3>1, <3>2, <3>3 DEF PartSent, PartGot
    <3> QED
      BY <2>1, <2>2, <3>1, <3>2, <3>3, <3>4 DEF MailAt
  <2> QED
    BY <2>3, <2>4
<1>7. LoopsAt(r)' /\ ParityAt(n, r)' /\ ShownAt(n, s, r)'
  BY <1>1, <1>2 DEF Phase, LoopsAt, ParityAt, ShownAt, TypeOK
<1>8. (overload \/ DataAt(s, r))'
  BY <1>1, <1>2 DEF Phase, DataAt, Clean, Tellable, Decoding, TypeOK
<1> QED
  BY <1>3, <1>4, <1>5, <1>6, <1>7, <1>8 DEF Phase

-----------------------------------------------------------------------------
(* The receiver. *)

\* The arguments of a transfer have their types; errors are only injected with CT 8 and 10.
LEMMA Arguments ==
  ASSUME TypeOK
  PROVE  /\ CT \in Nat /\ Bytes \in Nat \ {0} /\ Errors \in Nat
         /\ Errors > 0 => CT \in {8, 10}
         /\ Blocks \subseteq Nat /\ 0 \in Blocks /\ (CT = 8 => Blocks = {0})
         /\ AllIntact \in [Blocks -> Pattern]
         /\ \A b \in Blocks : AllIntact[b].data = 0 /\ Weight(AllIntact[b]) = 0
<1>1. CT \in Nat /\ Bytes \in Nat \ {0}
  BY PingPongAssumption DEF TypeOK, CT, Bytes
<1>2. Bytes \div MaxBlock \in Nat
  BY <1>1, MaxBlockAssumption, Z3
<1>3. bs_num(Bytes) \in Nat /\ bs_num(Bytes) >= 1
  BY <1>1, BlockCount
<1>4. Blocks \subseteq Nat /\ 0 \in Blocks /\ (CT = 8 => Blocks = {0})
  BY <1>3 DEF Blocks
<1>5. Intact \in Pattern /\ Intact.data = 0 /\ Weight(Intact) = 0
  BY DEF Intact, Pattern, Weight
<1> QED
  BY <1>1, <1>2, <1>4, <1>5 DEF Errors, AllIntact

\* Without an answer the transfer is over when the receiver has everything:
\* now it is the one to send.
LEMMA HandOver ==
  ASSUME NEW n \in 0..LIMIT, NEW s, NEW r, TypeOK, Phase(n, s, r),
         UNCHANGED <<transfer, answers, shown, overload>>, ~Answered, n < LIMIT,
         count[s] = n + 1, count'[s] = n + 1, count'[r] = n + 1,
         pc[s] \in {"loop", "listen", "done"}, pc'[s] = pc[s], pc'[r] = "show",
         answers[s] = << >>, answers[r] = << >>,
         numbers'[s] = << >>, numbers'[r] = << >>,
         \A t \in TagSet : parts'[s][t] = << >> /\ parts'[r][t] = << >>,
         ~overload => Clean(s)' /\ Clean(r)',
         ~overload => source'[s] = "exact" /\ source'[r] = "exact"
  PROVE  Phase(n + 1, r, s)'
<1>0. Stage(n, s, r)
  BY Setting
<1> USE <1>0 DEF Stage
<1>1. n + 1 \in 0..LIMIT /\ r = (n + 1) % 2 /\ s = (n + 1 + 1) % 2
  BY Turns DEF Phase
<1>2. SenderAt(n + 1, r)'
  BY DEF SenderAt
<1>3. ReceiverAt(n + 1, r, s)'
  BY DEF Phase, SenderAt, ReceiverAt
<1>4. MailAt(n + 1, r, s)'
  <2>1. \A k \in 1..Len(Tags) : ~PartSent(n + 1, r, k)'
    BY DEF PartSent, HasSent
  <2>2. ~HasSent(n + 1, r)'
    BY DEF HasSent
  <2> QED
    BY <2>1, <2>2, TagsDiffer DEF MailAt
<1>5. ~Hopeless
  BY DEF Answered, Hopeless
<1>6. LoopsAt(s)' /\ ParityAt(n + 1, s)'
  BY <1>5 DEF LoopsAt, ParityAt
<1>7. ShownAt(n + 1, r, s)'
  BY DEF Phase, ShownAt
<1>8. (overload \/ DataAt(r, s))'
  <2> SUFFICES ASSUME ~overload PROVE DataAt(r, s)'
    OBVIOUS
  <2>1. \A p \in Ranks : \A t \in TagSet : parts'[p][t] = << >>
    OBVIOUS
  <2>2. \A p \in Ranks : \A t \in TagSet :
          \A k \in 1..Len(parts'[p][t]) : parts'[p][t][k] = "exact"
    BY ONLY <2>1
  <2> QED
    BY <2>2 DEF DataAt
<1> QED
  BY <1>1, <1>2, <1>3, <1>4, <1>6, <1>7, <1>8 DEF Phase

\* Receiving a number keeps the phase, or ends it and swaps the roles.
LEMMA RecvNumberStep ==
  ASSUME NEW n \in 0..LIMIT, NEW s, NEW r, TypeOK, Phase(n, s, r),
         NEW p \in Ranks, RecvNumber(p)
  PROVE  TypeOK' /\ (Phase(n, s, r)' \/ (n < LIMIT /\ Phase(n + 1, r, s)'))
<1>0. Stage(n, s, r)
  BY Setting DEF RecvNumber
<1> USE <1>0 DEF Stage
<1>1. /\ p = r /\ count[r] = n /\ pc[r] = "listen" /\ numbers[r] = <<n + 1>>
      /\ HasSent(n, s) /\ answers[s] = << >> /\ answers[r] = << >>
  BY DEF Phase, SenderAt, ReceiverAt, MailAt, RecvNumber, At, HasGot
<1>2. count[s] = n + 1 /\ n < LIMIT
  BY <1>1 DEF HasSent, Phase, SenderAt
<1> DEFINE l == IF Len(Tags) = 0 THEN "show" ELSE "recv"
<1>3. Len(Tags) \in Nat /\ (Len(Tags) = 0 => ~Answered)
  BY TagsDiffer
<1>4. /\ pc' = [pc EXCEPT ![r] = l] /\ i' = [i EXCEPT ![r] = 1]
      /\ count' = [count EXCEPT ![r] = n + 1]
      /\ numbers' = [numbers EXCEPT ![r] = << >>]
      /\ UNCHANGED <<transfer, eager, parts, answers, source, block, overload,
                     crc_ok, resent, shown>>
  <2>1. Head(numbers[r]) = n + 1 /\ Tail(numbers[r]) = << >>
    BY <1>1, FirstMessage
  <2>2. (IF Tags = << >> THEN AfterRecv ELSE "recv") = l
    BY <1>3, TagsDiffer DEF AfterRecv
  <2> QED
    BY <1>1, <2>1, <2>2 DEF RecvNumber, GoTo, SetI, datavars
<1>5. /\ pc'[r] = l /\ pc'[s] = pc[s] /\ i'[r] = 1 /\ i'[s] = i[s]
      /\ count'[r] = n + 1 /\ count'[s] = n + 1
      /\ numbers'[r] = << >> /\ numbers'[s] = << >>
  BY <1>2, <1>4 DEF TypeOK, Phase, MailAt
<1>6. TypeOK'
  <2>1. l \in Label /\ n + 1 \in 0..LIMIT /\ << >> \in Seq(0..LIMIT)
    BY <1>2 DEF Label
  <2>2. /\ pc' \in [Ranks -> Label] /\ i' \in [Ranks -> Nat]
        /\ count' \in [Ranks -> 0..LIMIT] /\ numbers' \in [Ranks -> Seq(0..LIMIT)]
    BY ONLY <1>4, <2>1, TypeOK DEF TypeOK
  <2> QED
    BY <1>4, <2>2 DEF TypeOK
<1>7. \A k \in 1..Len(Tags) : ~PartGot(n, s, r, k)
  BY <1>1 DEF PartGot, HasGot
<1>8. CASE Len(Tags) = 0
  <2>1. \A t \in TagSet : FALSE
    BY <1>8, TagsDiffer
  <2>2. pc[s] \in {"loop", "listen", "done"} /\ ~Answered
    BY <1>1, <1>2, <1>3, <1>8 DEF Phase, SenderAt, HasSent
  <2>3. ~overload => Clean(s)' /\ Clean(r)'
    BY <1>4, <2>2 DEF Phase, DataAt, Clean, Answered
  <2>4. ~overload => source'[s] = "exact" /\ source'[r] = "exact"
    BY <1>4 DEF Phase, DataAt
  <2> QED
    BY <1>1, <1>2, <1>4, <1>5, <1>6, <1>8, <2>1, <2>2, <2>3, <2>4, HandOver
<1>9. CASE Len(Tags) # 0
  <2>1. pc'[r] = "recv"
    BY <1>5, <1>9
  <2>2. SenderAt(n, s)'
    BY <1>4, <1>5 DEF Phase, SenderAt
  <2>3. ReceiverAt(n, s, r)'
    BY <1>1, <1>2, <1>3, <1>4, <1>5, <1>9, <2>1
    DEF Phase, SenderAt, ReceiverAt, HasSent
  <2>4. MailAt(n, s, r)'
    <3>1. HasSent(n, s)' /\ HasGot(n, s, r)'
      BY <1>1, <1>4, <1>5 DEF HasSent, HasGot
    <3>2. \A k \in 1..Len(Tags) : /\ PartSent(n, s, k)' <=> PartSent(n, s, k)
                                  /\ ~PartGot(n, s, r, k)'
      BY <1>2, <1>5, <2>1 DEF PartSent, HasSent, PartGot
    <3> QED
      BY <1>1, <1>4, <1>5, <1>7, <3>1, <3>2 DEF Phase, MailAt
  <2>5. LoopsAt(r)' /\ ParityAt(n, r)' /\ ShownAt(n, s, r)'
    BY <1>4, <1>5, <2>1 DEF Phase, LoopsAt, ParityAt, ShownAt
  <2>6. (overload \/ DataAt(s, r))'
    <3> SUFFICES ASSUME ~overload PROVE DataAt(s, r)'
      BY <1>4
    <3>1. DataAt(s, r)
      BY DEF Phase
    <3>2. Clean(s)'
      BY <1>4, <3>1 DEF DataAt, Clean
    <3>3. /\ \A q \in Ranks : source'[q] = "exact"
          /\ \A q \in Ranks : \A x \in TagSet :
               \A k \in 1..Len(parts'[q][x]) : parts'[q][x][k] = "exact"
      BY <1>4, <3>1 DEF DataAt
    <3>4. CT \notin {8, 10} => Clean(r)'
      BY <1>4, <3>1 DEF DataAt, Clean
    <3>5. CT = 10 /\ i'[r] > 1 => Tellable(r)'
      BY <1>5, <2>1 DEF Tellable
    <3> QED
      BY <2>1, <3>2, <3>3, <3>4, <3>5 DEF DataAt
  <2> QED
    BY <1>6, <2>2, <2>3, <2>4, <2>5, <2>6 DEF Phase
<1> QED
  BY <1>8, <1>9

\* Receiving a part of the data keeps the phase, or ends it and swaps the roles.
LEMMA RecvPartStep ==
  ASSUME NEW n \in 0..LIMIT, NEW s, NEW r, TypeOK, Phase(n, s, r),
         NEW p \in Ranks, RecvPart(p)
  PROVE  TypeOK' /\ (Phase(n, s, r)' \/ (n < LIMIT /\ Phase(n + 1, r, s)'))
<1>0. Stage(n, s, r)
  BY Setting DEF RecvPart
<1> USE <1>0 DEF Stage
<1> DEFINE j == i[r]
           t == Tags[j]
           last == j = Len(Tags)
           l == IF last THEN AfterRecv ELSE "recv"
<1>1. /\ p = r /\ count[r] = n + 1 /\ pc[r] = "recv" /\ j \in 1..Len(Tags)
      /\ answers[r] = << >> /\ HasSent(n, s)
  BY DEF Phase, SenderAt, ReceiverAt, RecvPart, At
<1>2. count[s] = n + 1 /\ n < LIMIT /\ answers[s] = << >>
  BY <1>1 DEF HasSent, Phase, SenderAt, MailAt
<1>3. Len(Tags) \in Nat /\ j \in Nat /\ t \in TagSet /\ Errors \in Nat
  BY <1>1, TagsDiffer, Arguments
<1>4. /\ pc' = [pc EXCEPT ![r] = l]
      /\ i' = [i EXCEPT ![r] = IF last THEN Errors ELSE j + 1]
      /\ parts' = [parts EXCEPT ![r][t] = Tail(@)]
      /\ parts[r][t] # << >>
      /\ source' = [source EXCEPT ![r] = IF j = 1 THEN Head(parts[r][t]) ELSE @]
      /\ block' = [block EXCEPT ![r] = IF j = 1 THEN AllIntact ELSE @]
      /\ UNCHANGED <<transfer, eager, count, numbers, answers, crc_ok, resent,
                     shown, overload>>
  <2>1. /\ pc' = [pc EXCEPT ![r] = l]
        /\ i' = [i EXCEPT ![r] = IF last THEN Errors ELSE j + 1]
        /\ parts' = [parts EXCEPT ![r][t] = Tail(@)]
        /\ parts[r][t] # << >>
        /\ UNCHANGED <<transfer, eager, count, numbers, answers, crc_ok, resent,
                       shown, overload>>
    BY <1>1 DEF RecvPart, GoTo, SetI
  <2>2. IF j = 1
        THEN /\ source' = [source EXCEPT ![r] = Head(parts[r][t])]
             /\ block' = [block EXCEPT ![r] = AllIntact]
        ELSE UNCHANGED <<source, block>>
    BY <1>1 DEF RecvPart
  <2> QED
    BY <2>1, <2>2 DEF TypeOK
<1>5. PartSent(n, s, j) /\ Len(parts[r][t]) = 1
  BY <1>1, <1>4 DEF Phase, MailAt
<1>6. /\ Tail(parts[r][t]) = << >>
      /\ Head(parts[r][t]) = parts[r][t][1] /\ Head(parts[r][t]) \in Holds
  <2>1. parts[r][t] \in Seq(Holds)
    BY <1>3 DEF TypeOK
  <2> QED
    BY <1>5, <2>1, OneMessage
<1>7. /\ parts'[s] = parts[s]
      /\ parts'[r] = [parts[r] EXCEPT ![t] = << >>]
      /\ parts' = [q \in Ranks |-> parts'[q]]
  <2>1. parts' = [parts EXCEPT ![r] = [parts[r] EXCEPT ![t] = << >>]]
    BY <1>4, <1>6
  <2> QED
    BY ONLY <1>0, <2>1, TypeOK DEF Stage, TypeOK
<1>8. /\ pc'[r] = l /\ pc'[s] = pc[s] /\ i'[s] = i[s]
      /\ i'[r] = (IF last THEN Errors ELSE j + 1)
      /\ source'[s] = source[s] /\ block'[s] = block[s]
      /\ source'[r] = (IF j = 1 THEN Head(parts[r][t]) ELSE source[r])
      /\ block'[r] = (IF j = 1 THEN AllIntact ELSE block[r])
  BY <1>4 DEF TypeOK
<1>9. /\ \A x \in TagSet : parts'[s][x] = << >>
      /\ \A x \in TagSet : parts'[r][x] = IF x = t THEN << >> ELSE parts[r][x]
  BY <1>3, <1>7 DEF Phase, MailAt, TypeOK
<1>10. TypeOK'
  <2>1. parts' \in [Ranks -> [TagSet -> Seq(Holds)]]
    <3>1. \A q \in Ranks : parts[q] \in [TagSet -> Seq(Holds)]
      BY DEF TypeOK
    <3>2. parts'[r] \in [TagSet -> Seq(Holds)]
      BY <1>3, <1>7, <3>1, ExceptType, EmptySeq
    <3>3. \A q \in Ranks : parts'[q] \in [TagSet -> Seq(Holds)]
      BY ONLY <1>0, <1>7, <3>1, <3>2 DEF Stage
    <3> QED
      BY ONLY <1>7, <3>3
  <2>2. l \in Label
    BY DEF Label, AfterRecv
  <2>3. pc' \in [Ranks -> Label] /\ i' \in [Ranks -> Nat]
    <3> DEFINE k == IF last THEN Errors ELSE j + 1
    <3>1. pc \in [Ranks -> Label] /\ i \in [Ranks -> Nat] /\ r \in Ranks
      BY DEF TypeOK
    <3>2. k \in Nat /\ pc' = [pc EXCEPT ![r] = l] /\ i' = [i EXCEPT ![r] = k]
      BY <1>3, <1>4
    <3> HIDE DEF k, l
    <3> QED
      BY ONLY <2>2, <3>1, <3>2
  <2>4. source' \in [Ranks -> Holds]
    BY ONLY <1>4, <1>6, TypeOK DEF TypeOK
  <2>5. block' \in [Ranks -> [Blocks -> Pattern]]
    <3>1. AllIntact \in [Blocks -> Pattern]
      BY Arguments
    <3> QED
      BY ONLY <1>4, <3>1, TypeOK DEF TypeOK
  <2> QED
    BY <1>4, <2>1, <2>3, <2>4, <2>5 DEF TypeOK
<1>11. /\ last => pc[s] # "send"
       /\ pc[s] = "send" => j + 1 <= i[s]
  BY <1>1, <1>3, <1>5 DEF PartSent, Phase, SenderAt
<1>12. ~overload => /\ source'[s] = "exact" /\ source'[r] = "exact"
                    /\ Clean(s)' /\ (CT \notin {8, 10} => Clean(r)')
  <2> SUFFICES ASSUME ~overload
               PROVE  /\ source'[s] = "exact" /\ source'[r] = "exact"
                      /\ Clean(s)' /\ (CT \notin {8, 10} => Clean(r)')
    OBVIOUS
  <2>1. DataAt(s, r)
    BY DEF Phase
  <2>2. parts[r][t][1] = "exact"
    BY <1>3, <1>5, <2>1 DEF DataAt
  <2> QED
    BY <1>6, <1>8, <2>1, <2>2, Arguments DEF DataAt, Clean
<1>13. CASE last /\ ~Answered
  <2>1. pc[s] \in {"loop", "listen", "done"}
    BY <1>1, <1>2, <1>11, <1>13 DEF Phase, SenderAt, HasSent
  <2>2. pc'[r] = "show" /\ CT \notin {8, 10}
    BY <1>8, <1>13 DEF AfterRecv, Answered
  <2>3. \A k \in 1..Len(Tags) : parts'[r][Tags[k]] = << >>
    <3> TAKE k \in 1..Len(Tags)
    <3>1. CASE k = j
      BY <1>3, <1>9, <3>1
    <3>2. CASE k # j
      <4>1. PartGot(n, s, r, k)
        BY <1>1, <1>3, <1>13, <3>2 DEF PartGot, HasGot
      <4>2. parts[r][Tags[k]] = << >>
        BY <4>1 DEF Phase, MailAt
      <4> QED
        BY <1>9, <4>2, TagsDiffer
    <3> QED
      BY <3>1, <3>2
  <2>4. \A x \in TagSet : parts'[s][x] = << >> /\ parts'[r][x] = << >>
    BY <1>9, <2>3, TagsDiffer
  <2>5. numbers'[s] = << >> /\ numbers'[r] = << >>
    BY <1>1, <1>4 DEF Phase, MailAt, HasGot
  <2> QED
    BY <1>1, <1>2, <1>4, <1>8, <1>10, <1>12, <1>13, <2>1, <2>2, <2>4, <2>5, HandOver,
       SMTT(20)
<1>14. CASE ~last \/ Answered
  <2>1. /\ ~last => pc'[r] = "recv" /\ i'[r] = j + 1
        /\ last => /\ pc'[r] = IF Errors > 0 THEN "flip" ELSE "check"
                   /\ i'[r] = Errors
    BY <1>8, <1>14 DEF AfterRecv
  <2>2. last => Awaits(n, s)'
    BY <1>1, <1>2, <1>4, <1>8, <1>11, <1>14 DEF Phase, SenderAt, HasSent, Awaits
  <2>3. SenderAt(n, s)'
    BY <1>4, <1>8 DEF Phase, SenderAt
  <2>4. ReceiverAt(n, s, r)'
    <3>1. CASE last
      BY <1>1, <1>4, <2>1, <2>2, <3>1 DEF ReceiverAt
    <3>2. CASE ~last
      BY <1>1, <1>3, <1>4, <1>8, <1>11, <2>1, <3>2 DEF ReceiverAt, HasSent
    <3> QED
      BY <3>1, <3>2
  <2>5. MailAt(n, s, r)'
    <3>1. HasSent(n, s)' /\ HasGot(n, s, r)' /\ HasGot(n, s, r)
      BY <1>1, <1>4, <1>8 DEF HasSent, HasGot
    <3>2. \A k \in 1..Len(Tags) : /\ PartSent(n, s, k)' <=> PartSent(n, s, k)
                                  /\ PartGot(n, s, r, k) <=> k < j
                                  /\ PartGot(n, s, r, k)' <=> k <= j
      BY <1>1, <1>3, <1>8, <2>1, <3>1 DEF PartSent, PartGot
    <3>3. \A k \in 1..Len(Tags) :
            IF PartSent(n, s, k)' /\ ~PartGot(n, s, r, k)'
            THEN Len(parts'[r][Tags[k]]) = 1 ELSE parts'[r][Tags[k]] = << >>
      <4> TAKE k \in 1..Len(Tags)
      <4>1. CASE k = j
        BY <1>3, <1>9, <3>2, <4>1
      <4>2. CASE k # j
        <5>1. parts'[r][Tags[k]] = parts[r][Tags[k]]
          BY <1>1, <1>9, <4>2, TagsDiffer
        <5> QED
          BY <1>3, <3>2, <4>2, <5>1 DEF Phase, MailAt
      <4> QED
        BY <4>1, <4>2
    <3> QED
      BY <1>2, <1>4, <1>9, <3>1, <3>3 DEF Phase, MailAt
  <2>6. LoopsAt(r)' /\ ShownAt(n, s, r)'
    <3>1. LoopsAt(r)'
      <4>1. CASE last
        BY <1>3, <1>14, <2>1, <4>1, Arguments DEF LoopsAt
      <4>2. CASE ~last
        BY <2>1, <4>2 DEF LoopsAt
      <4> QED
        BY <4>1, <4>2
    <3>2. ShownAt(n, s, r)'
      BY <1>4, <1>8 DEF Phase, ShownAt
    <3> QED
      BY <3>1, <3>2
  <2>7. ParityAt(n, r)'
    <3>1. CT = 8 => block'[r][0].data = 0
      BY <1>1, <1>3, <1>8, Arguments DEF Phase, ParityAt
    <3>2. Hopeless => n = 0
      BY DEF Phase, ParityAt
    <3> QED
      BY <1>3, <2>1, <3>1, <3>2 DEF ParityAt
  <2>8. (overload \/ DataAt(s, r))'
    <3> SUFFICES ASSUME ~overload PROVE DataAt(s, r)'
      BY <1>4
    <3>1. DataAt(s, r)
      BY DEF Phase
    <3>2. CT = 10 => Tellable(r)'
      BY <1>1, <1>3, <1>8, <3>1, Arguments DEF DataAt, Tellable
    <3>3. \A q \in Ranks : \A x \in TagSet :
            \A k \in 1..Len(parts'[q][x]) : parts'[q][x][k] = "exact"
      <4>1. \A x \in TagSet : \A k \in 1..Len(parts[r][x]) : parts[r][x][k] = "exact"
        BY <3>1 DEF DataAt
      <4>2. \A x \in TagSet : \A k \in 1..Len(parts'[s][x]) : FALSE
        BY <1>9
      <4>3. \A x \in TagSet :
              \A k \in 1..Len(parts'[r][x]) : parts'[r][x][k] = "exact"
        BY ONLY <1>9, <4>1
      <4> QED
        BY ONLY <1>0, <4>2, <4>3 DEF Stage
    <3> QED
      BY <1>12, <2>1, <3>2, <3>3 DEF DataAt
  <2> QED
    BY <1>10, <2>3, <2>4, <2>5, <2>6, <2>7, <2>8 DEF Phase
<1> QED
  BY <1>13, <1>14

\* One bit_flip: the parity of the wrong bits and of the flips left stay the
\* same together.
LEMMA FlipBitStep ==
  ASSUME NEW n \in 0..LIMIT, NEW s, NEW r, TypeOK, Phase(n, s, r),
         NEW p \in Ranks, FlipBit(p)
  PROVE  TypeOK' /\ Phase(n, s, r)'
<1>0. Stage(n, s, r)
  BY Setting DEF FlipBit
<1> USE <1>0 DEF Stage
<1>1. /\ p = r /\ count[r] = n + 1 /\ pc[r] = "flip" /\ Awaits(n, s)
      /\ CT \in {8, 10} /\ i[r] \in Nat /\ i[r] >= 1
  BY DEF Phase, SenderAt, ReceiverAt, FlipBit, At, LoopsAt, TypeOK
<1>2. PICK b \in Blocks : \E wrong \in DataToggled(block[r][b]) :
        /\ block' = [block EXCEPT ![r][b] = wrong]
        /\ overload' = (overload \/ (CT = 10 /\ Weight(wrong) > 2))
  BY <1>1 DEF FlipBit
<1>3. PICK wrong \in DataToggled(block[r][b]) :
        /\ block' = [block EXCEPT ![r][b] = wrong]
        /\ overload' = (overload \/ (CT = 10 /\ Weight(wrong) > 2))
  BY <1>2
<1>4. block[r][b] \in Pattern /\ block[r] \in [Blocks -> Pattern]
  BY DEF TypeOK
<1>5. wrong \in Pattern /\ (wrong.data + block[r][b].data) % 2 = 1
  BY <1>4, ToggleType
<1> DEFINE l == IF i[r] = 1 THEN "check" ELSE "flip"
<1>6. /\ pc' = [pc EXCEPT ![r] = l] /\ i' = [i EXCEPT ![r] = i[r] - 1]
      /\ UNCHANGED <<transfer, eager, count, numbers, parts, answers, source,
                     crc_ok, resent, shown>>
  BY <1>1 DEF FlipBit, GoTo, SetI, mailvars
<1>7. /\ block'[s] = block[s] /\ block'[r] = [block[r] EXCEPT ![b] = wrong]
      /\ block' = [q \in Ranks |-> block'[q]]
  BY <1>3 DEF TypeOK
<1>8. pc'[r] = l /\ pc'[s] = pc[s] /\ i'[r] = i[r] - 1 /\ i'[s] = i[s]
  BY <1>6 DEF TypeOK
<1>9. TypeOK'
  <2>1. l \in Label /\ i[r] - 1 \in Nat
    BY <1>1 DEF Label
  <2>2. pc' \in [Ranks -> Label] /\ i' \in [Ranks -> Nat]
    BY ONLY <1>6, <2>1, TypeOK DEF TypeOK
  <2>3. block' \in [Ranks -> [Blocks -> Pattern]]
    <3>1. block'[r] \in [Blocks -> Pattern] /\ block'[s] \in [Blocks -> Pattern]
      BY <1>4, <1>5, <1>7, ExceptType DEF TypeOK
    <3>2. \A q \in Ranks : block'[q] \in [Blocks -> Pattern]
      BY ONLY <1>0, <3>1 DEF Stage
    <3> QED
      BY ONLY <1>7, <3>2
  <2>4. overload' \in BOOLEAN
    BY <1>3 DEF TypeOK
  <2> QED
    BY <1>6, <2>2, <2>3, <2>4 DEF TypeOK
<1>10. SenderAt(n, s)'
  BY <1>6, <1>8 DEF Phase, SenderAt
<1>11. ReceiverAt(n, s, r)'
  BY <1>1, <1>6, <1>8 DEF Phase, ReceiverAt, Awaits
<1>12. MailAt(n, s, r)'
  BY <1>1, <1>6, <1>8 DEF Phase, MailAt, Awaits, HasSent, HasGot, PartSent, PartGot
<1>13. LoopsAt(r)' /\ ShownAt(n, s, r)'
  BY <1>1, <1>6, <1>8 DEF Phase, LoopsAt, ShownAt, Answered
<1>14. ParityAt(n, r)'
  <2>1. ASSUME CT = 8
        PROVE  (block'[r][0].data + i'[r]) % 2 = Errors % 2
    <3>1. b = 0 /\ block'[r][0] = wrong
      BY <1>4, <1>7, <2>1, Arguments
    <3>2. (block[r][b].data + i[r]) % 2 = Errors % 2
      BY <1>1, <2>1, <3>1 DEF Phase, ParityAt
    <3>3. wrong.data \in Nat /\ block[r][b].data \in Nat
      BY <1>4, <1>5 DEF Pattern
    <3>4. \A x, y, k \in Nat : (x + y) % 2 = 1 /\ k >= 1 =>
            (x + (k - 1)) % 2 = (y + k) % 2
      BY Z3
    <3>5. (wrong.data + (i[r] - 1)) % 2 = (block[r][b].data + i[r]) % 2
      BY <1>1, <1>5, <3>3, <3>4
    <3> QED
      BY <1>8, <3>1, <3>2, <3>5
  <2>2. CT = 8 /\ l = "check" => block'[r][0].data % 2 = Errors % 2
    <3> SUFFICES ASSUME CT = 8, l = "check"
                 PROVE  block'[r][0].data % 2 = Errors % 2
      OBVIOUS
    <3>1. i'[r] = 0
      BY <1>1, <1>8
    <3>2. block'[r][0].data \in Nat
      <4>1. 0 \in Blocks /\ block' \in [Ranks -> [Blocks -> Pattern]]
        BY <1>9, Arguments DEF TypeOK
      <4>2. block'[r][0] \in Pattern
        BY <4>1
      <4> QED
        BY <4>2 DEF Pattern
    <3> QED
      BY <2>1, <3>1, <3>2
  <2>3. Hopeless => n = 0
    BY DEF Phase, ParityAt
  <2> QED
    BY <1>8, <2>1, <2>2, <2>3 DEF ParityAt
<1>15. (overload \/ DataAt(s, r))'
  <2> SUFFICES ASSUME ~overload' PROVE DataAt(s, r)'
    OBVIOUS
  <2>1. ~overload /\ DataAt(s, r)
    BY <1>3 DEF Phase
  <2>2. CT = 10 => Weight(wrong) <= 2
    <3>1. Weight(wrong) \in Nat
      BY <1>5 DEF Weight, Pattern
    <3>2. ~(CT = 10 /\ Weight(wrong) > 2)
      BY <1>3
    <3> QED
      BY <3>1, <3>2
  <2>3. CT = 10 => Tellable(r)'
    BY <1>1, <1>4, <1>7, <2>1, <2>2 DEF DataAt, Tellable
  <2>4. Clean(s)'
    BY <1>7, <2>1 DEF DataAt, Clean
  <2> QED
    BY <1>1, <1>6, <1>8, <2>1, <2>3, <2>4 DEF DataAt
<1> QED
  BY <1>9, <1>10, <1>11, <1>12, <1>13, <1>14, <1>15 DEF Phase

-----------------------------------------------------------------------------
(* The verdict. *)

\* The receiver goes on decoding, or has its verdict and its count with it.
LEMMA Judged ==
  ASSUME NEW n \in 0..LIMIT, NEW s, NEW r, TypeOK, Phase(n, s, r),
         UNCHANGED <<transfer, numbers, parts, answers, source, shown, overload>>,
         pc[r] \in {"check", "decode"},
         pc'[s] = pc[s], count'[s] = count[s], i'[s] = i[s], block'[s] = block[s],
         \/ /\ pc'[r] = "answer"
            /\ count'[r] = IF crc_ok'[r] = "n" THEN n ELSE n + 1
            /\ Hopeless => crc_ok'[r] = "n"
         \/ /\ pc'[r] = "decode" /\ count'[r] = n + 1
            /\ CT = 10 /\ i'[r] \in Blocks /\ crc_ok'[r] = "y",
         ~overload => /\ CT \notin {8, 10} => Clean(r)'
                      /\ pc'[r] = "decode" => Decoding(r)'
                      /\ pc'[r] = "answer" /\ crc_ok'[r] = "y" => Clean(r)'
  PROVE  Phase(n, s, r)'
<1>0. Stage(n, s, r)
  BY Setting
<1> USE <1>0 DEF Stage
<1>1. count[r] = n + 1 /\ Awaits(n, s) /\ answers[r] = << >>
  BY DEF Phase, ReceiverAt
<1>2. Awaits(n, s)'
  BY <1>1 DEF Awaits
<1>3. SenderAt(n, s)'
  BY DEF Phase, SenderAt
<1>4. ReceiverAt(n, s, r)'
  BY <1>1, <1>2 DEF ReceiverAt
<1>5. MailAt(n, s, r)'
  <2>1. HasGot(n, s, r) /\ HasGot(n, s, r)' /\ HasSent(n, s) /\ HasSent(n, s)'
    BY <1>1, <1>2 DEF HasGot, HasSent, Awaits
  <2>2. \A k \in 1..Len(Tags) : PartGot(n, s, r, k) /\ PartGot(n, s, r, k)'
    BY <2>1 DEF PartGot
  <2> QED
    BY <1>1, <1>2, <2>1, <2>2 DEF Phase, MailAt, Awaits
<1>6. LoopsAt(r)' /\ ShownAt(n, s, r)'
  BY DEF Phase, LoopsAt, ShownAt
<1>7. ParityAt(n, r)'
  BY DEF Phase, ParityAt
<1>8. (overload \/ DataAt(s, r))'
  <2> SUFFICES ASSUME ~overload PROVE DataAt(s, r)'
    OBVIOUS
  <2>1. DataAt(s, r)
    BY DEF Phase
  <2>2. Clean(s)'
    BY <2>1 DEF DataAt, Clean
  <2>3. /\ \A q \in Ranks : source'[q] = "exact"
        /\ \A q \in Ranks : \A x \in TagSet :
             \A k \in 1..Len(parts'[q][x]) : parts'[q][x][k] = "exact"
    BY <2>1 DEF DataAt
  <2> QED
    BY <2>1, <2>2, <2>3 DEF DataAt
<1> QED
  BY <1>3, <1>4, <1>5, <1>6, <1>7, <1>8 DEF Phase

\* The loop over the blocks ends behind the last one.
LEMMA BlocksToEnd ==
  ASSUME TypeOK, NEW b \in Blocks, b + 1 \notin Blocks
  PROVE  \A x \in Blocks : x < b + 1
<1>1. bs_num(Bytes) \in Nat
  BY PingPongAssumption, BlockCount DEF TypeOK, Bytes
<1> QED
  BY <1>1 DEF Blocks

\* What Reject and Accept do to the receiver's count and verdict.
LEMMA RejectTypes ==
  ASSUME TypeOK, NEW p \in Ranks, Reject(p), count[p] >= 1
  PROVE  /\ crc_ok' = [crc_ok EXCEPT ![p] = "n"]
         /\ count' = [count EXCEPT ![p] = count[p] - 1]
         /\ crc_ok' \in [Ranks -> Verdict]
         /\ count' \in [Ranks -> 0..LIMIT]
         /\ resent' \in [Ranks -> 0..MaxResent]
<1>1. count[p] - 1 \in 0..LIMIT
  BY PingPongAssumption DEF TypeOK
<1> QED
  BY <1>1, PingPongAssumption, SMTT(30) DEF Reject, TypeOK, Verdict

\* Accepting a transfer changes the verdict and the count of repairs only.
LEMMA AcceptTypes ==
  ASSUME TypeOK, NEW p \in Ranks, Accept(p)
  PROVE  /\ crc_ok' = [crc_ok EXCEPT ![p] = "y"]
         /\ count' = count
         /\ crc_ok' \in [Ranks -> Verdict]
         /\ count' \in [Ranks -> 0..LIMIT]
         /\ resent' \in [Ranks -> 0..MaxResent]
BY DEF Accept, TypeOK, Verdict

\* The receiver's check by CRC and Hamming code keeps the phase.
LEMMA CheckCrcStep ==
  ASSUME NEW n \in 0..LIMIT, NEW s, NEW r, TypeOK, Phase(n, s, r),
         NEW p \in Ranks, CheckCrc(p)
  PROVE  TypeOK' /\ Phase(n, s, r)'
<1>0. Stage(n, s, r)
  BY Setting DEF CheckCrc
<1> USE <1>0 DEF Stage
<1> DEFINE fails == CrcFails(r)
           l == IF fails /\ CT = 10 THEN "decode" ELSE "answer"
<1>1. p = r /\ count[r] = n + 1 /\ pc[r] = "check" /\ CT \in {8, 10}
  BY DEF Phase, SenderAt, ReceiverAt, CheckCrc, At
<1>2. /\ pc' = [pc EXCEPT ![r] = l] /\ i' = [i EXCEPT ![r] = 0]
      /\ UNCHANGED <<transfer, eager, numbers, parts, answers, source, block,
                     overload, shown>>
  BY <1>1 DEF CheckCrc, GoTo, SetI, mailvars, datavars
<1>3. /\ fails /\ CT = 8 => Reject(r)
      /\ ~(fails /\ CT = 8) => Accept(r)
  BY <1>1 DEF CheckCrc
<1>4. pc'[r] = l /\ pc'[s] = pc[s] /\ i'[r] = 0 /\ i'[s] = i[s]
  BY <1>2 DEF TypeOK
<1>5. /\ crc_ok' \in [Ranks -> Verdict] /\ count' \in [Ranks -> 0..LIMIT]
      /\ resent' \in [Ranks -> 0..MaxResent]
      /\ crc_ok'[r] = (IF fails /\ CT = 8 THEN "n" ELSE "y")
      /\ count'[r] = (IF fails /\ CT = 8 THEN n ELSE n + 1)
      /\ count'[s] = count[s]
  <2>1. CASE fails /\ CT = 8
    <3>1. /\ crc_ok' = [crc_ok EXCEPT ![r] = "n"]
          /\ count' = [count EXCEPT ![r] = count[r] - 1]
          /\ crc_ok' \in [Ranks -> Verdict] /\ count' \in [Ranks -> 0..LIMIT]
          /\ resent' \in [Ranks -> 0..MaxResent]
      BY <1>1, <1>3, <2>1, RejectTypes
    <3> QED
      BY <1>1, <2>1, <3>1 DEF TypeOK
  <2>2. CASE ~(fails /\ CT = 8)
    <3>1. /\ crc_ok' = [crc_ok EXCEPT ![r] = "y"] /\ count' = count
          /\ crc_ok' \in [Ranks -> Verdict] /\ count' \in [Ranks -> 0..LIMIT]
          /\ resent' \in [Ranks -> 0..MaxResent]
      BY <1>3, <2>2, AcceptTypes
    <3> QED
      BY <1>1, <2>2, <3>1 DEF TypeOK
  <2> QED
    BY <2>1, <2>2
<1>6. TypeOK'
  <2>1. l \in Label
    BY DEF Label
  <2>2. pc' \in [Ranks -> Label] /\ i' \in [Ranks -> Nat]
    BY ONLY <1>2, <2>1, TypeOK DEF TypeOK
  <2> QED
    BY <1>2, <1>5, <2>2 DEF TypeOK
<1>7. Hopeless => crc_ok'[r] = "n"
  <2> SUFFICES ASSUME Hopeless PROVE fails /\ CT = 8
    BY <1>5
  <2>1. CT = 8 /\ Errors % 2 = 1
    BY <1>1 DEF Hopeless
  <2>2. block[r][0].data % 2 = 1 /\ 0 \in Blocks
    BY <1>1, <2>1, Arguments DEF Phase, ParityAt
  <2> QED
    BY <2>1, <2>2 DEF CrcFails, Clean
<1>8. ~overload => /\ pc'[r] = "decode" => Decoding(r)'
                   /\ pc'[r] = "answer" /\ crc_ok'[r] = "y" => Clean(r)'
  <2> SUFFICES ASSUME ~overload
               PROVE  /\ pc'[r] = "decode" => Decoding(r)'
                      /\ pc'[r] = "answer" /\ crc_ok'[r] = "y" => Clean(r)'
    OBVIOUS
  <2>1. CT = 10 => Tellable(r)
    BY <1>1 DEF Phase, DataAt
  <2>2. pc'[r] = "decode" => Decoding(r)'
    BY <1>2, <1>4, <2>1, Arguments DEF Decoding, Tellable
  <2>3. pc'[r] = "answer" /\ crc_ok'[r] = "y" => ~fails
    BY <1>1, <1>4, <1>5
  <2> QED
    BY <1>2, <2>2, <2>3 DEF CrcFails, Clean
<1>9. 0 \in Blocks
  BY Arguments
<1> QED
  BY <1>1, <1>2, <1>4, <1>5, <1>6, <1>7, <1>8, <1>9, Judged

\* The receiver's check by a drawn number (CT 9) keeps the phase.
LEMMA CheckByDrawStep ==
  ASSUME NEW n \in 0..LIMIT, NEW s, NEW r, TypeOK, Phase(n, s, r),
         NEW p \in Ranks, NEW fails \in BOOLEAN, CheckByDraw(p, fails)
  PROVE  TypeOK' /\ Phase(n, s, r)'
<1>0. Stage(n, s, r)
  BY Setting DEF CheckByDraw
<1> USE <1>0 DEF Stage
<1>1. p = r /\ count[r] = n + 1 /\ pc[r] = "check" /\ CT = 9 /\ fails \in Draws
  BY DEF Phase, SenderAt, ReceiverAt, CheckByDraw, At
<1>2. /\ pc' = [pc EXCEPT ![r] = "answer"]
      /\ UNCHANGED <<transfer, eager, i, numbers, parts, answers, source, block,
                     overload, shown>>
  BY <1>1 DEF CheckByDraw, GoTo, mailvars, datavars
<1>3. (fails => Reject(r)) /\ (~fails => Accept(r))
  BY <1>1 DEF CheckByDraw
<1>4. pc'[r] = "answer" /\ pc'[s] = pc[s]
  BY <1>2 DEF TypeOK
<1>5. /\ crc_ok' \in [Ranks -> Verdict] /\ count' \in [Ranks -> 0..LIMIT]
      /\ resent' \in [Ranks -> 0..MaxResent]
      /\ crc_ok'[r] = (IF fails THEN "n" ELSE "y")
      /\ count'[r] = (IF fails THEN n ELSE n + 1)
      /\ count'[s] = count[s]
  <2>1. CASE fails
    <3>1. /\ crc_ok' = [crc_ok EXCEPT ![r] = "n"]
          /\ count' = [count EXCEPT ![r] = count[r] - 1]
          /\ crc_ok' \in [Ranks -> Verdict] /\ count' \in [Ranks -> 0..LIMIT]
          /\ resent' \in [Ranks -> 0..MaxResent]
      BY <1>1, <1>3, <2>1, RejectTypes
    <3> QED
      BY <1>1, <2>1, <3>1 DEF TypeOK
  <2>2. CASE ~fails
    <3>1. /\ crc_ok' = [crc_ok EXCEPT ![r] = "y"] /\ count' = count
          /\ crc_ok' \in [Ranks -> Verdict] /\ count' \in [Ranks -> 0..LIMIT]
          /\ resent' \in [Ranks -> 0..MaxResent]
      BY <1>3, <2>2, AcceptTypes
    <3> QED
      BY <1>1, <2>2, <3>1 DEF TypeOK
  <2> QED
    BY <2>1, <2>2
<1>6. TypeOK'
  <2>1. pc' \in [Ranks -> Label]
    BY <1>2 DEF TypeOK, Label
  <2> QED
    BY <1>2, <1>5, <2>1 DEF TypeOK
<1>7. Hopeless => crc_ok'[r] = "n"
  BY <1>1, <1>5 DEF Hopeless, Draws
<1>8. ~overload => Clean(r)'
  BY <1>1, <1>2 DEF Phase, DataAt, Clean
<1>9. i'[s] = i[s] /\ block'[s] = block[s]
  BY <1>2
<1> QED
  BY <1>1, <1>2, <1>4, <1>5, <1>6, <1>7, <1>8, <1>9, Judged

\* hamming_decode of one block: a block that is not reported has its data right
\* again, as long as it had no more than two wrong bits.
LEMMA DecodeStep ==
  ASSUME NEW n \in 0..LIMIT, NEW s, NEW r, TypeOK, Phase(n, s, r),
         NEW p \in Ranks, Decode(p)
  PROVE  TypeOK' /\ Phase(n, s, r)'
<1>0. Stage(n, s, r)
  BY Setting DEF Decode
<1> USE <1>0 DEF Stage
<1> DEFINE b == i[r]
<1>1. /\ p = r /\ count[r] = n + 1 /\ pc[r] = "decode" /\ CT = 10
      /\ b \in Blocks /\ crc_ok[r] = "y"
  BY DEF Phase, SenderAt, ReceiverAt, LoopsAt, Decode, At
<1>2. b \in Nat /\ Blocks \subseteq Nat
  BY <1>1, Arguments
<1>3. PICK o \in Outcomes(block[r][b]) :
        /\ block' = [block EXCEPT ![r][b] = o.left]
        /\ IF o.type = TwoBit THEN Reject(r) ELSE UNCHANGED <<crc_ok, count, resent>>
        /\ GoTo(r, IF o.type = TwoBit \/ b + 1 \notin Blocks
                   THEN "answer" ELSE "decode")
  BY <1>1 DEF Decode
<1> DEFINE l == IF o.type = TwoBit \/ b + 1 \notin Blocks
                THEN "answer" ELSE "decode"
<1>4. /\ pc' = [pc EXCEPT ![r] = l] /\ i' = [i EXCEPT ![r] = b + 1]
      /\ UNCHANGED <<transfer, eager, numbers, parts, answers, source, overload,
                     shown>>
  BY <1>1, <1>3 DEF Decode, GoTo, SetI, mailvars
<1>5. pc'[r] = l /\ pc'[s] = pc[s] /\ i'[r] = b + 1 /\ i'[s] = i[s]
  BY <1>4 DEF TypeOK
<1>6. block[r] \in [Blocks -> Pattern] /\ block[r][b] \in Pattern
  BY <1>1 DEF TypeOK
<1>7. o.left \in Pattern
  BY <1>3, <1>6, OutcomesType
<1>8. /\ block'[s] = block[s] /\ block'[r] = [block[r] EXCEPT ![b] = o.left]
      /\ block' = [q \in Ranks |-> block'[q]]
  BY <1>3 DEF TypeOK
<1>9. /\ crc_ok' \in [Ranks -> Verdict] /\ count' \in [Ranks -> 0..LIMIT]
      /\ resent' \in [Ranks -> 0..MaxResent]
      /\ crc_ok'[r] = (IF o.type = TwoBit THEN "n" ELSE "y")
      /\ count'[r] = (IF o.type = TwoBit THEN n ELSE n + 1)
      /\ count'[s] = count[s]
  <2>1. CASE o.type = TwoBit
    <3>1. /\ crc_ok' = [crc_ok EXCEPT ![r] = "n"]
          /\ count' = [count EXCEPT ![r] = count[r] - 1]
          /\ crc_ok' \in [Ranks -> Verdict] /\ count' \in [Ranks -> 0..LIMIT]
          /\ resent' \in [Ranks -> 0..MaxResent]
      BY <1>1, <1>3, <2>1, RejectTypes
    <3> QED
      BY <1>1, <2>1, <3>1, SMTT(30) DEF TypeOK
  <2>2. CASE o.type # TwoBit
    BY <1>1, <1>3, <2>2 DEF TypeOK
  <2> QED
    BY <2>1, <2>2
<1>10. TypeOK'
  <2>1. l \in Label /\ b + 1 \in Nat
    BY <1>2 DEF Label
  <2>2. pc' \in [Ranks -> Label] /\ i' \in [Ranks -> Nat]
    BY ONLY <1>4, <2>1, TypeOK DEF TypeOK
  <2>3. block' \in [Ranks -> [Blocks -> Pattern]]
    <3>1. block'[r] \in [Blocks -> Pattern] /\ block'[s] \in [Blocks -> Pattern]
      BY <1>1, <1>6, <1>7, <1>8, ExceptType, SMTT(30) DEF TypeOK
    <3>2. \A q \in Ranks : block'[q] \in [Blocks -> Pattern]
      BY ONLY <1>0, <3>1 DEF Stage
    <3> QED
      BY ONLY <1>8, <3>2
  <2> QED
    BY <1>4, <1>9, <2>2, <2>3 DEF TypeOK
<1>11. ~Hopeless
  BY <1>1 DEF Hopeless
<1>12. ASSUME ~overload, o.type # TwoBit
       PROVE  Decoding(r)' /\ (pc'[r] = "answer" => Clean(r)')
  <2>1. Decoding(r)
    BY <1>1, <1>12 DEF Phase, DataAt
  <2>2. o.left.data = 0
    <3>1. Weight(block[r][b]) <= 2
      BY <1>1, <1>2, <2>1 DEF Decoding
    <3> QED
      BY <1>3, <1>6, <1>12, <3>1, OutcomesRepair
  <2>3. \A x \in Blocks : block'[r][x] = IF x = b THEN o.left ELSE block[r][x]
    BY <1>1, <1>6, <1>8
  <2>4. \A x \in Blocks : IF x < b + 1 THEN block'[r][x].data = 0
                                       ELSE Weight(block'[r][x]) <= 2
    <3> TAKE x \in Blocks
    <3>1. CASE x = b
      BY <1>2, <2>2, <2>3, <3>1
    <3>2. CASE x # b
      <4>1. block'[r][x] = block[r][x] /\ (x < b + 1 <=> x < b)
        BY <1>2, <2>3, <3>2
      <4> QED
        BY <2>1, <4>1 DEF Decoding
    <3> QED
      BY <3>1, <3>2
  <2>5. Decoding(r)'
    BY <1>5, <2>4 DEF Decoding
  <2>6. ASSUME pc'[r] = "answer" PROVE Clean(r)'
    <3>1. b + 1 \notin Blocks
      BY <1>5, <1>12, <2>6
    <3>2. \A x \in Blocks : x < b + 1
      BY <1>2, <1>1, <3>1, BlocksToEnd
    <3> QED
      BY <2>4, <3>2 DEF Clean
  <2> QED
    BY <2>5, <2>6
<1>13. ~overload => /\ pc'[r] = "decode" => Decoding(r)'
                    /\ pc'[r] = "answer" /\ crc_ok'[r] = "y" => Clean(r)'
  BY <1>5, <1>9, <1>12
<1> QED
  BY <1>1, <1>4, <1>5, <1>8, <1>9, <1>10, <1>11, <1>13, Judged

\* The answer: an accepted transfer is settled, and the receiver is the next to
\* send; a rejected one is made again.
LEMMA AnswerStep ==
  ASSUME NEW n \in 0..LIMIT, NEW s, NEW r, TypeOK, Phase(n, s, r),
         NEW p \in Ranks, Answer(p)
  PROVE  TypeOK' /\ (Phase(n, s, r)' \/ (n < LIMIT /\ Phase(n + 1, r, s)'))
<1>0. Stage(n, s, r)
  BY Setting DEF Answer
<1> USE <1>0 DEF Stage
<1>1. /\ p = r /\ pc[r] = "answer" /\ Awaits(n, s) /\ answers[r] = << >>
      /\ count[r] = IF crc_ok[r] = "n" THEN n ELSE n + 1
  BY DEF Phase, SenderAt, ReceiverAt, Answer, At
<1>2. pc[s] = "await" /\ count[s] = n + 1 /\ answers[s] = << >>
  BY <1>1 DEF Awaits
<1>3. n < LIMIT /\ Answered
  BY <1>2 DEF Phase, SenderAt
<1>4. crc_ok[r] \in Verdict
  BY DEF TypeOK
<1>5. /\ pc' = [pc EXCEPT ![r] = "show"]
      /\ answers' = [answers EXCEPT ![s] = <<crc_ok[r]>>]
      /\ UNCHANGED <<transfer, eager, i, count, numbers, parts, source, block,
                     overload, crc_ok, resent, shown>>
  <2>1. Append(answers[s], crc_ok[r]) = <<crc_ok[r]>>
    BY <1>2, <1>4, FirstMessage
  <2> QED
    BY <1>1, <2>1 DEF Answer, GoTo, datavars
<1>6. /\ pc'[r] = "show" /\ pc'[s] = "await"
      /\ answers'[s] = <<crc_ok[r]>> /\ answers'[r] = << >>
  BY <1>1, <1>2, <1>5 DEF TypeOK
<1>7. TypeOK'
  <2>1. <<crc_ok[r]>> \in Seq(Verdict) /\ "show" \in Label
    BY <1>4, FirstMessage DEF Label
  <2>2. answers' \in [Ranks -> Seq(Verdict)] /\ pc' \in [Ranks -> Label]
    BY ONLY <1>5, <2>1, TypeOK DEF TypeOK
  <2> QED
    BY <1>5, <2>2 DEF TypeOK
<1>8. HasSent(n, s) /\ HasGot(n, s, r) /\ \A k \in 1..Len(Tags) : PartGot(n, s, r, k)
  BY <1>1, <1>2 DEF HasSent, HasGot, PartGot
<1>9. /\ numbers[s] = << >> /\ numbers[r] = << >>
      /\ \A t \in TagSet : parts[s][t] = << >> /\ parts[r][t] = << >>
  BY <1>8, TagsDiffer DEF Phase, MailAt
<1>10. CASE crc_ok[r] = "n"
  <2>1. SenderAt(n, s)'
    BY <1>2, <1>3, <1>5, <1>6 DEF SenderAt
  <2>2. ReceiverAt(n, s, r)'
    BY <1>1, <1>3, <1>5, <1>6, <1>10 DEF ReceiverAt
  <2>3. MailAt(n, s, r)'
    <3>1. HasGot(n, s, r)' /\ \A k \in 1..Len(Tags) : PartGot(n, s, r, k)'
      BY <1>6, <1>10 DEF HasGot, PartGot
    <3>2. \A k \in 1..Len(Tags) : parts[r][Tags[k]] = << >>
      BY <1>9, TagsDiffer
    <3> QED
      BY <1>1, <1>2, <1>5, <1>6, <1>9, <1>10, <3>1, <3>2 DEF MailAt
  <2>4. LoopsAt(r)' /\ ParityAt(n, r)' /\ ShownAt(n, s, r)'
    BY <1>2, <1>5, <1>6 DEF Phase, LoopsAt, ParityAt, ShownAt
  <2>5. (overload \/ DataAt(s, r))'
    <3> SUFFICES ASSUME ~overload PROVE DataAt(s, r)'
      BY <1>5
    <3>1. DataAt(s, r)
      BY DEF Phase
    <3>2. Clean(s)'
      BY <1>5, <3>1 DEF DataAt, Clean
    <3>3. /\ \A q \in Ranks : source'[q] = "exact"
          /\ \A q \in Ranks : \A x \in TagSet :
               \A k \in 1..Len(parts'[q][x]) : parts'[q][x][k] = "exact"
      BY <1>5, <3>1 DEF DataAt
    <3>4. CT \notin {8, 10} => Clean(r)'
      BY <1>5, <3>1 DEF DataAt, Clean
    <3> QED
      BY <1>6, <3>2, <3>3, <3>4 DEF DataAt
  <2> QED
    BY <1>7, <2>1, <2>2, <2>3, <2>4, <2>5 DEF Phase
<1>11. CASE crc_ok[r] # "n"
  <2>1. crc_ok[r] = "y" /\ count[r] = n + 1
    BY <1>1, <1>4, <1>11 DEF Verdict
  <2>2. n + 1 \in 0..LIMIT /\ r = (n + 1) % 2 /\ s = (n + 1 + 1) % 2
    BY <1>3, Turns DEF Phase
  <2>3. SenderAt(n + 1, r)'
    BY <1>5, <1>6, <2>1 DEF SenderAt
  <2>4. ReceiverAt(n + 1, r, s)'
    BY <1>2, <1>3, <1>5, <1>6, <2>1 DEF ReceiverAt
  <2>5. MailAt(n + 1, r, s)'
    <3>1. ~HasSent(n + 1, r)' /\ \A k \in 1..Len(Tags) : ~PartSent(n + 1, r, k)'
      BY <1>5, <2>1 DEF HasSent, PartSent
    <3> QED
      BY <1>5, <1>6, <1>9, <3>1, TagsDiffer DEF MailAt
  <2>6. ~Hopeless
    BY <1>1, <2>1 DEF Phase, ParityAt
  <2>7. LoopsAt(s)' /\ ParityAt(n + 1, s)' /\ ShownAt(n + 1, r, s)'
    BY <1>2, <1>3, <1>5, <1>6, <2>6 DEF Phase, LoopsAt, ParityAt, ShownAt
  <2>8. (overload \/ DataAt(r, s))'
    <3> SUFFICES ASSUME ~overload PROVE DataAt(r, s)'
      BY <1>5
    <3>1. DataAt(s, r)
      BY DEF Phase
    <3>2. Clean(s)'
      BY <1>5, <3>1 DEF DataAt, Clean
    <3>3. /\ \A q \in Ranks : source'[q] = "exact"
          /\ \A q \in Ranks : \A x \in TagSet :
               \A k \in 1..Len(parts'[q][x]) : parts'[q][x][k] = "exact"
      BY <1>5, <3>1 DEF DataAt
    <3>4. Clean(r)'
      BY <1>1, <1>5, <2>1, <3>1 DEF DataAt, Clean
    <3> QED
      BY <1>6, <3>2, <3>3, <3>4 DEF DataAt
  <2> QED
    BY <1>3, <1>7, <2>2, <2>3, <2>4, <2>5, <2>7, <2>8 DEF Phase
<1> QED
  BY <1>10, <1>11

\* Only the rank that got LIMIT shows the error.
LEMMA ShowErrorStep ==
  ASSUME NEW n \in 0..LIMIT, NEW s, NEW r, TypeOK, Phase(n, s, r),
         NEW p \in Ranks, ShowError(p)
  PROVE  TypeOK' /\ Phase(n, s, r)'
<1>0. Stage(n, s, r)
  BY Setting DEF ShowError
<1> USE <1>0 DEF Stage
<1>1. /\ pc[p] = "show" /\ count[p] = n
      /\ p = s \/ (p = r /\ n < LIMIT)
  BY DEF Phase, SenderAt, ReceiverAt, ShowError, At
<1>2. /\ pc' = [pc EXCEPT ![p] = "loop"]
      /\ shown' = [shown EXCEPT ![p] = IF n = LIMIT THEN @ + 1 ELSE @]
      /\ UNCHANGED <<transfer, eager, i, count, numbers, parts, answers, source,
                     block, overload, crc_ok, resent>>
  BY <1>1 DEF ShowError, GoTo, IsLast, mailvars, datavars
<1>3. TypeOK'
  <2>1. pc' \in [Ranks -> Label]
    BY ONLY <1>2, TypeOK DEF TypeOK, Label
  <2>2. shown' \in [Ranks -> Nat]
    BY ONLY <1>2, TypeOK DEF TypeOK
  <2> QED
    BY <1>2, <2>1, <2>2 DEF TypeOK
<1>4. SenderAt(n, s)'
  BY <1>1, <1>2 DEF Phase, SenderAt, TypeOK
<1>5. ReceiverAt(n, s, r)'
  BY <1>1, <1>2 DEF Phase, ReceiverAt, Awaits, HasSent, TypeOK
<1>6. MailAt(n, s, r)'
  BY <1>1, <1>2 DEF Phase, MailAt, HasSent, HasGot, PartSent, PartGot, TypeOK
<1>7. LoopsAt(r)' /\ ParityAt(n, r)'
  BY <1>1, <1>2 DEF Phase, LoopsAt, ParityAt, TypeOK
<1>8. ShownAt(n, s, r)'
  BY <1>1, <1>2 DEF Phase, ShownAt, TypeOK
<1>9. (overload \/ DataAt(s, r))'
  <2> SUFFICES ASSUME ~overload PROVE DataAt(s, r)'
    BY <1>2
  <2>1. DataAt(s, r)
    BY DEF Phase
  <2>2. Clean(s)'
    BY <1>2, <2>1 DEF DataAt, Clean
  <2>3. /\ \A q \in Ranks : source'[q] = "exact"
        /\ \A q \in Ranks : \A x \in TagSet :
             \A k \in 1..Len(parts'[q][x]) : parts'[q][x][k] = "exact"
    BY <1>2, <2>1 DEF DataAt
  <2>4. CT \notin {8, 10} => Clean(r)'
    BY <1>2, <2>1 DEF DataAt, Clean
  <2>5. pc'[r] = pc[r] \/ pc'[r] = "loop"
    BY <1>2 DEF TypeOK
  <2>6. CASE pc'[r] = "loop"
    BY <2>2, <2>3, <2>4, <2>6 DEF DataAt
  <2>7. CASE pc'[r] = pc[r]
    BY <1>2, <2>1, <2>2, <2>3, <2>4, <2>7 DEF DataAt, Tellable, Decoding, Clean
  <2> QED
    BY <2>5, <2>6, <2>7
<1> QED
  BY <1>3, <1>4, <1>5, <1>6, <1>7, <1>8, <1>9 DEF Phase

-----------------------------------------------------------------------------
(* The invariant and the properties it implies. *)

\* The program starts in phase 0, rank 0 sending.
LEMMA InitIInv == Init => IInv
<1> SUFFICES ASSUME Init PROVE IInv
  OBVIOUS
<1> DEFINE s == 0
           r == 1
<1>1. LIMIT \in Nat \ {0} /\ Ranks = {0, 1} /\ MaxResent \in Nat
  BY PingPongAssumption DEF Ranks
<1>2. \A b \in Blocks : AllIntact[b] = Intact
  BY DEF AllIntact
<1>3. Intact \in Pattern /\ Intact.data = 0
  BY DEF Intact, Pattern
<1>4. TypeOK
  <2>1. eager \in BOOLEAN
    BY PingPongAssumption DEF Init
  <2>2. block \in [Ranks -> [Blocks -> Pattern]]
    BY <1>3 DEF Init, AllIntact
  <2>3. parts \in [Ranks -> [TagSet -> Seq(Holds)]]
    BY DEF Init
  <2>4. /\ pc \in [Ranks -> Label] /\ i \in [Ranks -> Nat]
        /\ count \in [Ranks -> 0..LIMIT] /\ numbers \in [Ranks -> Seq(0..LIMIT)]
        /\ answers \in [Ranks -> Seq(Verdict)] /\ source \in [Ranks -> Holds]
        /\ crc_ok \in [Ranks -> Verdict] /\ resent \in [Ranks -> 0..MaxResent]
        /\ shown \in [Ranks -> Nat]
    BY <1>1 DEF Init, Label, Verdict, Holds
  <2> QED
    BY <2>1, <2>2, <2>3, <2>4 DEF Init, TypeOK
<1>5. /\ pc[s] = "loop" /\ pc[r] = "loop" /\ count[s] = 0 /\ count[r] = 0
      /\ numbers[s] = << >> /\ numbers[r] = << >>
      /\ answers[s] = << >> /\ answers[r] = << >>
      /\ shown[s] = 0 /\ shown[r] = 0
      /\ \A p \in Ranks : source[p] = "exact" /\ block[p] = AllIntact
  BY <1>1 DEF Init
<1>6. \A p \in Ranks : \A t \in TagSet : parts[p][t] = << >>
  BY DEF Init
<1>7. SenderAt(0, s) /\ ReceiverAt(0, s, r) /\ LoopsAt(r) /\ ShownAt(0, s, r)
  BY <1>1, <1>5 DEF SenderAt, ReceiverAt, LoopsAt, ShownAt
<1>8. MailAt(0, s, r)
  <2>1. ~HasSent(0, s) /\ \A k \in 1..Len(Tags) : ~PartSent(0, s, k)
    BY <1>5 DEF HasSent, PartSent
  <2> QED
    BY <1>1, <1>4, <1>5, <1>6, <2>1, TagsDiffer DEF MailAt
<1>9. ParityAt(0, r)
  BY <1>5 DEF ParityAt
<1>10. DataAt(s, r)
  <2>1. Clean(s) /\ Clean(r)
    BY <1>1, <1>2, <1>3, <1>5 DEF Clean
  <2>2. \A p \in Ranks : \A t \in TagSet : Len(parts[p][t]) = 0
    BY <1>6
  <2> QED
    BY <1>5, <2>1, <2>2 DEF DataAt
<1>11. Phase(0, s, r)
  BY <1>7, <1>8, <1>9, <1>10 DEF Phase
<1> QED
  BY <1>1, <1>4, <1>11 DEF IInv

\* Every step of a rank keeps the phase or goes on to the next.
LEMMA StepIInv ==
  ASSUME NEW n \in 0..LIMIT, NEW s, NEW r, TypeOK, Phase(n, s, r),
         NEW p \in Ranks, Step(p)
  PROVE  TypeOK' /\ (Phase(n, s, r)' \/ (n < LIMIT /\ Phase(n + 1, r, s)'))
<1>1. CASE Serve(p) \/ Listen(p) \/ Leave(p)
  BY <1>1, ServeStep, ListenStep, LeaveStep
<1>2. CASE SendNumber(p) \/ SendPart(p) \/ GetAnswer(p)
  BY <1>2, SendNumberStep, SendPartStep, GetAnswerStep
<1>3. CASE RecvNumber(p)
  BY <1>3, RecvNumberStep
<1>4. CASE RecvPart(p)
  BY <1>4, RecvPartStep
<1>5. CASE FlipBit(p) \/ CheckCrc(p) \/ \E fails \in BOOLEAN : CheckByDraw(p, fails)
  BY <1>5, FlipBitStep, CheckCrcStep, CheckByDrawStep
<1>6. CASE Decode(p) \/ ShowError(p)
  BY <1>6, DecodeStep, ShowErrorStep
<1>7. CASE Answer(p)
  BY <1>7, AnswerStep
<1> QED
  BY <1>1, <1>2, <1>3, <1>4, <1>5, <1>6, <1>7 DEF Step

\* A step that changes nothing keeps everything that is said of the state.
LEMMA IdleIInv ==
  ASSUME NEW n \in 0..LIMIT, NEW s, NEW r, TypeOK, Phase(n, s, r), UNCHANGED vars
  PROVE  TypeOK' /\ Phase(n, s, r)'
<1>1. Stage(n, s, r)
  BY Setting DEF vars
<1> USE <1>1 DEF Stage
<1>2. UNCHANGED <<transfer, eager, pc, i, count, numbers, parts, answers, source,
                  block, crc_ok, resent, shown, overload>>
  BY DEF vars
<1>3. TypeOK'
  BY <1>2 DEF TypeOK
<1>4. SenderAt(n, s)' /\ ReceiverAt(n, s, r)'
  BY <1>2 DEF Phase, SenderAt, ReceiverAt, Awaits, HasSent
<1>5. MailAt(n, s, r)'
  BY <1>2 DEF Phase, MailAt, HasSent, HasGot, PartSent, PartGot
<1>6. LoopsAt(r)' /\ ParityAt(n, r)' /\ ShownAt(n, s, r)'
  BY <1>2 DEF Phase, LoopsAt, ParityAt, ShownAt
<1>7. (overload \/ DataAt(s, r))'
  BY <1>2 DEF Phase, DataAt, Clean, Tellable, Decoding
<1> QED
  BY <1>3, <1>4, <1>5, <1>6, <1>7 DEF Phase

\* So does every step of the program, and every stutter.
LEMMA NextIInv == IInv /\ [Next]_vars => IInv'
<1> SUFFICES ASSUME IInv, [Next]_vars PROVE IInv'
  OBVIOUS
<1>1. PICK n \in 0..LIMIT : Phase(n, n % 2, (n + 1) % 2)
  BY DEF IInv
<1>2. n \in Nat /\ LIMIT \in Nat
  BY PingPongAssumption
<1>3. TypeOK' /\ (\/ Phase(n, n % 2, (n + 1) % 2)'
                  \/ n < LIMIT /\ Phase(n + 1, (n + 1) % 2, n % 2)')
  <2>1. CASE \E p \in Ranks : Step(p)
    BY <1>1, <2>1, StepIInv DEF IInv
  <2>2. CASE UNCHANGED vars
    BY <1>1, <2>2, IdleIInv DEF IInv
  <2> QED
    BY <2>1, <2>2 DEF Next, Terminated
<1>4. CASE Phase(n, n % 2, (n + 1) % 2)'
  BY <1>3, <1>4 DEF IInv
<1>5. CASE n < LIMIT /\ Phase(n + 1, (n + 1) % 2, n % 2)'
  <2>1. n + 1 \in 0..LIMIT /\ (n + 1 + 1) % 2 = n % 2
    BY <1>2, <1>5, Turns
  <2> QED
    BY <1>3, <1>5, <2>1 DEF IInv
<1> QED
  BY <1>3, <1>4, <1>5

\* At every moment the two ranks, each with its own count and its own part of
\* the loop of pingpong_double_comp.c, are in the same transfer: what has been
\* sent and not received is what their places in the loop say.
THEOREM Invariance == Spec => []IInv
BY InitIInv, NextIInv, PTL DEF Spec

\* No count leaves 0..LIMIT, though each rank takes its own back after an "n".
THEOREM TypeCorrect == Spec => []TypeOK
<1>1. IInv => TypeOK
  BY DEF IInv
<1> QED
  BY <1>1, Invariance, PTL

\* Where both ranks are, in the words of the properties.
LEMMA Unfold ==
  ASSUME IInv
  PROVE  \E n \in 0..LIMIT : \E s, r \in Ranks :
           /\ n \in Nat /\ LIMIT \in Nat /\ Ranks = {s, r} /\ s # r
           /\ s = n % 2 /\ TypeOK /\ Phase(n, s, r)
<1>1. PICK n \in 0..LIMIT : Phase(n, n % 2, (n + 1) % 2)
  BY DEF IInv
<1>2. n \in Nat /\ LIMIT \in Nat
  BY PingPongAssumption
<1>3. /\ Ranks = {n % 2, (n + 1) % 2} /\ n % 2 # (n + 1) % 2
  BY <1>2, Turns
<1> QED
  BY <1>1, <1>2, <1>3 DEF IInv

\* The roles the ranks choose from their own counts never collide, and no
\* receive of the loop ever has two messages to choose from.
THEOREM RolesAgree == Spec => []RolesInStep
<1>1. IInv => RolesInStep
  <2> SUFFICES ASSUME IInv PROVE RolesInStep
    OBVIOUS
  <2>1. PICK n \in 0..LIMIT : \E s, r \in Ranks :
           /\ n \in Nat /\ LIMIT \in Nat /\ Ranks = {s, r} /\ s # r
           /\ s = n % 2 /\ TypeOK /\ Phase(n, s, r)
    BY Unfold
  <2>2. PICK s \in Ranks, r \in Ranks :
           /\ n \in Nat /\ LIMIT \in Nat /\ Ranks = {s, r} /\ s # r
           /\ TypeOK /\ Phase(n, s, r)
    BY <2>1
  <2>3. ~(\A p \in Ranks : pc[p] \in {"number", "send"})
    BY <2>2 DEF Phase, ReceiverAt
  <2>4. (\A p \in Ranks : pc[p] = "listen") => \E p \in Ranks : numbers[p] # << >>
    <3> SUFFICES ASSUME pc[s] = "listen", pc[r] = "listen"
                 PROVE  numbers[r] # << >>
      BY <2>2
    <3>1. count[s] = n + 1 /\ count[r] = n /\ answers[s] = << >>
      BY <2>2 DEF Phase, SenderAt, ReceiverAt, MailAt
    <3>2. numbers[r] = <<n + 1>>
      BY <2>2, <3>1 DEF Phase, MailAt, HasSent, HasGot
    <3> QED
      BY <3>2
  <2>5. ~UnderWay(s)
    BY <2>2 DEF Phase, MailAt, UnderWay
  <2>6. \A p \in Ranks : Len(numbers[p]) <= 1 /\ Len(answers[p]) <= 1
    <3>1. Len(numbers[s]) <= 1 /\ Len(numbers[r]) <= 1
      BY <2>2 DEF Phase, MailAt
    <3>2. Len(answers[s]) <= 1 /\ Len(answers[r]) <= 1
      <4>1. answers[s] = << >> \/ answers[s] = <<"n">>
        BY <2>2 DEF Phase, MailAt
      <4>2. answers[r] = << >> \/ answers[r] = <<"y">>
        BY <2>2 DEF Phase, ReceiverAt
      <4>3. Len(<< >>) = 0 /\ Len(<<"n">>) = 1 /\ Len(<<"y">>) = 1
        OBVIOUS
      <4>4. Len(answers[s]) = 0 \/ Len(answers[s]) = 1
        BY ONLY <4>1, <4>3
      <4>5. Len(answers[r]) = 0 \/ Len(answers[r]) = 1
        BY ONLY <4>2, <4>3
      <4>6. \A x : x = 0 \/ x = 1 => x <= 1
        OBVIOUS
      <4> QED
        BY ONLY <4>4, <4>5, <4>6, Zenon
    <3> QED
      BY <2>2, <3>1, <3>2
  <2>7. \A p \in Ranks : \A t \in TagSet : Len(parts[p][t]) <= 1
    <3>1. \A t \in TagSet : Len(parts[s][t]) <= 1
      BY <2>2 DEF Phase, MailAt
    <3>2. \A k \in 1..Len(Tags) : Len(parts[r][Tags[k]]) <= 1
      <4>1. \A k \in 1..Len(Tags) :
              Len(parts[r][Tags[k]]) = 1 \/ parts[r][Tags[k]] = << >>
        BY <2>2 DEF Phase, MailAt
      <4>2. Len(<< >>) = 0
        OBVIOUS
      <4>3. \A k \in 1..Len(Tags) :
              Len(parts[r][Tags[k]]) = 1 \/ Len(parts[r][Tags[k]]) = 0
        BY ONLY <4>1, <4>2
      <4>4. \A x : x = 1 \/ x = 0 => x <= 1
        OBVIOUS
      <4> QED
        BY ONLY <4>3, <4>4, Zenon
    <3>3. \A t \in TagSet : Len(parts[r][t]) <= 1
      BY <2>2, <3>2, TagsDiffer
    <3> QED
      BY <2>2, <3>1, <3>3
  <2> QED
    BY <2>2, <2>3, <2>4, <2>5, <2>6, <2>7 DEF RolesInStep
<1> QED
  BY <1>1, Invariance, PTL

\* What the receiver damages in its own copy is neither sent on nor shown,
\* unless one block got more wrong bits than the code can tell.
THEOREM DamageContained == Spec => []DamageIsNotPassedOn
<1>1. IInv => DamageIsNotPassedOn
  <2> SUFFICES ASSUME IInv, ~overload PROVE DamageIsNotPassedOn
    BY DEF DamageIsNotPassedOn
  <2>1. PICK n \in 0..LIMIT : \E s, r \in Ranks :
           /\ n \in Nat /\ LIMIT \in Nat /\ Ranks = {s, r} /\ s # r
           /\ s = n % 2 /\ TypeOK /\ Phase(n, s, r)
    BY Unfold
  <2>2. PICK s \in Ranks, r \in Ranks :
           /\ n \in Nat /\ LIMIT \in Nat /\ Ranks = {s, r} /\ s # r
           /\ TypeOK /\ Phase(n, s, r)
    BY <2>1
  <2>3. DataAt(s, r)
    BY <2>2 DEF Phase
  <2>4. ASSUME NEW p \in Ranks, pc[p] = "show", count[p] = LIMIT
        PROVE  p = s
    BY <2>2, <2>4 DEF Phase, ReceiverAt
  <2>5. Held(s) = "exact"
    BY <2>3 DEF DataAt, Held
  <2> QED
    BY <2>3, <2>4, <2>5 DEF DamageIsNotPassedOn, DataAt
<1> QED
  BY <1>1, Invariance, PTL

-----------------------------------------------------------------------------
(* The ping-pong seen from outside. *)

\* Transfer n + 1 is settled for one rank: the receiver is about to say "y",
\* or the sender does not wait for an answer and is past it.
Ahead(n, s, r) ==
  \/ pc[r] = "answer" /\ crc_ok[r] = "y"
  \/ count[s] = n + 1 /\ pc[s] \in {"loop", "listen", "done"}

\* The transfers that are settled for the rank that knows more of them.
Tally ==
  \A n \in 0..LIMIT : \A s, r \in Ranks :
    Ranks = {s, r} /\ s # r /\ TypeOK /\ Phase(n, s, r) =>
      /\ Passed = IF Ahead(n, s, r) THEN n + 1 ELSE n
      /\ Ahead(n, s, r) => n < LIMIT

\* The number of transfers passed that the abstract alternation sees, by phase.
LEMMA PassedIs == Tally
<1> SUFFICES ASSUME NEW n \in 0..LIMIT, NEW s \in Ranks, NEW r \in Ranks,
                    Ranks = {s, r}, s # r, TypeOK, Phase(n, s, r)
             PROVE  /\ Passed = IF Ahead(n, s, r) THEN n + 1 ELSE n
                    /\ Ahead(n, s, r) => n < LIMIT
  BY DEF Tally
<1>1. n \in Nat /\ LIMIT \in Nat
  BY PingPongAssumption
<1>2. Passed = IF Settled(s) > Settled(r) THEN Settled(s) ELSE Settled(r)
  <2>1. Settled(s) \in Int /\ Settled(r) \in Int
    BY DEF TypeOK, Settled
  <2>2. \/ s = 0 /\ r = 1
        \/ s = 1 /\ r = 0
    BY DEF Ranks
  <2> QED
    BY <2>1, <2>2 DEF Passed
<1>3. Ahead(n, s, r) => n < LIMIT
  BY <1>1 DEF Phase, SenderAt, ReceiverAt, Awaits, Ahead
<1>4. pc[r] = "answer" => crc_ok[r] = "y" \/ crc_ok[r] = "n"
  BY DEF TypeOK, Verdict
<1>5. \/ Settled(r) = n /\ ~(pc[r] = "answer" /\ crc_ok[r] = "y")
      \/ Settled(r) = n - 1 /\ pc[r] = "await"
      \/ Settled(r) = n + 1 /\ pc[r] = "answer" /\ crc_ok[r] = "y"
  BY <1>1, <1>4 DEF Phase, ReceiverAt, Settled, InTransfer
<1>6. \/ Settled(s) = n /\ ~(count[s] = n + 1 /\ pc[s] \in {"loop", "listen", "done"})
      \/ /\ Settled(s) = n + 1
         /\ count[s] = n + 1 /\ pc[s] \in {"loop", "listen", "done"}
  BY <1>1 DEF Phase, SenderAt, Settled, InTransfer
<1> QED
  BY <1>1, <1>2, <1>3, <1>5, <1>6 DEF Ahead

\* The same of the state after the step.
LEMMA PassedWillBe == Tally'
BY PassedIs, PTL

\* With an odd number of errors that nothing repairs (CT 8), or a number that
\* is always drawn too small (CT 9), not one transfer is ever settled.
THEOREM HopelessForEver == Spec => []HopelessNeverPasses
<1>1. IInv => HopelessNeverPasses
  <2> SUFFICES ASSUME IInv, Hopeless PROVE Passed = 0
    BY DEF HopelessNeverPasses
  <2>1. PICK n \in 0..LIMIT : \E s, r \in Ranks :
           /\ n \in Nat /\ LIMIT \in Nat /\ Ranks = {s, r} /\ s # r
           /\ s = n % 2 /\ TypeOK /\ Phase(n, s, r)
    BY Unfold
  <2>2. PICK s \in Ranks, r \in Ranks :
           /\ n \in Nat /\ LIMIT \in Nat /\ Ranks = {s, r} /\ s # r
           /\ TypeOK /\ Phase(n, s, r)
    BY <2>1
  <2>3. n = 0 /\ ~(pc[r] = "answer" /\ crc_ok[r] = "y")
    BY <2>2 DEF Phase, ParityAt
  <2>4. Answered
    BY DEF Hopeless, Answered
  <2>5. ~(count[s] = n + 1 /\ pc[s] \in {"loop", "listen", "done"})
    BY <2>2, <2>4 DEF Phase, SenderAt
  <2> QED
    BY <2>2, <2>3, <2>5, PassedIs DEF Tally, Ahead
<1> QED
  BY <1>1, Invariance, PTL

\* A rank changes neither the place nor the count of the other, and only
\* ShowError counts what is shown.
LEMMA Frame ==
  ASSUME TypeOK, NEW p \in Ranks, Step(p)
  PROVE  /\ \A q \in Ranks \ {p} : pc'[q] = pc[q] /\ count'[q] = count[q]
         /\ ShowError(p) \/ UNCHANGED shown
<1>1. /\ pc' = [pc EXCEPT ![p] = pc'[p]]
      /\ count' = [count EXCEPT ![p] = count'[p]]
      /\ ShowError(p) \/ UNCHANGED shown
  <2>1. CASE Serve(p) \/ Listen(p) \/ Leave(p)
    BY <2>1 DEF TypeOK, Serve, Listen, Leave, GoTo
  <2>2. CASE SendNumber(p)
    BY <2>2 DEF TypeOK, SendNumber, GoTo
  <2>3. CASE SendPart(p)
    BY <2>3 DEF TypeOK, SendPart, GoTo
  <2>4. CASE GetAnswer(p)
    BY <2>4 DEF TypeOK, GetAnswer, GoTo
  <2>5. CASE RecvNumber(p)
    BY <2>5 DEF TypeOK, RecvNumber, GoTo
  <2>6. CASE RecvPart(p)
    BY <2>6 DEF TypeOK, RecvPart, GoTo
  <2>7. CASE FlipBit(p)
    BY <2>7 DEF TypeOK, FlipBit, GoTo
  <2>8. CASE CheckCrc(p)
    BY <2>8 DEF TypeOK, CheckCrc, GoTo, Accept, Reject
  <2>9. CASE \E fails \in BOOLEAN : CheckByDraw(p, fails)
    BY <2>9 DEF TypeOK, CheckByDraw, GoTo, Accept, Reject
  <2>10. CASE Decode(p)
    BY <2>10 DEF TypeOK, Decode, GoTo, Reject
  <2>11. CASE Answer(p) \/ ShowError(p)
    BY <2>11 DEF TypeOK, Answer, ShowError, GoTo
  <2> QED
    BY <2>1, <2>2, <2>3, <2>4, <2>5, <2>6, <2>7, <2>8, <2>9, <2>10, <2>11 DEF Step
<1> QED
  BY <1>1 DEF TypeOK

\* The place of a rank leaves it few steps.
LEMMA FromPlace ==
  ASSUME NEW p \in Ranks, Step(p)
  PROVE  /\ pc[p] = "answer" => Answer(p)
         /\ pc[p] = "await" => GetAnswer(p)
         /\ pc[p] = "loop" => Serve(p) \/ Listen(p) \/ Leave(p)
         /\ pc[p] = "listen" => RecvNumber(p)
         /\ pc[p] # "done"
<1>1. CASE Serve(p) \/ Listen(p) \/ Leave(p)
  BY <1>1 DEF Serve, Listen, Leave, At
<1>2. CASE SendNumber(p) \/ SendPart(p)
  BY <1>2 DEF SendNumber, SendPart, At
<1>3. CASE GetAnswer(p) \/ Answer(p) \/ RecvNumber(p)
  BY <1>3 DEF GetAnswer, Answer, RecvNumber, At
<1>4. CASE RecvPart(p) \/ FlipBit(p)
  BY <1>4 DEF RecvPart, FlipBit, At
<1>5. CASE CheckCrc(p) \/ \E fails \in BOOLEAN : CheckByDraw(p, fails)
  BY <1>5 DEF CheckCrc, CheckByDraw, At
<1>6. CASE Decode(p) \/ ShowError(p)
  BY <1>6 DEF Decode, ShowError, At
<1> QED
  BY <1>1, <1>2, <1>3, <1>4, <1>5, <1>6 DEF Step

\* What is settled for one rank stays settled.
LEMMA AheadStays ==
  ASSUME NEW n \in 0..LIMIT, NEW s, NEW r, Ranks = {s, r}, s # r, n \in Nat,
         TypeOK, Phase(n, s, r), NEW p \in Ranks, Step(p), Phase(n, s, r)',
         Ahead(n, s, r)
  PROVE  Ahead(n, s, r)'
<1>1. CASE pc[r] = "answer" /\ crc_ok[r] = "y"
  <2>1. pc[s] = "await" /\ answers[s] = << >> /\ count[r] = n + 1
    BY <1>1 DEF Phase, ReceiverAt, Awaits
  <2>2. Answer(r)
    BY <1>1, <2>1, FromPlace DEF GetAnswer
  <2>3. pc'[r] = "show" /\ count'[r] = n + 1
    BY <2>1, <2>2 DEF Answer, GoTo, TypeOK
  <2> QED
    BY <2>3 DEF Phase, ReceiverAt
<1>2. CASE count[s] = n + 1 /\ pc[s] \in {"loop", "listen", "done"}
  <2>1. CASE p = s
    <3>1. s # count[s] % 2 /\ numbers[s] = << >>
      BY <1>2, Turns DEF Phase, MailAt
    <3>2. Listen(s) \/ Leave(s)
      BY <1>2, <2>1, <3>1, FromPlace DEF Serve, RecvNumber
    <3> QED
      BY <1>2, <3>2 DEF Listen, Leave, GoTo, TypeOK, Ahead
  <2>2. CASE p = r
    <3>1. pc'[s] = pc[s] /\ count'[s] = count[s]
      BY <2>2, Frame
    <3> QED
      BY <1>2, <3>1 DEF Ahead
  <2> QED
    BY <2>1, <2>2
<1> QED
  BY <1>1, <1>2 DEF Ahead

\* Both ranks are in one transfer only.
LEMMA OnePhase ==
  ASSUME NEW n \in Nat, NEW s, NEW r, Phase(n, s, r)', Phase(n + 1, r, s)'
  PROVE  FALSE
<1>1. SenderAt(n + 1, r)' /\ ReceiverAt(n, s, r)'
  BY DEF Phase
<1>2. count'[r] = n + 1 \/ count'[r] = n + 1 + 1
  BY <1>1 DEF SenderAt
<1>3. count'[r] = n \/ count'[r] = n + 1
  BY <1>1 DEF ReceiverAt
<1>4. count'[r] = n + 1 => pc'[r] \in {"loop", "show", "done"}
  BY <1>1 DEF SenderAt
<1>5. count'[r] = n + 1 => pc'[r] \notin {"loop", "show", "done"}
  BY <1>1 DEF ReceiverAt
<1> QED
  BY <1>2, <1>3, <1>4, <1>5

\* The turn passes on when the receiver settles what the sender, or it itself,
\* has settled before.
LEMMA TurnOver ==
  ASSUME NEW n \in 0..LIMIT, NEW s, NEW r, Ranks = {s, r}, s # r, n \in Nat,
         TypeOK, Phase(n, s, r), NEW p \in Ranks, Step(p), Phase(n + 1, r, s)'
  PROVE  Ahead(n, s, r) /\ ~Ahead(n + 1, r, s)' /\ UNCHANGED shown
<1>1. ~Phase(n, s, r)'
  BY OnePhase
<1>2. RecvNumber(p) \/ RecvPart(p) \/ Answer(p)
  <2>1. CASE Serve(p) \/ Listen(p) \/ Leave(p)
    BY <1>1, <2>1, ServeStep, ListenStep, LeaveStep
  <2>2. CASE SendNumber(p) \/ SendPart(p) \/ GetAnswer(p)
    BY <1>1, <2>2, SendNumberStep, SendPartStep, GetAnswerStep
  <2>3. CASE FlipBit(p) \/ CheckCrc(p) \/ \E fails \in BOOLEAN : CheckByDraw(p, fails)
    BY <1>1, <2>3, FlipBitStep, CheckCrcStep, CheckByDrawStep
  <2>4. CASE Decode(p) \/ ShowError(p)
    BY <1>1, <2>4, DecodeStep, ShowErrorStep
  <2> QED
    BY <2>1, <2>2, <2>3, <2>4 DEF Step
<1>3. numbers[s] = << >> /\ pc[s] \notin {"recv", "answer"}
  BY DEF Phase, MailAt, SenderAt
<1>4. p = r
  BY <1>2, <1>3 DEF RecvNumber, RecvPart, Answer, At
<1>5. pc'[s] = pc[s] /\ count'[s] = count[s]
  BY <1>4, Frame
<1>6. /\ pc'[r] \in {"loop", "show", "done"} /\ count'[r] = n + 1
      /\ pc[r] = "answer" => crc_ok[r] = "y"
      /\ pc[r] # "answer" => count[s] = n + 1 /\ pc[s] \in {"loop", "listen", "done"}
  <2>1. CASE RecvNumber(p)
    <3>1. pc[r] = "listen" /\ numbers[r] # << >>
      BY <1>4, <2>1 DEF RecvNumber, At
    <3>2. numbers[r] = <<n + 1>> /\ HasSent(n, s)
      BY <3>1 DEF Phase, MailAt
    <3>3. count' = [count EXCEPT ![r] = n + 1]
      BY <1>4, <2>1, <3>2 DEF RecvNumber
    <3>4. count'[r] = n + 1
      BY <3>3 DEF TypeOK
    <3>5. pc'[r] \in {"loop", "show", "done"}
      BY <3>4 DEF Phase, SenderAt
    <3>6. pc' = [pc EXCEPT ![r] = IF Tags = << >> THEN AfterRecv ELSE "recv"]
      BY <1>4, <2>1 DEF RecvNumber, GoTo
    <3>7. Tags = << >> /\ AfterRecv \in {"loop", "show", "done"}
      BY <3>5, <3>6 DEF TypeOK
    <3>8. Len(Tags) = 0 /\ ~Answered
      BY <3>7, TagsDiffer DEF AfterRecv
    <3>9. count[s] = n + 1 /\ pc[s] \in {"loop", "listen", "done"}
      BY <3>2, <3>8 DEF HasSent, Phase, SenderAt
    <3> QED
      BY <3>1, <3>4, <3>5, <3>9
  <2>2. CASE RecvPart(p)
    <3>1. pc[r] = "recv" /\ parts[r][Tags[i[r]]] # << >>
      BY <1>4, <2>2 DEF RecvPart, At
    <3>2. count[r] = n + 1 /\ i[r] \in 1..Len(Tags)
      BY <3>1 DEF Phase, ReceiverAt
    <3>3. PartSent(n, s, i[r])
      BY <3>1, <3>2 DEF Phase, MailAt
    <3>4. count'[r] = n + 1
      BY <1>4, <2>2, <3>2 DEF RecvPart
    <3>5. pc'[r] \in {"loop", "show", "done"}
      BY <3>4 DEF Phase, SenderAt
    <3>6. pc' = [pc EXCEPT ![r] = IF i[r] = Len(Tags) THEN AfterRecv ELSE "recv"]
      BY <1>4, <2>2 DEF RecvPart, GoTo
    <3>7. i[r] = Len(Tags) /\ AfterRecv \in {"loop", "show", "done"}
      BY <3>5, <3>6 DEF TypeOK
    <3>8. Len(Tags) \in Nat /\ ~Answered
      BY <3>7, TagsDiffer DEF AfterRecv
    <3>9. count[s] = n + 1 /\ pc[s] \in {"loop", "listen", "done"}
      BY <3>3, <3>7, <3>8 DEF PartSent, HasSent, Phase, SenderAt
    <3> QED
      BY <3>1, <3>4, <3>5, <3>9
  <2>3. CASE Answer(p)
    <3>1. pc[r] = "answer" /\ pc' = [pc EXCEPT ![r] = "show"] /\ count' = count
      BY <1>4, <2>3 DEF Answer, At, GoTo
    <3>2. pc'[r] = "show"
      BY <3>1 DEF TypeOK
    <3>3. count[r] = n + 1
      BY <3>1, <3>2 DEF Phase, SenderAt
    <3>4. crc_ok[r] = "y"
      BY <3>1, <3>3 DEF Phase, ReceiverAt, TypeOK, Verdict
    <3> QED
      BY <3>1, <3>2, <3>3, <3>4
  <2> QED
    BY <1>2, <2>1, <2>2, <2>3
<1>7. Ahead(n, s, r)
  BY <1>6 DEF Ahead
<1>8. ~Ahead(n + 1, r, s)'
  BY <1>3, <1>5, <1>6 DEF Ahead
<1>9. UNCHANGED shown
  BY <1>2 DEF RecvNumber, RecvPart, Answer
<1> QED
  BY <1>7, <1>8, <1>9

\* The error is shown by the rank that got the last number, which no transfer
\* follows.
LEMMA ShowRefines ==
  ASSUME NEW n \in 0..LIMIT, NEW s, NEW r, Ranks = {s, r}, s # r, n \in Nat,
         LIMIT \in Nat, TypeOK, Phase(n, s, r), NEW p \in Ranks, ShowError(p)
  PROVE  /\ Ahead(n, s, r)' <=> Ahead(n, s, r)
         /\ \/ UNCHANGED shown
            \/ n = LIMIT /\ p = s /\ shown[p] = 0 /\ shown' = [shown EXCEPT ![p] = 1]
<1>1. /\ pc[p] = "show" /\ count[p] = n
      /\ p = s \/ (p = r /\ n < LIMIT)
  BY DEF Phase, SenderAt, ReceiverAt, ShowError, At
<1>2. /\ pc' = [pc EXCEPT ![p] = "loop"]
      /\ shown' = [shown EXCEPT ![p] = IF n = LIMIT THEN @ + 1 ELSE @]
      /\ UNCHANGED <<count, crc_ok>>
  BY <1>1 DEF ShowError, GoTo, IsLast
<1>3. CASE n = LIMIT
  <2>1. p = s /\ shown[s] = 0
    BY <1>1, <1>3 DEF Phase, ShownAt
  <2>2. shown' = [shown EXCEPT ![p] = 1]
    BY <1>2, <1>3, <2>1
  <2>3. Ahead(n, s, r)' <=> Ahead(n, s, r)
    BY <1>1, <1>2, <2>1 DEF Ahead, TypeOK
  <2> QED
    BY <1>3, <2>1, <2>2, <2>3
<1>4. CASE n # LIMIT
  <2>1. shown' = shown
    BY <1>2, <1>4 DEF TypeOK
  <2>2. Ahead(n, s, r)' <=> Ahead(n, s, r)
    BY <1>1, <1>2 DEF Ahead, TypeOK
  <2> QED
    BY <2>1, <2>2
<1> QED
  BY <1>3, <1>4

\* Every step of a rank is a step of the alternation or a stutter of it.
LEMMA StepRefines ==
  ASSUME IInv, NEW p \in Ranks, Step(p)
  PROVE  [Alternates!ANext]_Alternates!avars
<1>1. PICK n \in 0..LIMIT : \E s, r \in Ranks :
         /\ n \in Nat /\ LIMIT \in Nat /\ Ranks = {s, r} /\ s # r
         /\ s = n % 2 /\ TypeOK /\ Phase(n, s, r)
  BY Unfold
<1>2. PICK s \in Ranks, r \in Ranks :
         /\ n \in Nat /\ LIMIT \in Nat /\ Ranks = {s, r} /\ s # r
         /\ s = n % 2 /\ TypeOK /\ Phase(n, s, r)
  BY <1>1
<1>3. /\ Passed = IF Ahead(n, s, r) THEN n + 1 ELSE n
      /\ Ahead(n, s, r) => n < LIMIT
  BY <1>2, PassedIs DEF Tally
<1>4. TypeOK' /\ (Phase(n, s, r)' \/ (n < LIMIT /\ Phase(n + 1, r, s)'))
  BY <1>2, StepIInv
<1>5. Ranks' = {s, r}
  BY <1>2 DEF Ranks
<1>6. CASE Phase(n, s, r)'
  <2>1. Passed' = IF Ahead(n, s, r)' THEN n + 1 ELSE n
    BY <1>2, <1>4, <1>5, <1>6, PassedWillBe DEF Tally
  <2>2. Ahead(n, s, r)' => n < LIMIT
    BY <1>2, <1>4, <1>5, <1>6, PassedWillBe DEF Tally
  <2>3. CASE ShowError(p)
    <3>1. Passed' = Passed
      BY <1>2, <1>3, <2>1, <2>3, ShowRefines
    <3>2. CASE UNCHANGED shown
      BY <3>1, <3>2 DEF Alternates!avars
    <3>3. CASE /\ n = LIMIT /\ p = s /\ shown[p] = 0
               /\ shown' = [shown EXCEPT ![p] = 1]
      <4>1. Passed = LIMIT /\ p = LIMIT % 2 /\ p \in {0, 1}
        BY <1>2, <1>3, <3>3 DEF Ranks
      <4>2. Alternates!Show(p)
        BY <3>1, <3>3, <4>1 DEF Alternates!Show
      <4> QED
        BY <4>1, <4>2 DEF Alternates!ANext
    <3> QED
      BY <1>2, <2>3, <3>2, <3>3, ShowRefines
  <2>4. CASE UNCHANGED shown
    <3>1. Ahead(n, s, r) => Ahead(n, s, r)'
      BY <1>2, <1>6, AheadStays
    <3>2. CASE Ahead(n, s, r) \/ ~Ahead(n, s, r)'
      <4>1. Passed' = Passed
        BY <1>3, <2>1, <3>1, <3>2
      <4> QED
        BY <2>4, <4>1 DEF Alternates!avars
    <3>3. CASE ~Ahead(n, s, r) /\ Ahead(n, s, r)'
      <4>1. Passed = n /\ Passed' = n + 1 /\ n < LIMIT
        BY <1>3, <2>1, <2>2, <3>3
      <4> QED
        BY <2>4, <4>1 DEF Alternates!ANext, Alternates!Pass
    <3> QED
      BY <3>2, <3>3
  <2> QED
    BY <1>2, <2>3, <2>4, Frame
<1>7. CASE n < LIMIT /\ Phase(n + 1, r, s)'
  <2>1. Ahead(n, s, r) /\ ~Ahead(n + 1, r, s)' /\ UNCHANGED shown
    BY <1>2, <1>7, TurnOver
  <2>2. n + 1 \in 0..LIMIT
    BY <1>2, <1>7
  <2>3. Passed' = IF Ahead(n + 1, r, s)' THEN n + 1 + 1 ELSE n + 1
    BY <1>2, <1>4, <1>5, <1>7, <2>2, PassedWillBe DEF Tally
  <2> QED
    BY <1>3, <2>1, <2>3 DEF Alternates!avars
<1> QED
  BY <1>4, <1>6, <1>7

\* The ping-pong programs, with their repeated transfers, are the alternation:
\* every step of a rank hands the data over once, shows the error, or changes
\* nothing of what is settled.
THEOREM Refinement == Spec => ImplementsAlternation
<1>1. Init => Alternates!AInit
  <2> SUFFICES ASSUME Init PROVE Alternates!AInit
    OBVIOUS
  <2>1. Settled(0) = 0 /\ Settled(1) = 0
    BY DEF Init, Ranks, Settled, InTransfer
  <2>2. Passed = 0
    BY <2>1 DEF Passed
  <2> QED
    BY <2>2 DEF Init, Ranks, Alternates!AInit
<1>2. IInv /\ [Next]_vars => [Alternates!ANext]_Alternates!avars
  <2> SUFFICES ASSUME IInv, [Next]_vars PROVE [Alternates!ANext]_Alternates!avars
    OBVIOUS
  <2>1. CASE \E p \in Ranks : Step(p)
    BY <2>1, StepRefines
  <2>2. CASE UNCHANGED vars
    BY <2>2 DEF vars, Passed, Settled, InTransfer, Alternates!avars
  <2> QED
    BY <2>1, <2>2 DEF Next, Terminated
<1> QED
  BY <1>1, <1>2, Invariance, PTL DEF Spec, ImplementsAlternation, Alternates!ASpec
=============================================================================
