# Verification of the MPI applications and their fault-tolerant communication

The repository holds MPI programs (matrix multiplication, LU, k-means, the
Himeno benchmark, a ping-pong) in several variants: plain, `_abft` with a
broadcast that verifies and repairs what it carries, and `_comp` with lossy
compression of what is sent. This directory holds TLA+ models of the core of
these programs, the TLC runs that check them and proofs checked by TLAPS.

Paths below are relative to the repository; `app/src` is the program's own code,
the rest (NPB, HPL, mpiP, Pilgrim, ScalaTrace, Valgrind) is taken over from
elsewhere.

## 1. Inventory

### Hamming code (app/src/abft.c:150-391)

*State*: a block of data bytes, `r` check bits and one overall parity bit (as
characters). *Operations*: `hamming_encode` computes the code of a block,
`hamming_decode` verifies it, classifies the difference (no error, two-bit
error, parity error, one-bit error) and flips the bit it locates. Data and check
bits are numbered together, the powers of two being check bits.
*Hard*: three loops walk over the same numbering in slightly different ways; the
classification combines two results; more than two wrong bits look like fewer.
*Correct when*: any single wrong bit is put right wherever it is, any two are
reported, and nothing else is promised.

### Checked broadcast MPI_Bcast_abft (app/src/abft.c:21-148)

*State per rank*: a copy of the data as bytes, a CRC32, the Hamming codes, a
verdict `crc_ok`. *Operations*: the root broadcasts data, CRC, the lengths of
the codes and the codes; receivers check the CRC and, on a mismatch, decode the
blocks; the verdicts are gathered; ranks with a two-bit error get the data once
more, point to point with tag = rank.
*Interaction*: called by LU (once per row and step, roots rotating), matrix
multiplication (twice) and k-means (twice per iteration).
*Hard*: ranks meet only in these messages, a root may run ahead of its
receivers; the decision to send a second copy is taken on both sides
separately; consecutive calls use the same tag; any bit of data, code or CRC may
flip; the verdict is fixed before the repair.
*Correct when*: a buffer is only wrong if the damage exceeded what the code can
tell; a second copy is taken by the call it belongs to; the root returns only
when no rank needs it any more; every rank returns.

### Parallel LU (app/src/lu/lu.c, lu_abft.c)

*State per rank*: the whole matrix. *Operations*: in step d each rank eliminates
column d of the rows it owns (row mod p) with its own copy of row d, then the
rows below d are broadcast from column d on, each by its owner.
*Hard*: the copy a rank eliminates with is up to date only through earlier
broadcasts; roots rotate within a step; nothing else synchronises the ranks; each
rank generates the matrix itself.
*Correct when*: no rank uses a stale pivot row, and L times U is the matrix.

### Himeno benchmark (app/src/himeno/himenoBMTxps.c, paramset.sh)

*State per rank*: a part of the grid with one layer of its neighbours on every
cut side. *Operations*: partition of the grid, a sweep over the inner cells,
exchange of layers in z, y and x, reduction of the residual; a first run of 3
sweeps is timed and fixes the number of sweeps of the second.
*Hard*: corners arrive through two or three exchanges; all sweeps use the same
tags; the vector types that select the layers depend on array bounds that another
program (paramset.sh) generates; the ranks must agree on the number of sweeps.
*Correct when*: each rank holds what the uncut grid would hold, each point is
computed once, and every rank ends.

### K-means (app/src/kmeans/kmeans_abft.c, kmeans.c)

*State*: points and assignments on rank 0, a share of the points on each rank,
means broadcast from rank 0. *Operations*: scatter, broadcast of the means,
assignment to the nearest, gather, new means. *Hard*: a remainder of points that
no rank gets, clusters that become empty, exits of rank 0 while others wait.
*Correct when*: the ranks together do what one machine would, with the means of one
iteration, and the cost does not grow.

### Matrix multiplication (app/src/mm/mm_abft.c, mm.c, mm_comp.c)

*State*: two matrices on rank 0, broadcast; a block of rows of the result on each
rank, gathered. *Operations*: rank 0 reads and checks its files, or exits; shapes and
matrices are broadcast with the method of the program (or of CT); each rank multiplies
its rows; rank 0 gathers. *Hard*: exits of rank 0 on bad input while the others wait in
a broadcast; rows that the ranks do not divide; results computed from matrices that
went through a lossy broadcast on some ranks and not on others. *Correct when*: the
gathered matrix is the product of what each rank was promised, and every rank ends.

### Checked broadcasts of compressed data (app/src/dataCompression.c:800-1197)

Three relatives of MPI_Bcast_abft over compressed data: with CRC only, with CRC
and a mask, with CRC and Hamming. *State*: compressed bytes, CRC, verdict,
counters of second copies and corrections. *Hard*: the root keeps its exact values
while the receivers hold decompressed ones; errors are injected in proportion to the
size; counters live on the root. *Correct when*: receivers hold the decompressed
values unless a block had more wrong bits than the code tells, and every second copy
is counted once.

### Bitwise compression (app/src/dataCompression.c)

Doubles and floats are predicted from the last three values and stored as a
code of three bits or as a truncated mantissa, bit by bit. *Hard*: the stream holds no
lengths, so decoder and encoder must compute the same ones; they predict from different
values, exact ones and decompressed ones; values without mantissa are recognised one
bit late. *Correct when*: the decoder returns as many values as were encoded, each
within what the bound and the predictions allow.

### Ping-pong with compression (app/src/pingpong)

Two ranks send a compressed array to and fro and repeat a transfer whose CRC
fails. *State per rank*: the count of transfers, the data, the verdict. *Hard*: both
must repeat the same transfer, each undoing its own count; the receiver damages
the very buffer it will send from; a message so long that an error is injected in every
attempt is repeated for ever. *Correct when*: the roles alternate, damage stays where
it was made, and the right rank shows the error once.

### Himeno with compressed layers (app/src/himeno/himenoBMTxps_comp.c)

The Himeno program with the layers compressed as CT says, the size of each sent before
it. *Hard*: sizes and layers of all sweeps use the same tags; ranks at the edge of the
grid write layers they have not received.

### Programs with compressed communication (lu_comp, kmeans_comp)

The same programs with the broadcast chosen by a command-line number CT. *Hard*: ranks
that share file names (CT 4), values of CT one program lacks, statistics printed from
rank 0 only while the roots rotate.

### Not part of the verification

The Graph500 reference code, older copies under `src/test`, examples for a
library that is not here (`src/waitio`), and the vendored suites and tools.

## 2. Plan

| order | module | over | composes | abstract specification | state |
|---|---|---|---|---|---|
| 1 | Hamming, Secded | abft.c | | Secded: numbers of wrong bits | done, proved |
| 2 | BcastAbft | abft.c | Secded | ReliableBcast | done, proved |
| 3 | Elimination, Lu | lu | broadcast as promised by ReliableBcast | Gauss | done, proved |
| 4 | Partition, Himeno | himeno | | the uncut grid (CellsCurrent) | done, proved |
| 5 | Clusters, KMeans | kmeans | broadcast as in Lu | Lloyd: k-means on one machine | done, proved |
| 6 | PingPong | pingpong | Secded | Alternation | done, proved |
| 7 | CheckedBcast | dataCompression.c:800-1197 | Secded | | done, proved in MatMul |
| 8 | Floats, Codec | dataCompression.c | | values computed without a stream (Ideal) | done |
| 9 | MatMul | mm | CheckedBcast | product of the inputs | done, proved |
| 10 | Himeno, second part | himenoBMTxps_comp | Partition | as 4 | done, proved |
| 11 | Lu, KMeans with CT | lu_comp, kmeans_comp | CheckedBcast | | if room is left |

The safety of every module except Codec is proved; what is left is said at the end of section 5. Of the model, the exits of rank 0 in KMeans and the
byte-wise compression (CT 1) are left.

## 3. Modules and code

**Secded** abstracts a block to a *pattern*: how many of its data bits and of its
code bits are wrong. The code is linear, so what decoding does depends only on
which bits are wrong. `Outcomes(p)` is the set of answers (error type, pattern
left) decoding may give. `block_size`, `bs_num`, `block_bytes` cut a buffer as
abft.c does.

**Hamming** is the code bit by bit: `hmLength`, encoding, verification, the
position of the error, the walk of `hamming_rectify_bit`. Its behaviours pick a
data word, flip up to `MaxFlips` bits of data and code, and decode.
`DecodesAsSecded` ties it to Secded: every answer of the bit-level decoder is one
of `Outcomes`.

**BcastAbft** is MPI_Bcast_abft executed by `Procs` ranks `NCalls` times, with
root `Root[k]` in call k. `pc[p]` names the part of the function rank p is in:

| action | code |
|---|---|
| Enter | copy, CRC, encoding on the root (abft.c:23-63) |
| Post, RecvData, RecvCrc, RecvR, RecvCode | the MPI_Bcast calls (66-78) |
| Check, Decode | CRC test and decoding loop (82-121) |
| GiveVerdict, TakeVerdicts | MPI_Gather (127) |
| Resend, RootReturns | loop over the ranks (129-139) |
| Await, Commit | MPI_Recv, memcpy (140-147) |

Receivers pick how many bits the wires flip. `Eager[k]` says whether a send
returns at once or waits for the receiver: MPI may do either, depending on the
size. `overload` is a history variable: who received more than the code can tell.
A second copy that carried another call's data would be recorded as damage
in every block, without an entry in `overload`.

**ReliableBcast** is what a caller may rely on; BcastAbft implements it.

**Elimination, Gauss, Lu**: the arithmetic of `forw_elim` over the integers modulo
a prime (what a zero pivot gives is left open, but the same on every rank), the
factorisation on a single matrix, and the parallel program. Lu
takes a broadcast as delivering the root's data of the time of its call, which is what
ReliableBcast promises. `wire[d][r]` is what the owner of row r has broadcast in
step d; `Send`/`Recv` are the two sides of the call at lu_abft.c:67; the arguments
(offset `diag_ref`, length `size`, `root`) are computed by each rank from its own
loop counters.

**Partition, Himeno**: `initcomm` and `initmax` as operators (positions of ranks,
neighbours, parts with remainder, overlap, the vector types, the array bound MJMAX
of paramset.sh), and the program's control flow. A cell's value is named by the
point of the grid and the sweep it belongs to; a sweep yields a proper value
only when every cell of the stencil is of the current sweep, and a marked one (`Other`)
otherwise, so a stale or misplaced layer shows for ever. `Begin`/`Complete` are the two
halves of MPI_Allreduce and MPI_Barrier. With `CT` other than 0 the module is
himenoBMTxps_comp.c: `PostSizes`/`ArriveSize` exchange the sizes (a size is named by the
layer it is the size of), `Carried` is the layer as transform_3d_array_to_1d_array
cuts it, and `Unwritten` are the cells of the layers on sides without a neighbour: the code
writes them from memory nobody has filled, which becomes `Other`, a value that counts as
wrong whatever the memory held.

**Clusters, Lloyd, KMeans**: the distances and means over integer coordinates that
every possible size of a cluster divides, so that means are exact; k-means on one machine;
and the parallel program. `pc[p]` is the call of the iteration rank p is in:

| action | code (kmeans_abft.c) |
|---|---|
| Send, Recv | the two MPI_Bcast_abft and the MPI_Scatter (306-312), rank 0 and the others |
| Assign | assign2Cluster (315) |
| Give, Gather | MPI_Gather (318), the others and rank 0 |
| Calc | calcKmeans on rank 0 (324) |

Points past the last full share keep the cluster they have, 0, as line 20 of the code warns:
Lloyd has the set of points that take part as a parameter, `Shared`. kmeans.c is the same
program with MPI_Bcast in place of MPI_Bcast_abft, which promises the same.

**PingPong, Alternation**: the loop of pingpong_double_comp.c for every CT. `pc[p]`
is what rank p is about to do in the transfer:

| action | code (pingpong_double_comp.c) |
|---|---|
| Serve, Listen, Leave | loop condition and role (224-227, 331) |
| SendNumber, SendPart, GetAnswer | the sender's MPI_Send of count and parts, MPI_Recv of the verdict (228-328) |
| RecvNumber, RecvPart | the receiver's MPI_Recv (331-512) |
| FlipBit | bit_flip, as often as the size says (366-375, 459-468) |
| CheckCrc, CheckByDraw, Decode | verdict by CRC, by a drawn number, by Hamming (377-503) |
| Answer, ShowError | MPI_Send of the verdict, decompression after the last transfer (507, 514-608) |

Messages are kept by tag, so that a receive takes the oldest one with its tag. `source` and
`block` say what a rank holds: what was sent to it, and the bits it has flipped since.
`Eagers` chooses between sends that return at once and sends that wait. Alternation is what
remains when rejected transfers are not looked at; which rank hands over is not part of its step
but of RolesInStep, by which the sender of transfer n is rank n mod 2.

**Floats, Codec**: a double is an integer in units of the smallest positive one, with
as many bits of exponent and mantissa as the constants say; `doubletostr` and
`strtodbl` convert it to its bits and back. Codec compresses a sequence value by value
(`Compress`), fills the last byte (`Deliver`) and decompresses bit by bit (`Decompress`);
`dec` holds the locals of the decompression: bits left of the current part
(`offset`), bits collected, whether a mask may still be meant (`pending`), the last three values. The four pairs of functions
differ in `Token` and in what `Turn` does where a part ends. The functions for floats are
the same with other widths.

**CheckedBcast, MatMul**: CheckedBcast has the steps of the broadcasts of
dataCompression.c on every rank, with rank 0 as root as in mm_comp.c, next to the plain
broadcast, MPI_Bcast_abft and the unchecked compressed ones, so that one program can be run
with each. `held[k][p]` says what rank p holds after call k: the exact values, the
decompressed ones or damaged ones. MatMul extends it with the program: `Read` (or exit),
the broadcasts of shapes and matrices, `Multiply`, `GiveBlock`, `Collect`; values are taken
through `Decompressed` where `held` says so. Rank 0 writes the result once all blocks
are there.

## 4. Runs

| run | asks | bounds |
|---|---|---|
| hamming | Is every single flip corrected, every pair reported, and does Secded cover all answers? | one block of 2 bytes (r = 5), 2 data words, up to 4 flips of 22 bits |
| bcast_wires | Can wires, CRC and second copies together lead to silent corruption? | 2 ranks, 2 calls, 2 blocks (one short), up to 4 flips per block, wrong CRC, damaged second copy |
| bcast_rows | Do consecutive calls with rotating roots stay apart; does the root never leave too early; does everybody return; is ReliableBcast implemented? | 3 ranks, 3 calls, one block, up to 2 flips; the second call with sends that wait |
| bcast_crc (violated) | Does committed data match the CRC? | 3 flips in one block |
| lu | Is a pivot row ever stale, is the result the factorisation, is Gauss implemented, does every rank end? | 4 rows on 3 ranks, 8 matrices modulo 5; step 1 with roots that wait |
| kmeans | Does a rank ever assign with other means than those of rank 0; does the cost grow; is Lloyd implemented; does every rank end? | 7 points, 3 clusters, 3 ranks, 4 iterations, 3 inputs; iteration 1 with sends that wait |
| himeno | Does the cut grid compute what the uncut one does; are layers or sizes of sweeps mixed up; is each point counted once; does every rank end; how far does the missing edge of the compressed program reach? | 4 x 4 x 5 points, three cuts plain and two compressed with 3 or 4 ranks, 1 + up to 2 sweeps |
| himeno_long (violated) | The same on a grid whose arrays have more rows than columns | 5 x 4 x 4 points cut 1 x 2 x 2 |
| pingpong | Do the roles ever collide; does damage travel; is Alternation implemented; which programs end, and which repeat their first transfer for ever? | 3 transfers, all ten CT; for CT 8, 9, 10 sizes with none to three errors in one to three blocks |
| codec | Does the decompression find every value where it was put, return all of them, and what do the errors amount to? | 8-bit doubles (4 + 3), all sequences of 5 out of 6 values that contain 0, four methods |
| codec_mask (violated) | Are the bits before a mantissa always a header? | sequences of 4, method with mask |
| mm | Is the gathered matrix the product for every kind of broadcast; are second copies counted; does every rank end unless rank 0 rejects its input? | 3 ranks, 3x2 times 2x2, seven methods, up to three errors in three blocks; one input that fits and three that are rejected |

*Why the bounds are enough.* The Hamming code is linear, so its behaviour depends
on the flipped bits only; two words are there to exercise both values of each
bit. Up to four flips include the lightest patterns that are invisible. For blocks of other
sizes, other data and more flips there is the proof. Two blocks, one of
them short, exercise the remainder and the loop that ends early; the third rank
of bcast_rows is what a verdict or second copy can be confused with; three calls are
enough for a rank to be one and two calls behind. In Lu, 4 rows on 3 ranks give one
rank two rows, roots that differ within a step, and three steps; the multipliers
include zero, where forw_elim returns early. In Himeno the cuts include two
dimensions at once, so that corners travel, and three parts with a remainder in one;
the third sweep is the first that could meet a layer of the one before the last. In KMeans two
points per rank and one left over show a share laid out wrongly and a point nobody
assigns; one input has a cluster that loses all its points, one has equal means. The
safety of Hamming, BcastAbft, Lu, KMeans, Himeno, PingPong and MatMul does not rest on bounds: it is
proved.

In PingPong three transfers let both ranks send, receive and show; sizes of 1 to 6 bytes, with
2 bytes for the size that has one error, give zero to three errors, an odd and an even number in
one block and more than two in one block. In Codec the six values keep 0, 1, 2 and all 3 mantissa
bits, lie on both sides of the bound and predict one another; masks of type 1 and 2 occur, and a
last value without mantissa that fills its byte. Five values are the fewest in which a prediction
rests on predicted ones. In MatMul both matrices are cut differently into blocks, so that a second copy of the
first call would show in the second.

*Fairness.* Liveness is checked under weak fairness of each rank's steps (in Himeno, where
that is enough, of the ranks together):
once a rank can proceed in its program it does. This is what the MPI library's
progress and the operating system's scheduler give; nothing is assumed about
messages beyond MPI's own guarantee that they arrive. PingPong adds strong fairness of the
draw that lets a transfer pass (CT 9): `rand` repeated for ever is not always too small. Nothing
of the kind is assumed of injected errors (CT 8, 10), which is why EndsWhenRepairable is limited to
those that are repaired.

*Findings.*
`bcast_crc`: data accepted after a correction may fail the CRC that arrived with
them, because it is not computed again (abft.c:101), while README.md:5 says CRC32
verifies the integrity of communication data.
`himeno_long`: the vector type of the layers exchanged in z (himenoBMTxps.c:418)
assumes rows of jmax elements one after the other; when y is cut, paramset.sh:73-74
declares more, and the last rows of the layer are not exchanged.
`codec_mask`: when all values are below 2 the mask has type 1 (dataCompression.c:3577-3584) and a masked
header 3 bits, as many as a code; line 1362 then takes a code for a header and the rest
of the stream is decompressed out of step.

Four more things the properties state as they are. The compressed Himeno program writes
the layers of sides without a neighbour from memory it has not filled
(himenoBMTxps_comp.c:703-704): CellsCurrent holds only for points farther from the cut edges than the number
of sweeps. A last value without mantissa bits that fills its byte does not come back
(LastIsLost). Errors of predicted values add up beyond absErrorBound
(ErrorsAreAccountedFor). CT 8 and 9 repeat the first transfer for ever when the data are large
enough for an odd number of errors, or for any (HopelessNeverPasses).

## 5. Proofs

`Hamming_proofs` proves all five properties of run hamming, TypeOK, CorrectsOne, DetectsTwo, DecodesAsSecded
and DecodeSettles, for blocks of every number of bytes, all data and any number of flipped bits.
The assumptions are those on the constants (`HammingAssumption`: a block is a positive number of bytes, so K is a
multiple of 8 as at abft.c:349; below 3 bits `hmLength` would not find its r in 0..K). `IInv` joins the
four invariants with *OnWire*: on the wire data and code differ from what the root encoded in
exactly the flipped bits. The argument has four steps:

- *numbers*: every number below 2^R is spelled by one choice of check bits and no two
  (`Spelling`, `SpelledOnce`), from the laws of powers (`PowLaws`: the prover knows nothing of `^`, so
  2^n is counted as the number of subsets of a set of n elements); `hmLength` exists and its 2^R positions
  are enough (`Length`); the data bits fill the positions the check bits leave (`Layout`);
- *linearity*: the difference of what is computed and what arrived is the parity of the wrong positions the
  check bit covers (`CheckSees`), and of their number (`ParitySees`);
- *distance*: words that agree with their codes and are not the same differ in four bits at least, one
  of them of the data (`Distance`);
- *fate*: a decoding either changes nothing, or toggles the one bit it locates and then agrees
  (`Repair`, `DecodeFate`); one wrong bit is the one located (`OneWrong`); and which numbers of wrong bits this can
  leave is what Outcomes says (`OutcomeIs`).

With SecdedSound, what is proved of the broadcasts from `Outcomes` holds of the decoder bit by bit.
Induction over numbers is by the least element of a set (`LeastNat`, `AllNat`), taken from the
well-foundedness of <.

`BcastAbft_proofs` proves, for every number of ranks, calls, roots, buffer size,
bound on the flips and mixture of eager and waiting sends, that BcastAbft satisfies
TypeOK, NoSilentCorruption, ResendIsAwaited and RootOwesNothing. The only
assumptions are those on the constants (`BcastAssumption`, `MaxBlockAssumption`).

None of the properties is inductive. The invariant `IInv` adds:

- *LoopBounds*: each counter is within its loop at each label;
- *DataSound*: a rank that has not been overloaded has at most two wrong bits per
  block, blocks before the decoding loop's counter are clean, and a rank with
  verdict 'y' after the loop is clean. This is what makes NoSilentCorruption
  inductive, with two lemmas of `Secded_proofs` (`OutcomesType`, `OutcomesRepair`: a block
  with at most two wrong bits is repaired or reported);
- *Verdicts, AllGiven*: a rank that answered 'y' is about to take its data or is past
  the call, one that answered 'n' and has not been served waits; all the verdicts are
  there when the root begins its loop;
- *ServedSafe, Copies*: a rank the root's loop has passed is past the call, has its
  data or waits with a copy on the way; a copy under way is for a rank that waits, in
  the same call, and that the loop has passed. ResendIsAwaited and RootOwesNothing
  follow.

One lemma per action shows that it keeps the protocol part (`QuietStep` for those
that do not touch it); `Frame` says that a step of p leaves the others' local
state alone.

The last part of the module proves `Spec => ImplementsReliableBcast`. It needs `RInv`:
IInv, that a rank past a call has a value in its buffer (*Filled*), and that a
rank past a broadcast has been preceded by its root (*Progress*); then each action
maps to one of ReliableBcast's or to a stutter.

`Lu_proofs` proves, for every size, number of ranks, set of matrices and mixture of
broadcasts that do and do not wait, TypeOK, PivotIsOwners, the refinement of Gauss, and
FactorsOfPrinted unless a pivot is zero.
The assumptions are those on the constants; `FieldAssumption` says that Q is a prime
in the form the division needs. PivotIsOwners is not inductive: `IInv` says which rows
have been broadcast (*Sent*: exactly those their owner is past), that what was
broadcast is what the owner still holds where it is *settled* (column d after step d; the whole
tail after step r - 1, the last that eliminates row r), and the same of the copies
(*WireTrue*, *CopyTrue*), with row 0, which is never broadcast, apart (*RowZero*). For the
refinement, `PivotFinal` shows that the row a rank eliminates with is final on its
owner, `ElimRefines` that an elimination of an owned row is one step of Gauss, and
`BcastRefines` that broadcasts change nothing at the owners.

That L times U is the matrix printed is `FactorsRight`. It has one hypothesis,
*NonzeroPivots*: the ranks that have ended hold no zero on the diagonal above the last row. The program
does not pivot, so that with a zero there it has divided by zero; the matrices of the run
lu all satisfy it. The invariant is *FactoredAtOwners*: for a row r that has been through s
eliminations with pivots that are not zero, the first s terms of every entry of its product, plus
what the row itself still holds from column s on, are modulo Q the entry printed at the start. It
is kept by one elimination (`OneElimination`, from `ElimSums`, what an elimination does to such a
sum modulo Q), and by the refinement every step of the program is one elimination at the owners or
none. At the end all rows are final and every rank has the rows of their owners (`PivotFinal`,
`Pivots`), so that the sum is the whole product (`AllFinal`). Sums are the recursive function
*Total*, whose laws (`TotalLaws`, `TotalTail`, `TotalSame`) are proved by a least counterexample
(`CountUp`), the form of induction the provers take.

`KMeans_proofs` proves, for every number of points, clusters, ranks and iterations, every
input and mixture of calls that do and do not wait, AssignsWithRootsMeans and the refinement
of Lloyd, from the assumptions on the constants. AssignsWithRootsMeans is not inductive: what
keeps rank 0 from changing the means too early is the gather. `IInv` says that a rank is in
the iteration of rank 0 or just done with it, and done when rank 0 computes means (*InStep*);
that what rank 0 has sent in this iteration are the means it has, and that it has sent nothing for
later ones (*WireTrue*); that a rank past a broadcast has taken them (*MeansTaken*); and that what
it has assigned or given is the nearest by the means of rank 0 (*Assigned*). The refinement
needs that share and offset of a point are the quotient and the remainder of its number
(`OwnerOfPoint`) and that the initial means are points (`FirstMeans`), both nonlinear arithmetic
done by hand. Gather maps to Join, Calc to Move, every other step to a stutter.

It also proves TypeOK and CostNeverGrows. The sums are loops (`Total`), so a claim about them is shown
for the first n points, for each n, by taking the least n that refutes it (`CountUp`). Assigning a
point to the nearest mean does not raise its distance, once a nearest mean is known to exist
(`NearestIs`; `JoinCost`). Replacing means by those of the new clusters does not raise the cost: it
is done for one cluster after another (`MoveAll`), and for one of them the difference of the sums is a
square times the number of its points (`MoveOne`). This uses that means are exact, which holds because
coordinates are multiples of every size a cluster can have (`NewMean`), and `TotalLinear`, that
the sum of a linear combination is that of the sums. In the code coordinates are doubles, for which the
claim would hold up to rounding.

`PingPong_proofs` proves, for every CT, size of the data, error rate, number of transfers and both
kinds of sends, TypeOK, RolesInStep, DamageIsNotPassedOn, HopelessNeverPasses and the refinement of
Alternation. The assumptions are those on the constants. All rest on one invariant that is joint
to the two ranks: `IInv` says that there is a transfer n, with sender n mod 2, for which
`Phase(n, s, r)` holds. It fixes where both ranks can be (*SenderAt*, *ReceiverAt*),
which messages are on each channel, as a function of how much the one has sent and the
other received (*MailAt*), that loop counters are within their loops (*LoopsAt*), that the number of bits
flipped is that of the errors injected, so that an odd number is never taken for none (*ParityAt*), and
that the sender's data are clean, the receiver's at most as damaged as it has recorded
(*DataAt*, *ShownAt*). One lemma per action shows that it keeps the phase, or that it ends
transfer n and starts n + 1 with the roles exchanged; this is only possible where the
verdict has been received. `PassedIs` then says which transfers Alternation has counted.

`Himeno_proofs` proves, for every grid, cut, CT, number of ranks and of sweeps, OneLayerUnderWay. The
ranks meet only in layers and in collective calls, and every sweep uses the same tags. `IInv` counts
the collective calls a rank has entered and left (its *Epoch*) and has two parts:

- *CallInv*: no rank leaves a call before all have entered it (*Sync*), ranks in the same epoch are in
  the same place of the program up to the exchange (*Plan*: kind of call, number of sweeps, run,
  sweep; *Alike*), and the next epoch's place is the one that follows (*Follows*); the time
  agreed on is one that was measured (*Agreed*);
- *MailInv*: a layer, or size, is on a channel exactly when its sender has sent it in the epoch the
  receiver is in and the receiver has not taken it (*LayersInv*, *SizesInv*, *Silent*), and the size held is
  that of the layer under way (*SizesTrue*).

Before these comes the geometry: that ranks and places in the cut correspond
(mixed-radix arithmetic by hand), and that being a neighbour is symmetric.

It then proves CellsCurrent, GosaCountsEachPoint and TypeOK under the hypothesis `WellCut`,
which says of every program in `Programs` that no dimension is cut into more parts than it has points and
that the cells the vector type of line 418 misses do no harm: they are on the edge of the
grid, or in a layer exchanged later. The hypothesis is needed: `himeno_long` is the
violation without it. TLC evaluates it in the two instances (`OnlyShortIsWellCut` in MCHimeno): it
is true of the grid of run himeno and false of that of himeno_long.

CellsCurrent is not inductive, since during an exchange some layers are current and others are one
sweep behind. `CellInv` says which: a layer is *Stale* from the sweep until it arrives, and a cell
in no stale layer is right (*CellsInv*). A layer under way is right where it is in no layer of a
dimension not yet exchanged at its sender (*LoadsInv*); since z goes before y and y before x, edges and corners
are put right by the later ones. `SweepCell` shows that a sweep, which waits until nothing is stale,
makes the values of the next one; with compression, wherever the missing edge has not reached.
For GosaCountsEachPoint `CountInv` says that what a rank has given to a reduction is the number of its inner
points and the result of the call the sum of what was given. The sum is the size of
the inner grid because the ranks' own points are disjoint and cover it (`OwnDisjoint`, `OwnCovers`), and
those are counted dimension by dimension (`CountTriples`). m1 and the sum are recursive functions:
where their values are needed (`Start` is the closed form of m1), the step from n to n + 1 is
applied to the least n for which the claim would fail.

`MatMul_proofs` proves TypeOK, ResentIsCounted and ResultIsProduct, for every number of ranks, every way
of broadcasting, sizes of the data and of blocks, pairs of matrices and both kinds of sends. `IInv` has
these parts, each kept by every action, one step of the proof per action:

- *Places, Admitted*: which labels a rank of which kind can have in which call, and that no receiver
  gets past call 0 unless rank 0 has accepted its input, so that a rank that multiplies has shapes that
  fit and rows that can be shared evenly;
- *Protocol*: a verdict is there exactly from MPI_Gather on, and the root's loop only starts with all of
  them (*Verdicts*); a rank that asked and has not been served waits in that very call; a copy under way
  is for such a rank, and served (*Copies*); `resend` is the number of verdicts 'n' the loop has
  come past. This is what makes ResentIsCounted inductive: the loop serves a rank at most once per
  call, and the root cannot return without having come past all of them;
- *Data*: rank 0 keeps the exact values. A receiver that never had three wrong bits in a block is
  clean where its verdict is 'y', has only blocks before `i` repaired while it decodes, and
  holds after a call what the broadcast promises (*Sound*);
- *Results*: a rank past its multiplication has the block its values give, and the result is the
  blocks one after the other. Blocks do not change any more once rank 0 has gathered.

ResultIsProduct then is arithmetic of positions: entry (r, c) is entry y of the block of rank o
(`Position`, nonlinear and done by hand), and the loop of Block there has the terms of the product's
definition (`EntryIs`). The sum itself is never opened: equal terms give equal sums. The assumptions are those on
the constants: at least one rank, two calls, non-empty matrices with as many values as their shape says.

*Only model-checked*: all liveness (fairness and ENABLED are beyond the prover); and the four
invariants of Codec, which are about what the decompression makes of a whole stream: both directions are folds over sequences
of bits built by concatenation, so that every claim is an induction over data through operators the
provers do not open.

## 6. What is abstracted, and what is not modelled

- CRC32 is taken to tell damaged data from undamaged. It does for the numbers of
  flips considered in buffers of these sizes.
- The wires' flips stand for the errors the programs are written against; abft.c:84-89
  shows them, commented out, as random flips before the check. `bit_flip` flips data bits
  only; that codes may be hit as well (FlipCode in Hamming) is a property of the wires.
- The values of r[] are taken to arrive intact: a wrong length would make sender and
  receiver disagree on the size of the next message.
- Failures of malloc and of MPI calls are not modelled: the code does not look at them.
- Lu assumes that all ranks generate the same matrix. They do when they are started
  within the same second (lu_abft.c:27); nothing in the program ensures it. Doubles
  are replaced by integers modulo a prime: rounding is not modelled, and what a
  division by zero gives is left open.
- KMeans: coordinates are integers, and distances are compared by their squares: rounding is not
  modelled. The input can be read; the exits of rank 0 are left for a later module.
- Himeno: the stencil's coefficients, the float arithmetic and the real clock. Compressed values
  count as the values themselves; values of CT that exchange nothing (2, 3, 8 and more) and the
  statistics are left out. The parts of a compressed layer (minimum, mean, type, bits), which have
  tags of their own and are waited for together, are one message.
- PingPong: the data are a number of bytes and the bits wrong in them; the CRC tells any damage.
  The time measured is left out. What CT 4 would do is nothing but counting.
- Codec: the functions for floats, which repeat those for doubles with other widths; the
  older compression of myCompress_double; the error statistics. The data are those after
  toSmallDataset_double. The stream is a sequence of bits, so that the growth of its buffer by realloc is
  left out. So is the buffer of a masked value: when all mantissa bits are kept, lines 1450 and 1466
  set the element after its last one, which is no bit of the value.
- CheckedBcast, MatMul: what compression does to a value is a function of the value, so
  that errors adding up along predictions and the last value lost, which Codec has, are not carried
  into the product. CT 1 (older compression) and CT 4 (SZ tool) of mm_comp.c are left out, as are
  files without rows. The exits of rank 0 are one: a wrong number of arguments counts as an input that
  is rejected. After rank 0's exit the launcher is taken to leave the others waiting.
- lu_comp.c and kmeans_comp.c choose among the broadcasts of CheckedBcast; the programs around them
  are those of Lu and KMeans, which take a broadcast as exact. A lossy LU has another result, of
  which the code promises nothing. With CT 4 all ranks write and read the same file names
  through an external tool.
- The wrappers of MPI_Send and MPI_Recv in dataCompression.c are called by nothing.
- Graph500, NPB, HPL, mpiP, Pilgrim, ScalaTrace, Valgrind and the examples under `src/waitio` are not
  this project's code. They make up nearly all of the repository's lines: the modules cover the
  program's own code under `app/src`, a small share of the whole.
