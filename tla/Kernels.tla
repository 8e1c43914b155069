------------------------------ MODULE Kernels ------------------------------
(***************************************************************************)
(* The arithmetic of vectors, over integers: sums kept in the lanes of a   *)
(* register and added up at the end, late interaction scores over flat     *)
(* arrays, scalar quantization in blocks, and product quantization.        *)
(* Rounding of floats is left out, but for the scale of a block, which is  *)
(* stored as a half and may overflow it.  A score <<n, d>> stands for n     *)
(* over the square root of d; a distance stands for its square.            *)
(***************************************************************************)
EXTENDS Integers, Sequences, SequencesExt

CONSTANTS
    Entries,          \* the pairs of numbers a pair of vectors grows by
    MaxDims,          \* bound on the length of the vectors
    SignificandBits,  \* of a half: 11
    MaxExponent,      \* of a half: 29, its smallest number being 1
    CodeValues,       \* of a u8: 256
    Infinity, NegInfinity, NaN

VARIABLE operands     \* two vectors of one length, as a sequence of pairs

Absolute(n) == IF n < 0 THEN -n ELSE n
MaxOr(f, none) == FoldFunction(LAMBDA x, y : IF x > y THEN x ELSE y, none, f)
Products(a, b) == [i \in DOMAIN a |-> a[i] * b[i]]
SquaredDiffs(a, b) == [i \in DOMAIN a |-> (a[i] - b[i]) * (a[i] - b[i])]
\* The i-th of the rows of w numbers in a flat array, from 0
Row(flat, w, i) == SubSeq(flat, i * w + 1, (i + 1) * w)

-----------------------------------------------------------------------------
(* Lanes.  p holds what each position adds.                                *)

Width(kernel) ==
    CASE kernel = "avx512" -> 16
      [] kernel \in {"avx2", "fma"} -> 8
      [] OTHER -> 4

Register(p, w) == [l \in 0 .. w - 1 |-> SumFunction([c \in 0 .. Len(p) \div w - 1 |-> p[c * w + l + 1]])]

\* movehdup, add, movehl, add of the lowest lane
HorizontalSse(r) ==
    LET sums == [l \in 0 .. 3 |-> r[l] + r[IF l < 2 THEN 1 ELSE 3]]
    IN  sums[0] + sums[2]
HorizontalAvx(r) == HorizontalSse([l \in 0 .. 3 |-> r[l + 4] + r[l]])
\* The two halves, movehl, and the second lane shuffled to the lowest
HorizontalFma(r) ==
    LET sum128 == [l \in 0 .. 3 |-> r[l] + r[l + 4]]
        sum64 == [l \in 0 .. 1 |-> sum128[l] + sum128[l + 2]]
    IN  sum64[0] + sum64[1]

HorizontalSum(kernel, r) ==
    CASE kernel = "sse" -> HorizontalSse(r)
      [] kernel = "avx2" -> HorizontalAvx(r)
      [] kernel = "fma" -> HorizontalFma(r)
      [] OTHER -> SumFunction(r)                      \* one instruction

RemainderSum(p, w) ==
    LET start == (Len(p) \div w) * w
    IN  SumFunction([i \in start + 1 .. Len(p) |-> p[i]])

\* Fault: the remainder begins a register too early when there is a whole one
LaneSumEarly(kernel, p) ==
    LET w == Width(kernel)
        start == Len(p) - w
    IN  HorizontalSum(kernel, Register(p, w))
          + (IF Len(p) > w /\ Len(p) % w # 0 THEN SumFunction([i \in start + 1 .. Len(p) |-> p[i]])
             ELSE RemainderSum(p, w))

LaneSum(kernel, p) ==
    HorizontalSum(kernel, Register(p, Width(kernel))) + RemainderSum(p, Width(kernel))

Cosine(dot, normA, normB) == IF normA = 0 \/ normB = 0 THEN <<0, 1>> ELSE <<dot, normA * normB>>

InnerProduct(kernel, a, b) == LaneSum(kernel, Products(a, b))
Euclidean(kernel, a, b) == LaneSum(kernel, SquaredDiffs(a, b))
CosineSimilarity(kernel, a, b) ==
    Cosine(InnerProduct(kernel, a, b), InnerProduct(kernel, a, a), InnerProduct(kernel, b, b))

InnerProductScalar(a, b) == SumFunction(Products(a, b))
EuclideanScalar(a, b) == SumFunction(SquaredDiffs(a, b))
CosineScalar(a, b) ==
    Cosine(SumFunction(Products(a, b)), SumFunction(Products(a, a)), SumFunction(Products(b, b)))

-----------------------------------------------------------------------------
(* Scalar quantization: a block of vectors shares the scale of its largest *)
(* number, and a decoded number stands for itself times 127.               *)

\* f32::round, half away from zero, of n / d
Round(n, d) == LET q == (2 * Absolute(n) + d) \div (2 * d) IN IF n < 0 THEN -q ELSE q
Clamp(n) == IF n > 127 THEN 127 ELSE IF n < -127 THEN -127 ELSE n

\* f16::from_f32: to the nearest half, to the even one between two, and to
\* infinity from half a step beyond the largest (65504)
Half(n) ==
    LET e == CHOOSE x \in 0 .. n : n < 2^(SignificandBits + x) /\ (x = 0 \/ n >= 2^(SignificandBits + x - 1))
        q == n \div 2^e
        r == n % 2^e
        up == 2 * r > 2^e \/ (2 * r = 2^e /\ q % 2 = 1)
        nearest == (IF up THEN q + 1 ELSE q) * 2^e
    IN  IF nearest > (2^SignificandBits - 1) * 2^MaxExponent THEN Infinity ELSE nearest

\* A number times a scale, as f32 has it
Scaled(n, scale) ==
    CASE scale # Infinity -> n * scale
      [] scale = Infinity /\ n = 0 -> NaN
      [] scale = Infinity /\ n > 0 -> Infinity
      [] scale = Infinity /\ n < 0 -> NegInfinity

BlockScale(vectors) == MaxOr([i \in DOMAIN vectors |-> Absolute(vectors[i])], 0)

\* The numbers of the block that holds position i
BlockOf(vectors, i, dims, block) ==
    LET b == ((i - 1) \div dims) \div block
        end == Min({(b + 1) * block, Len(vectors) \div dims})
    IN  SubSeq(vectors, b * block * dims + 1, end * dims)

Encode(vectors, dims, block) ==
    LET n == Len(vectors) \div dims
        Scale(i) == BlockScale(BlockOf(vectors, i, dims, block))
    IN  [codes |-> [i \in 1 .. n * dims |->
                      IF Scale(i) > 0 THEN Clamp(Round(127 * vectors[i], Scale(i))) ELSE 0],
         aux |-> [b \in 1 .. (n + block - 1) \div block |-> Half(Scale((b - 1) * block * dims + 1))]]

Decode(encoded, dims, block) ==
    [i \in DOMAIN encoded.codes |->
        Scaled(encoded.codes[i], encoded.aux[((i - 1) \div dims) \div block + 1])]

\* A quantizer of its own scale and offset for each dimension, in 254ths
TrainedScale(vectors, dims, d) ==
    LET column == {vectors[i * dims + d] : i \in 0 .. Len(vectors) \div dims - 1}
        range == Max(column) - Min(column)
    IN  [range |-> IF range > 0 THEN range ELSE 254, offset |-> 2 * Min(column) + range]
CodeOf(scale, v) == Clamp(Round(127 * (2 * v - scale.offset), scale.range))
DecodedOf(scale, code) == code * scale.range + 127 * scale.offset

-----------------------------------------------------------------------------
(* Late interaction: for each query token the best patch, all added up.    *)
(* With codes, a patch is scaled by its block, in 127ths.                  *)

DotProduct(kernel, q, patch) ==
    IF kernel = "scalar" THEN InnerProductScalar(q, patch) ELSE InnerProduct(kernel, q, patch)

\* f32::max from NEG_INFINITY on passes over NaN
BestSim(sims) ==
    LET finite == Range(sims) \ {Infinity, NegInfinity, NaN}
    IN  CASE Infinity \in Range(sims) -> Infinity
          [] Infinity \notin Range(sims) /\ finite # {} -> Max(finite)
          [] OTHER -> NegInfinity

BestSims(sims) ==
    LET best == [t \in DOMAIN sims |-> BestSim(sims[t])]
    IN  CASE {Infinity, NegInfinity} \subseteq Range(best) -> NaN
          [] Infinity \in Range(best) /\ NegInfinity \notin Range(best) -> Infinity
          [] NegInfinity \in Range(best) /\ Infinity \notin Range(best) -> NegInfinity
          [] OTHER -> SumFunction(best)

MaxSim(kernel, tokens, patches, dims) ==
    BestSims([t \in 0 .. Len(tokens) \div dims - 1 |->
        [p \in 0 .. Len(patches) \div dims - 1 |->
            DotProduct(kernel, Row(tokens, dims, t), Row(patches, dims, p))]])

MaxSimSq8(kernel, tokens, encoded, dims, block) ==
    BestSims([t \in 0 .. Len(tokens) \div dims - 1 |->
        [p \in 0 .. Len(encoded.codes) \div dims - 1 |->
            Scaled(DotProduct(kernel, Row(tokens, dims, t), Row(encoded.codes, dims, p)),
                   IF p \div block < Len(encoded.aux) THEN encoded.aux[p \div block + 1] ELSE 1)]])

-----------------------------------------------------------------------------
(* Product quantization: the vector is cut into as many parts as there are *)
(* codebooks, and the code of a part is the first of the nearest entries   *)
(* of its book, cut to a byte: with more entries than a byte counts it may *)
(* be another's.  How training picks the entries is left out.              *)

Part(books, v, m) == Row(v, Len(v) \div Len(books), m - 1)
PartDistances(books, v) ==
    [m \in DOMAIN books |-> [j \in DOMAIN books[m] |-> EuclideanScalar(Part(books, v, m), books[m][j])]]
PqEncode(books, v) ==
    [m \in DOMAIN books |->
        LET dist == PartDistances(books, v)[m]
            best == Min({j \in DOMAIN dist : dist[j] = Min(Range(dist))})
        IN  ((best - 1) % CodeValues) + 1]
PqDecode(books, code) == FlattenSeq([m \in DOMAIN books |-> books[m][code[m]]])
DistanceAdc(books, q, code) ==
    SumFunction([m \in DOMAIN books |-> EuclideanScalar(Part(books, q, m), books[m][code[m]])])
DistanceWithTable(table, code) == SumFunction([m \in DOMAIN table |-> table[m][code[m]]])

-----------------------------------------------------------------------------
KernelInit == operands = <<>>
Grow ==
    /\ Len(operands) < MaxDims
    /\ \E e \in Entries[(Len(operands) % Len(Entries)) + 1] : operands' = Append(operands, e)

-----------------------------------------------------------------------------
(* What the kernels promise of the two vectors grown so far.               *)

Kernels == {"avx512", "avx2", "fma", "sse", "neon"}
Left == [i \in DOMAIN operands |-> operands[i][1]]
Right == [i \in DOMAIN operands |-> operands[i][2]]
Whole(v, dims) == SubSeq(v, 1, (Len(v) \div dims) * dims)

\* A kernel adds up every position once, whatever the length
LanesAddUp ==
    \A k \in Kernels :
        /\ InnerProduct(k, Left, Right) = InnerProductScalar(Left, Right)
        /\ Euclidean(k, Left, Right) = EuclideanScalar(Left, Right)
        /\ CosineSimilarity(k, Left, Right) = CosineScalar(Left, Right)

\* Numbers of a block whose scale a half holds come back from their codes
\* within half a step, and what the rounding of the scale adds; if a half holds
\* every scale, the score of the codes is that of what they decode to, blocks of
\* one scale and the last, shorter one among them
BlocksDecode(dims, block) ==
    LET encoded == Encode(Right, dims, block)
        decoded == Decode(encoded, dims, block)
    IN  /\ \A i \in DOMAIN decoded :
              LET scale == BlockScale(BlockOf(Right, i, dims, block))
              IN  Half(scale) # Infinity =>
                    2 * Absolute(decoded[i] - 127 * Right[i]) <= scale + 254 * Absolute(Half(scale) - scale)
        /\ \A k \in {"scalar", "fma", "neon"} :
              /\ Infinity \notin Range(encoded.aux) =>
                    MaxSimSq8(k, Left, encoded, dims, block) = MaxSim("scalar", Left, decoded, dims)
              /\ MaxSim(k, Left, Right, dims) = MaxSim("scalar", Left, Right, dims)

\* Each dimension's scale brings the numbers it was trained on back within
\* half a step
ColumnsDecode(dims) ==
    \A i \in DOMAIN Whole(Right, dims) :
        LET scale == TrainedScale(Whole(Right, dims), dims, ((i - 1) % dims) + 1)
        IN  2 * Absolute(DecodedOf(scale, CodeOf(scale, Right[i])) - 254 * Right[i]) <= scale.range

\* The code of a vector is the nearest of all codes, if a byte tells them apart,
\* and the distance to a code, from the table or not, is that to what it decodes to
CodesNearest(books) ==
    LET code == PqEncode(books, Right)
    IN  /\ Len(books[1]) <= CodeValues => \A other \in [DOMAIN books -> DOMAIN books[1]] :
              DistanceAdc(books, Right, code) <= DistanceAdc(books, Right, other)
        /\ DistanceAdc(books, Left, code) = EuclideanScalar(Left, PqDecode(books, code))
        /\ DistanceAdc(books, Left, code) = DistanceWithTable(PartDistances(books, Left), code)

\* Two books of k entries, cut to the length of a part
Books(n, k) == [m \in 1 .. 2 |-> [j \in 1 .. k |-> [i \in 1 .. n |-> ((i + m) % 3) + 4 - j]]]

\* The kernels for every processor compute one function, and codes stand
\* for what they were made from, but for a block whose scale overflows a half
\* and for books of more entries than a byte counts (simd_metrics.rs, maxsim.rs,
\* codec.rs and the quantizers).
KernelsAgree ==
    operands # <<>> =>
      /\ LanesAddUp
      /\ \A dims \in 1 .. 3 :
            /\ \A block \in 1 .. 2 : BlocksDecode(dims, block)
            /\ Len(Right) >= dims => ColumnsDecode(dims)
      /\ Len(operands) % 2 = 0 =>
            \A k \in 2 .. CodeValues + 1 : CodesNearest(Books(Len(operands) \div 2, k))
=============================================================================
