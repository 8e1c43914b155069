----------------------------- MODULE GpuIndexes -----------------------------
(***************************************************************************)
(* The flat index and the inverted file index of the gpu crate: vectors    *)
(* padded to a stride and scanned, on the processor or by a shader, and    *)
(* vectors kept in the list of their nearest centroid, as they are or      *)
(* quantized, with the lists of a few centroids searched.                  *)
(***************************************************************************)
EXTENDS Kernels

CONSTANTS
    Dim,           \* length of the vectors
    Alignments,    \* the strides to try are the next multiple of these
    GpuVectors, GpuIds,
    MaxPoints,     \* bound on the points of an index
    Clusters,      \* number of inverted lists
    Quantizers,    \* the quantizers to try
    Quantized      \* what a vector decodes to after quantization

VARIABLES flat, ivf

IsSimilarity(metric) == metric \in {"Cosine", "InnerProduct"}
Score(metric, a, b) ==
    CASE metric = "L2" -> <<EuclideanScalar(a, b), 1>>
      [] metric = "Cosine" -> CosineScalar(a, b)
      [] metric = "InnerProduct" -> <<InnerProductScalar(a, b), 1>>

\* s is the larger score: n over the root of d, compared by their squares
Above(s, t) ==
    LET Signed(n) == n * Absolute(n)
    IN  Signed(s[1]) * t[2] > Signed(t[1]) * s[2]
Better(metric, s, t) == IF IsSimilarity(metric) THEN Above(s, t) ELSE Above(t, s)

\* sort_by, which is stable, and truncate
Ranked(metric, results, k) ==
    LET Before(i, j) ==
            \/ Better(metric, results[i].score, results[j].score)
            \/ ~Better(metric, results[j].score, results[i].score) /\ i < j
        order == SortSeq([i \in DOMAIN results |-> i], Before)
    IN  [p \in 1 .. Min({k, Len(results)}) |-> results[order[p]]]

Result(id, score) == [id |-> id, score |-> score]

-----------------------------------------------------------------------------
(* The flat index.                                                         *)

StrideOf(alignment) ==
    IF alignment > 0 THEN ((Dim + alignment - 1) \div alignment) * alignment ELSE Dim

FlatIndex(metric, alignment) ==
    [metric |-> metric, stride |-> StrideOf(alignment), data |-> <<>>, count |-> 0, ids |-> <<>>]

\* Fault: positions are counted without the padding
VectorAtDim(index, i) == SubSeq(index.data, i * Dim + 1, i * Dim + Dim)

\* The i-th vector, from 0
VectorAt(index, i) == SubSeq(index.data, i * index.stride + 1, i * index.stride + Dim)

\* The positions are recorded by id too, the last one of each id
FlatAdd(index, points) ==
    LET padding == [i \in 1 .. index.stride - Dim |-> 0]
    IN  [index EXCEPT
           !.data = @ \o FlattenSeq([i \in DOMAIN points |-> points[i].vector \o padding]),
           !.count = @ + Len(points),
           !.ids = @ \o [i \in DOMAIN points |-> points[i].id]]

SearchCpu(index, q, k) ==
    Ranked(index.metric,
           [i \in 1 .. index.count |-> Result(index.ids[i], Score(index.metric, q, VectorAt(index, i - 1)))], k)

\* The shader is not told the stride: the vectors follow each other without
\* a gap for it
ShaderScores(index, q) ==
    [i \in 1 .. index.count |-> Score(index.metric, q, Row(index.data, Dim, i - 1))]
SearchWgpu(index, q, k) ==
    LET scores == ShaderScores(index, q)
    IN  Ranked(index.metric, [i \in 1 .. index.count |-> Result(index.ids[i], scores[i])], k)

-----------------------------------------------------------------------------
(* The inverted file index.                                                *)

IvfIndex(metric, quantizer) ==
    [metric |-> metric, quantizer |-> quantizer, trained |-> FALSE, centroids |-> <<>>,
     lists |-> [c \in 1 .. Clusters |-> <<>>], total_vectors |-> 0]

\* The first of the best
NearestCluster(index, v) ==
    LET score == [c \in 1 .. Clusters |-> Score(index.metric, v, index.centroids[c])]
    IN  Min({c \in 1 .. Clusters : \A d \in 1 .. Clusters : ~Better(index.metric, score[d], score[c])})

NearestClusters(index, q, k) ==
    Ranked(index.metric,
           [c \in 1 .. Clusters |-> Result(c, Score(index.metric, q, index.centroids[c]))], k)

Stored(index, v) == IF index.quantizer = "None" THEN v ELSE Quantized[v]

\* The distance of product quantization is that of L2 under every metric,
\* and is ranked like a similarity where the metric is one
ScoreStored(index, q, v) ==
    CASE index.quantizer = "None" -> Score(index.metric, q, v)
      [] index.quantizer = "SQ8" ->
            IF index.metric = "L2" THEN Score("L2", q, v) ELSE Score("InnerProduct", q, v)
      [] index.quantizer = "PQ" -> Score("L2", q, v)

SearchCluster(index, c, q, k) ==
    LET list == index.lists[c]
    IN  Ranked(index.metric,
               [i \in DOMAIN list |-> Result(list[i].id, ScoreStored(index, q, list[i].vector))], k)

SearchIvf(index, q, k, probes) ==
    LET clusters == NearestClusters(index, q, probes)
        found == [c \in DOMAIN clusters |-> SearchCluster(index, clusters[c].id, q, k)]
    IN  Ranked(index.metric, FlattenSeq(found), k)

AddToList(index, p) ==
    [index EXCEPT !.lists[NearestCluster(index, p.vector)] =
        Append(@, [id |-> p.id, vector |-> Stored(index, p.vector)])]

\* Nothing is added before the training
IvfAdd(index, points) ==
    IF ~index.trained THEN index
    ELSE [FoldLeft(AddToList, index, points) EXCEPT !.total_vectors = @ + Len(points)]

-----------------------------------------------------------------------------
GpuInit ==
    \E metric \in {"L2", "Cosine", "InnerProduct"}, alignment \in Alignments, quantizer \in Quantizers :
        /\ flat = FlatIndex(metric, alignment)
        /\ ivf = IvfIndex(metric, quantizer)

GpuPoints == [id : GpuIds, vector : GpuVectors]

\* An add of several points; other numbers of ids and vectors are refused
AddPoints(points) ==
    /\ flat.count + Len(points) <= MaxPoints
    /\ flat' = FlatAdd(flat, points)
    /\ ivf' = IvfAdd(ivf, points)

\* The centroids are those of k-means over the training data, any here.  A
\* second training leaves the lists as the first one made them.
TrainIvf ==
    /\ \E centroids \in [1 .. Clusters -> GpuVectors] :
          ivf' = [ivf EXCEPT !.centroids = centroids, !.trained = TRUE]
    /\ UNCHANGED flat

ClearIndexes ==
    /\ flat' = [flat EXCEPT !.data = <<>>, !.count = 0, !.ids = <<>>]
    /\ ivf' = [ivf EXCEPT !.lists = [c \in 1 .. Clusters |-> <<>>], !.total_vectors = 0]

GpuNext ==
    \/ \E p \in GpuPoints : AddPoints(<<p>>)
    \/ \E p, q \in GpuPoints : AddPoints(<<p, q>>)
    \/ TrainIvf
    \/ ClearIndexes

-----------------------------------------------------------------------------
Times(x, seq) == Cardinality({i \in DOMAIN seq : seq[i] = x})

\* results are the k best of the points, best first
IsTopK(metric, results, points, q, k) ==
    LET Scored(i) == Result(points[i].id, Score(metric, q, points[i].vector))
        scored == [i \in DOMAIN points |-> Scored(i)]
    IN  /\ Len(results) = Min({k, Len(points)})
        /\ \A i \in 1 .. Len(results) - 1 : ~Better(metric, results[i + 1].score, results[i].score)
        /\ \A i \in DOMAIN results : Times(results[i], results) <= Times(results[i], scored)
        /\ \A i \in DOMAIN points :
              Times(scored[i], results) < Times(scored[i], scored) =>
                  ~Better(metric, Scored(i).score, Last(results).score)

FlatPoints == [i \in 1 .. flat.count |-> [id |-> flat.ids[i], vector |-> VectorAt(flat, i - 1)]]
IvfPoints == FlattenSeq(ivf.lists)

\* The scores of the stored vectors are those of the metric.  They are not
\* for product quantization under a similarity, where the farthest vectors
\* come first, and for scalar quantization under Cosine, where nothing is
\* normalized.
RanksByMetric ==
    \/ ivf.quantizer = "None"
    \/ ivf.metric = "L2"
    \/ ivf.quantizer = "SQ8" /\ ivf.metric = "InnerProduct"

\* A search of the flat index (flat_index.rs:212) finds the k best of what
\* was added, on the processor and, where the stride is the dimension, by the
\* shader.  So does one of the inverted file (ivf.rs:345) among what it
\* stores, if it probes every list, however often it was trained; what it
\* holds unquantized is in the flat index too, and what it counts is what its
\* lists hold.
SearchesFindBest ==
    /\ flat.count > 0 => \A q \in GpuVectors, k \in 1 .. MaxPoints :
          /\ IsTopK(flat.metric, SearchCpu(flat, q, k), FlatPoints, q, k)
          /\ flat.stride = Dim => SearchWgpu(flat, q, k) = SearchCpu(flat, q, k)
          /\ ivf.trained /\ RanksByMetric =>
                IsTopK(ivf.metric, SearchIvf(ivf, q, k, Clusters), IvfPoints, q, k)
    /\ ivf.quantizer = "None" =>
          \A p \in Range(IvfPoints) : Times(p, IvfPoints) <= Times(p, FlatPoints)
    /\ Len(IvfPoints) = ivf.total_vectors
=============================================================================
