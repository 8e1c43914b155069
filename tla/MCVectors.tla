----------------------------- MODULE MCVectors -----------------------------
(***************************************************************************)
(* A small instance of the modules about vectors.  They share no state, so *)
(* that each is checked with the others in their initial states.           *)
(***************************************************************************)
EXTENDS GpuIndexes, ApiServer, Qdrant, Search

\* For the kernels: seven positions, each with one or two pairs, over and over.
\* With two bits and the exponent 2, a half rounds 5 and 7 and overflows at 14.
SmallEntries ==
    <<{<<1, 2>>, <<-2, 5>>}, {<<3, -1>>}, {<<0, 4>>}, {<<2, 7>>, <<-1, 0>>},
      {<<1, -3>>}, {<<-4, 14>>}, {<<5, 1>>}>>

SomeGpuVectors == {<<1, 0>>, <<2, 1>>, <<0, -2>>}
FirstOnly == [v \in SomeGpuVectors |-> <<v[1], 0>>]

\* Two vectors of the dimension 1, and one of another
SomeVectors == {"near", "far", "long"}
SmallDimension == [v \in SomeVectors |-> IF v = "long" THEN 2 ELSE 1]
SmallDistance ==
    [p \in SomeVectors \X SomeVectors |->
        IF p[1] = p[2] THEN 0 ELSE IF "near" \in {p[1], p[2]} THEN 1 ELSE 2]
Point(d, v) == [id |-> d, vector |-> v]
SomePoints == {Point(0, "near"), Point(0, "far"), Point(1, "near"), Point(1, "long")}
Payload(d, v, colour) == [id |-> d, vector |-> v, payload |-> colour]
SomeQdrantPoints == {Payload(1, "near", "red"), Payload(1, "far", "blue"), Payload(2, "near", "blue"), Payload(2, "long", "red")}
OwnFile == [name \in Names |-> name]
Red == {{"red"}}

KernelsRest == KernelInit
GpuRest == flat = FlatIndex("L2", 0) /\ ivf = IvfIndex("L2", "None")
ApiRest == ApiInit
QdrantRest == QdrantInit
PindexRest == pindex = OpenIndex(EmptyRedb, 1) /\ stored = <<>>
FtRest == FtInit /\ storage_mode = "in-memory"

gpu == <<flat, ivf>>
library == <<pindex, stored>>

MCInit ==
    /\ KernelInit /\ ApiInit /\ QdrantInit
    /\ \/ GpuInit /\ PindexRest /\ FtRest
       \/ GpuRest /\ PindexInit /\ FtRest
       \/ GpuRest /\ PindexRest /\ FtInit

MCArithmetic ==
    /\ ApiRest /\ QdrantRest /\ PindexRest /\ FtRest
    /\ \/ GpuRest /\ Grow /\ UNCHANGED gpu
       \/ KernelsRest /\ GpuNext /\ UNCHANGED operands
    /\ UNCHANGED <<indexes, qdrant, library, ft>>
MCApis ==
    /\ KernelsRest /\ GpuRest /\ PindexRest /\ FtRest
    /\ \/ QdrantRest /\ ApiNext /\ UNCHANGED qdrant
       \/ ApiRest /\ QdrantNext /\ UNCHANGED indexes
    /\ UNCHANGED <<operands, gpu, library, ft>>
MCIndexes ==
    /\ KernelsRest /\ GpuRest /\ ApiRest /\ QdrantRest
    /\ \/ FtRest /\ PindexNext /\ UNCHANGED ft
       \/ PindexRest /\ FtNext /\ UNCHANGED library
    /\ UNCHANGED <<operands, gpu, indexes, qdrant>>
MCNext == MCArithmetic \/ MCApis \/ MCIndexes
MCSpec == MCInit /\ [][MCNext]_<<operands, gpu, indexes, qdrant, library, ft>>

FreshAnswers == ApiAnswersFresh /\ QdrantAnswersFresh
StorageAnswers == StoredWhenAnswered /\ SearchTellsStored
=============================================================================
