----------------------------- MODULE ApiServer -----------------------------
(***************************************************************************)
(* The REST and gRPC services: collections of vectors under one mutex that *)
(* every handler holds from beginning to end.                              *)
(***************************************************************************)
EXTENDS HnswIndex

VARIABLE indexes

ApiInit == indexes = <<>>

\* An existing collection is an error for REST, and for gRPC a success that
\* changes nothing
CreateIndex(name, dimension) ==
    indexes' = IF name \in DOMAIN indexes THEN indexes ELSE With(indexes, name, NewIndex(dimension))

\* An unknown collection is an error
DeleteIndex(name) == indexes' = Without(indexes, name)

\* Point by point: the ones that cannot be added are reported (REST) or left
\* out of the number (gRPC), and do not keep back the others.  A point that
\* is there is one of them.
UpsertVectors(name, points) ==
    /\ name \in DOMAIN indexes
    /\ indexes[name].next_id + Len(points) <= MaxNodes
    /\ indexes' = [indexes EXCEPT ![name] =
            FoldLeft(LAMBDA index, p : IndexAdd(index, p.id, p.vector), @, points)]

SearchVectors(name, q, found) == IndexSearch(indexes[name], q, found)

\* What collection info tells
PointsCount(name) == indexes[name].count

ApiNext ==
    \/ \E name \in Names, dimension \in Dimensions : CreateIndex(name, dimension)
    \/ \E name \in Names : DeleteIndex(name)
    \/ \E name \in Names, p \in Points : UpsertVectors(name, <<p>>)
    \/ \E name \in Names, p, r \in Points : UpsertVectors(name, <<p, r>>)

\* A search tells each document once, with the distance of the vector it was
\* added with, and no more documents than the collection says it has
ApiAnswersFresh ==
    \A name \in DOMAIN indexes : \A q \in Vectors, found \in Found(indexes[name], 2) :
        LET index == indexes[name]
            answer == SearchVectors(name, q, found)
        IN  /\ MapsMirror(index)
            /\ \A i, j \in DOMAIN answer : answer[i].doc = answer[j].doc => i = j
            /\ Len(answer) <= PointsCount(name)
            /\ \A hit \in Range(answer) : \E node \in index.graph :
                  /\ node.id = index.doc_id_map[hit.doc]
                  /\ hit.distance = DistanceOf[<<q, node.vector>>]
=============================================================================
