----------------------------- MODULE HnswIndex -----------------------------
(***************************************************************************)
(* HnswVectorIndex: the graph of the hnsw_rs crate and the two maps that   *)
(* tie its internal ids to documents.  The graph only grows, and what it   *)
(* finds for a query is any small enough set of its nodes.                 *)
(***************************************************************************)
EXTENDS Naturals, Sequences, SortedLists

CONSTANTS
    Vectors,
    DimensionOf,   \* the length of each vector
    DistanceOf,    \* [Vectors \X Vectors -> Nat], as the graph measures it
    Names,         \* of indexes and collections
    Dimensions,
    DocIds,
    Points,        \* the pairs of a document and a vector to add
    MaxNodes,      \* bound on the vectors added
    None

ASSUME VectorsAssumption ==
    /\ DistanceOf \in [Vectors \X Vectors -> Nat]
    /\ Points \subseteq [id : DocIds, vector : Vectors]

NewIndex(dimension) ==
    [dimension |-> dimension, graph |-> {}, doc_id_map |-> <<>>, id_to_doc |-> <<>>,
     next_id |-> 0, count |-> 0]

Without(f, x) == Restrict(f, DOMAIN f \ {x})
With(f, x, y) == [z \in DOMAIN f \union {x} |-> IF z = x THEN y ELSE f[z]]

\* Other dimensions and documents that are there are errors
CanAdd(index, doc, v) == DimensionOf[v] = index.dimension /\ doc \notin DOMAIN index.doc_id_map

IndexAdd(index, doc, v) ==
    IF ~CanAdd(index, doc, v) THEN index
    ELSE [index EXCEPT !.graph = @ \union {[id |-> index.next_id, vector |-> v]},
                       !.doc_id_map = With(@, doc, index.next_id),
                       !.id_to_doc = With(@, index.next_id, doc),
                       !.next_id = @ + 1,
                       !.count = @ + 1]

\* The vector stays in the graph
IndexRemove(index, doc) ==
    IF doc \notin DOMAIN index.doc_id_map THEN index
    ELSE [index EXCEPT !.doc_id_map = Without(@, doc),
                       !.id_to_doc = Without(@, index.doc_id_map[doc]),
                       !.count = IF @ = 0 THEN 0 ELSE @ - 1]

\* What the graph may find for k neighbours
Found(index, k) == {s \in SUBSET index.graph : Cardinality(s) <= Max({k, 1})}

Nearest(hits) == InOrder(hits, LAMBDA a, b : a.distance < b.distance)

\* The documents of what was found, nearest first; a query of another
\* dimension is an error
IndexSearch(index, q, found) ==
    LET Hit(node) == [doc |-> index.id_to_doc[node.id], distance |-> DistanceOf[<<q, node.vector>>], id |-> node.id]
        hits == {Hit(node) : node \in {n \in found : n.id \in DOMAIN index.id_to_doc}}
    IN  IF DimensionOf[q] # index.dimension THEN <<>>
        ELSE Nearest(hits)

\* Each document has one internal id that leads back to it, and is counted
MapsMirror(index) ==
    /\ index.count = Cardinality(DOMAIN index.doc_id_map)
    /\ DOMAIN index.id_to_doc = Range(index.doc_id_map)
    /\ \A doc \in DOMAIN index.doc_id_map : index.id_to_doc[index.doc_id_map[doc]] = doc
=============================================================================
