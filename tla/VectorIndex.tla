---------------------------- MODULE VectorIndex ----------------------------
(***************************************************************************)
(* PersistentVectorIndex: a linear scan that gives way to a graph, and the *)
(* vectors in a redb file behind a cache of the ones used last.  pindex is *)
(* one index used from Rust; Search has those of the FT commands.          *)
(***************************************************************************)
EXTENDS HnswIndex

CONSTANTS
    Threshold,         \* vectors before the graph is used: 10,000
    CacheSize,         \* vectors in the cache: 10,000
    SnapshotInterval,  \* vectors between two snapshots
    OpenDimensions     \* the dimensions to open pindex with

ASSUME StorageAssumption == CacheSize \in Nat /\ DocIds \subseteq Nat

VARIABLES
    pindex,
    stored      \* the vector of each document of the last call to add it, if that stored it

-----------------------------------------------------------------------------
(* The index in memory.                                                    *)

NewVectorIndex(dimension) ==
    [dimension |-> dimension, hnsw |-> FALSE, vectors |-> <<>>, nodes |-> {},
     doc_of |-> <<>>, id_of |-> <<>>, next_id |-> 0, size |-> 0]

Fits(index, v) == DimensionOf[v] = index.dimension

LinearAdd(index, doc, v) == [index EXCEPT !.vectors = With(@, doc, v)]

\* A document keeps its id: the graph has a second node of that id
HnswInsert(index, doc, v) ==
    LET known == doc \in DOMAIN index.id_of
        id == IF known THEN index.id_of[doc] ELSE index.next_id
    IN  [index EXCEPT !.nodes = @ \union {[id |-> id, vector |-> v]},
                      !.id_of = With(@, doc, id),
                      !.doc_of = With(@, id, doc),
                      !.next_id = IF known THEN @ ELSE @ + 1]

\* The vectors are not taken along
MigrateToHnsw(index) == [index EXCEPT !.hnsw = TRUE, !.vectors = <<>>]

\* A vector that does not fit may still bring about the migration
AddVector(index, doc, v) ==
    LET i == IF index.size >= Threshold /\ ~index.hnsw THEN MigrateToHnsw(index) ELSE index
        added == IF i.hnsw THEN HnswInsert(i, doc, v) ELSE LinearAdd(i, doc, v)
    IN  IF Fits(i, v) THEN [added EXCEPT !.size = @ + 1] ELSE i

\* The graph still leads to the document
RemoveVector(index, doc) ==
    [index EXCEPT !.vectors = IF index.hnsw THEN @ ELSE Without(@, doc),
                  !.id_of = IF index.hnsw THEN Without(@, doc) ELSE @,
                  !.size = IF @ = 0 THEN 0 ELSE @ - 1]

Hit(doc, q, v) == [doc |-> doc, vector |-> v, distance |-> DistanceOf[<<q, v>>]]

LinearSearch(index, q, k) ==
    LET sorted == Nearest({Hit(doc, q, index.vectors[doc]) : doc \in DOMAIN index.vectors})
    IN  SubSeq(sorted, 1, Min({k, Len(sorted)}))

\* found is what the graph finds
HnswSearch(index, q, found) == Nearest({Hit(index.doc_of[node.id], q, node.vector) : node \in found})

SearchIndex(index, q, k, found) ==
    IF index.hnsw THEN HnswSearch(index, q, found) ELSE LinearSearch(index, q, k)

FoundBy(index, k) == {s \in SUBSET index.nodes : Cardinality(s) <= Max({k, 1})}

-----------------------------------------------------------------------------
(* The storage.                                                            *)

EmptyRedb == [vectors |-> <<>>, config |-> None]

\* lru: the entries used last come first
CachePut(cache, doc, v) ==
    LET others == Keep(cache, {entry \in Range(cache) : entry.doc # doc})
    IN  SubSeq(<<[doc |-> doc, vector |-> v]>> \o others, 1, Min({CacheSize, Len(others) + 1}))

\* The cache is updated before the file is
StoreVector(x, doc, v, fails) ==
    [x EXCEPT !.cache = CachePut(@, doc, v),
              !.redb.vectors = IF fails # "store" THEN With(@, doc, v) ELSE @]

\* Fault: the cache is left alone
StoreBatchPastCache(x, points, fails) ==
    [x EXCEPT !.redb.vectors = IF fails # "store" THEN FoldLeft(LAMBDA f, p : With(f, p.id, p.vector), @, points) ELSE @]

StoreBatch(x, points, fails) ==
    FoldLeft(LAMBDA y, p : StoreVector(y, p.id, p.vector, fails), x, points)

GetVector(x, doc) ==
    LET cached == {i \in DOMAIN x.cache : x.cache[i].doc = doc}
    IN  IF cached # {} THEN x.cache[Min(cached)].vector
        ELSE IF doc \in DOMAIN x.redb.vectors THEN x.redb.vectors[doc] ELSE None

\* A vector that was read is in the cache
ReadVector(x, doc) ==
    IF GetVector(x, doc) = None THEN x ELSE [x EXCEPT !.cache = CachePut(@, doc, GetVector(x, doc))]

-----------------------------------------------------------------------------
(* Both.                                                                   *)

\* The dimension is that of the snapshot, if there is one.  The vectors of
\* the file are not put in the index.
OpenIndex(redb, dimension) ==
    [index |-> NewVectorIndex(IF redb.config = None THEN dimension ELSE redb.config.dimension),
     redb |-> redb, cache |-> <<>>, counter |-> 0, trained |-> FALSE, codes |-> <<>>]

\* Only the metadata, of which the dimension is read again
SnapshotIndex(x) ==
    [x EXCEPT !.redb.config = [dimension |-> x.index.dimension]]

\* A snapshot that fails is tried again after the next vector
CountAdded(x, n, fails) ==
    LET y == [x EXCEPT !.counter = @ + n]
    IN  IF y.counter < SnapshotInterval \/ fails = "snapshot" THEN y
        ELSE [SnapshotIndex(y) EXCEPT !.counter = 0]

Index(x, p) == [x EXCEPT !.index = AddVector(@, p.id, p.vector)]
EncodePoint(x, p) == [x EXCEPT !.codes = IF x.trained THEN With(@, p.id, p.vector) ELSE @]

\* The commit that fails, of the vectors or of the snapshot
Failures == {"none", "store", "snapshot"}

AddPoint(x, p, fails) ==
    LET y == StoreVector(Index(x, p), p.id, p.vector, fails)
    IN  IF ~Fits(x.index, p.vector) THEN Index(x, p)
        ELSE IF fails = "store" THEN y
        ELSE CountAdded(EncodePoint(y, p), 1, fails)

-----------------------------------------------------------------------------
PindexInit ==
    /\ \E n \in OpenDimensions : pindex = OpenIndex(EmptyRedb, n)
    /\ stored = <<>>

Room(n) == pindex.index.next_id + pindex.index.size + n <= MaxNodes /\ pindex.counter + n <= MaxNodes

Add(p, fails) ==
    /\ Room(1)
    /\ pindex' = AddPoint(pindex, p, fails)
    /\ stored' = IF ~Fits(pindex.index, p.vector) THEN stored
                 ELSE IF fails # "store" THEN With(stored, p.id, p.vector) ELSE Without(stored, p.id)

\* A vector that does not fit ends the call: those before it are in the
\* index, and none is stored
AddBatch(p, r, fails) ==
    LET Fit(z) == Fits(pindex.index, z.vector)
        reached == IF Fit(p) THEN <<p, r>> ELSE <<p>>
        Put(x, z) == IF Fit(z) THEN EncodePoint(Index(x, z), z) ELSE Index(x, z)
        indexed == FoldLeft(Put, pindex, reached)
        fit == Fit(p) /\ Fit(r)
        batched == IF fit THEN StoreBatch(indexed, <<p, r>>, fails) ELSE indexed
    IN  /\ Room(2)
        /\ IF fit /\ fails # "store"
           THEN /\ pindex' = CountAdded(batched, 2, fails)
                /\ stored' = With(With(stored, p.id, p.vector), r.id, r.vector)
           ELSE /\ pindex' = batched
                /\ stored' = Restrict(stored, DOMAIN stored \ {z.id : z \in {y \in Range(reached) : Fit(y)}})

\* Not from the storage
RemoveDoc(doc) ==
    /\ pindex' = [pindex EXCEPT !.index = RemoveVector(@, doc)]
    /\ UNCHANGED stored

\* The vectors of the documents 0, 1, ... up to the size are read and encoded
TrainQuantizer ==
    LET ids == {doc \in DocIds : doc < pindex.index.size /\ GetVector(pindex, doc) # None}
        read == FoldLeft(ReadVector, pindex, InOrder(ids, <))
    IN  /\ ids # {}
        /\ pindex' = [read EXCEPT !.trained = TRUE,
                                  !.codes = [doc \in DOMAIN @ \union ids |->
                                               IF doc \in ids THEN GetVector(pindex, doc) ELSE @[doc]]]
        /\ UNCHANGED stored

Snapshot == pindex' = SnapshotIndex(pindex) /\ UNCHANGED stored

\* A reader of the storage, such as a search that ranks again
Get(doc) == pindex' = ReadVector(pindex, doc) /\ UNCHANGED stored

Reopen(dimension) == pindex' = OpenIndex(pindex.redb, dimension) /\ UNCHANGED stored

PindexNext ==
    \/ \E p \in Points, fails \in Failures : Add(p, fails)
    \/ \E p, r \in Points, fails \in Failures : AddBatch(p, r, fails)
    \/ \E doc \in DocIds : RemoveDoc(doc) \/ Get(doc)
    \/ TrainQuantizer \/ Snapshot
    \/ \E n \in OpenDimensions : Reopen(n)

\* With a quantizer, five times the limit are ranked by their stored vectors
SearchPersistent(x, q, k, found) ==
    LET Ranked(hit) == [hit EXCEPT !.vector = GetVector(x, hit.doc),
                                   !.distance = DistanceOf[<<q, GetVector(x, hit.doc)>>]]
        hits == SearchIndex(x.index, q, 5 * k, found)
        candidates == Keep(hits, {hit \in Range(hits) : GetVector(x, hit.doc) # None})
        ranked == [i \in DOMAIN candidates |-> Ranked(candidates[i])]
        order == InOrder(DOMAIN ranked, LAMBDA i, j :
                     \/ ranked[i].distance < ranked[j].distance
                     \/ ranked[i].distance = ranked[j].distance /\ i < j)
    IN  IF x.trained THEN [p \in 1 .. Min({k, Len(ranked)}) |-> ranked[order[p]]]
        ELSE SearchIndex(x.index, q, k, found)

\* A vector that a call said is stored (persistent_index.rs:70) is the one
\* that the storage returns, from the cache or the file, whatever was evicted,
\* failed, removed, or opened again since; its code is of that vector; and a
\* search that scans or that ranks again tells its distance.
StoredWhenAnswered ==
    \A doc \in DOMAIN stored :
        /\ GetVector(pindex, doc) = stored[doc]
        /\ doc \in DOMAIN pindex.codes => pindex.codes[doc] = stored[doc]
        /\ pindex.trained \/ ~pindex.index.hnsw =>
             \A q \in Vectors : Fits(pindex.index, q) =>
               \A found \in FoundBy(pindex.index, 5) :
                 \A hit \in Range(SearchPersistent(pindex, q, 1, found)) :
                   hit.doc = doc => hit.distance = DistanceOf[<<q, stored[doc]>>]
=============================================================================
