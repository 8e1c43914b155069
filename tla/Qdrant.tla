------------------------------- MODULE Qdrant -------------------------------
(***************************************************************************)
(* The Qdrant compatible service: collections of points with payloads over *)
(* HnswVectorIndex, and a file per collection that is written anew after   *)
(* each change and read when the service starts.  A handler holds the      *)
(* mutex to its end, so that its change of memory is one step; the steps   *)
(* on the disk are told apart, for the process may end between them.       *)
(***************************************************************************)
EXTENDS HnswIndex, Integers

CONSTANTS
    PointIds,
    QdrantPoints,  \* the points to add: an id, a vector and a payload
    FileOf,      \* sanitize_name: the stem of the file of each collection
    Metrics,
    Conditions,  \* of a filter: sets of the payloads that match
    Torn

VARIABLES
    collections,
    disk,        \* contents by path
    saving,      \* what the handler that holds the mutex has left to do on the disk
    unsaved      \* the collections that differ from their file: a request was
                 \* refused half way, or the disk failed

qdrant == <<collections, disk, saving, unsaved>>

Payloads == {p.payload : p \in QdrantPoints}

\* What the file of a collection holds
Snapshots ==
    [dimension : Dimensions, distance : Metrics,
     points : UNION {[ids -> [vector : Vectors, payload : Payloads]] : ids \in SUBSET PointIds}]

ASSUME QdrantAssumption ==
    /\ IsFiniteSet(PointIds)
    /\ QdrantPoints \subseteq [id : PointIds, vector : Vectors, payload : Payloads]
    /\ Torn \notin Snapshots
    /\ None \notin [name : Names, step : {"write", "fill", "rename", "remove"}]

NewCollection(dimension, distance) ==
    [index |-> NewIndex(dimension), distance |-> distance, points |-> <<>>,
     id_to_uid |-> <<>>, uid_to_id |-> <<>>, next_uid |-> 0]

\* Fault: the old uid of the point stays in place
UpsertKeepsOld(c, p) ==
    [c EXCEPT !.next_uid = @ + 1,
              !.index = IndexAdd(c.index, c.next_uid, p.vector),
              !.id_to_uid = With(@, p.id, c.next_uid),
              !.uid_to_id = With(@, c.next_uid, p.id),
              !.points = With(@, p.id, [vector |-> p.vector, payload |-> p.payload])]

\* A point that is there loses its old uid before the new one is added
Upsert(c, p) ==
    LET known == p.id \in DOMAIN c.id_to_uid
        old == c.id_to_uid[p.id]
        index == IF known THEN IndexRemove(c.index, old) ELSE c.index
        uids == IF known THEN Without(c.uid_to_id, old) ELSE c.uid_to_id
    IN  [c EXCEPT !.next_uid = @ + 1,
                  !.index = IndexAdd(index, c.next_uid, p.vector),
                  !.id_to_uid = With(@, p.id, c.next_uid),
                  !.uid_to_id = With(uids, c.next_uid, p.id),
                  !.points = With(@, p.id, [vector |-> p.vector, payload |-> p.payload])]

DeleteById(c, id) ==
    LET known == id \in DOMAIN c.id_to_uid
        uid == c.id_to_uid[id]
    IN  [c EXCEPT !.index = IF known THEN IndexRemove(@, uid) ELSE @,
                  !.uid_to_id = IF known THEN Without(@, uid) ELSE @,
                  !.id_to_uid = Without(@, id),
                  !.points = Without(@, id)]

\* The points of a refused request before the first one of another dimension
Accepted(c, points) ==
    LET bad == {i \in DOMAIN points : DimensionOf[points[i].vector] # c.index.dimension}
    IN  IF bad = {} THEN points ELSE SubSeq(points, 1, Min(bad) - 1)

\* A filter is a record of sets of conditions
PassesFilter(payload, filter) ==
    /\ \A m \in filter.must : payload \in m
    /\ \A m \in filter.must_not : payload \notin m
    /\ filter.should # {} => \E m \in filter.should : payload \in m

-----------------------------------------------------------------------------
(* The disk.                                                               *)

CollectionPath(name) == <<FileOf[name], "json">>
\* Fault: the file is written in place
TmpPathInPlace(name) == <<FileOf[name], "json">>
TmpPath(name) == <<FileOf[name], "json.tmp">>

ToPersisted(c) == [dimension |-> c.index.dimension, distance |-> c.distance, points |-> c.points]

\* The index is made again from the points, whose order is any
FromPersisted(p) ==
    FoldLeft(Upsert, NewCollection(p.dimension, p.distance),
             SetToSeq({[id |-> id, vector |-> p.points[id].vector, payload |-> p.points[id].payload]
                       : id \in DOMAIN p.points}))

\* Files that do not parse are skipped; the stem becomes the name
LoadAllCollections(d) ==
    LET stems == {path[1] : path \in {p \in DOMAIN d : p[2] = "json" /\ d[p] # Torn}}
    IN  [stem \in stems |-> FromPersisted(d[<<stem, "json">>])]

Free == saving = None
Save(name, step) == saving' = [name |-> name, step |-> step]

-----------------------------------------------------------------------------
(* The handlers.                                                           *)

QdrantInit ==
    /\ collections = <<>>
    /\ disk = <<>>
    /\ saving = None
    /\ unsaved = {}

\* Replaces a collection of the name
CreateCollection(name, dimension, distance) ==
    /\ Free
    /\ collections' = With(collections, name, NewCollection(dimension, distance))
    /\ Save(name, "write")
    /\ UNCHANGED <<disk, unsaved>>

DeleteCollection(name) ==
    /\ Free
    /\ collections' = Without(collections, name)
    /\ Save(name, "remove")
    /\ UNCHANGED <<disk, unsaved>>

Nodes == FoldFunction(+, 0, [name \in DOMAIN collections |-> collections[name].next_uid])

\* The first point of another dimension ends the request: what came before
\* it stays, and nothing is saved
UpsertPoints(name, points) ==
    /\ Free /\ name \in DOMAIN collections
    /\ Nodes + Len(points) <= MaxNodes
    /\ LET accepted == Accepted(collections[name], points)
       IN  /\ collections' = [collections EXCEPT ![name] = FoldLeft(Upsert, @, accepted)]
           /\ IF accepted = points
              THEN Save(name, "write") /\ UNCHANGED unsaved
              ELSE unsaved' = unsaved \union {name} /\ UNCHANGED saving
    /\ UNCHANGED disk

\* By id, or all that pass a filter
DeletePoints(name, ids) ==
    /\ Free /\ name \in DOMAIN collections
    /\ collections' = [collections EXCEPT ![name] = FoldSet(LAMBDA id, c : DeleteById(c, id), @, ids)]
    /\ Save(name, "write")
    /\ UNCHANGED <<disk, unsaved>>

Filters == [must : SUBSET Conditions, should : SUBSET Conditions, must_not : SUBSET Conditions]
Passing(name, filter) ==
    {id \in DOMAIN collections[name].points : PassesFilter(collections[name].points[id].payload, filter)}

-----------------------------------------------------------------------------
(* The steps of persist_collection and remove_collection_file.             *)

\* The file is made or cut to nothing, and then written
OpenTmp ==
    /\ ~Free /\ saving.step = "write"
    /\ disk' = With(disk, TmpPath(saving.name), Torn)
    /\ Save(saving.name, "fill")
    /\ UNCHANGED <<collections, unsaved>>

FillTmp ==
    /\ ~Free /\ saving.step = "fill"
    /\ disk' = With(disk, TmpPath(saving.name), ToPersisted(collections[saving.name]))
    /\ Save(saving.name, "rename")
    /\ UNCHANGED <<collections, unsaved>>

RenameTmp ==
    /\ ~Free /\ saving.step = "rename"
    /\ disk' = With(Without(disk, TmpPath(saving.name)), CollectionPath(saving.name), disk[TmpPath(saving.name)])
    /\ saving' = None
    /\ unsaved' = unsaved \ {saving.name}
    /\ UNCHANGED collections

RemoveFile ==
    /\ ~Free /\ saving.step = "remove"
    /\ disk' = Without(disk, CollectionPath(saving.name))
    /\ saving' = None
    /\ unsaved' = unsaved \ {saving.name}
    /\ UNCHANGED collections

\* The error is printed and the request answered as if nothing had happened
DiskFails ==
    /\ ~Free
    /\ saving' = None
    /\ unsaved' = unsaved \union {saving.name}
    /\ UNCHANGED <<collections, disk>>

\* The process ends at any point and is started again
RestartQdrant ==
    /\ collections' = LoadAllCollections(disk)
    /\ saving' = None
    /\ unsaved' = {}
    /\ UNCHANGED disk

QdrantNext ==
    \/ \E name \in Names, n \in Dimensions, m \in Metrics : CreateCollection(name, n, m)
    \/ \E name \in Names :
          \/ DeleteCollection(name)
          \/ \E p \in QdrantPoints : UpsertPoints(name, <<p>>)
          \/ \E p, r \in QdrantPoints : UpsertPoints(name, <<p, r>>)
          \/ \E ids \in SUBSET PointIds : DeletePoints(name, ids)
          \/ name \in DOMAIN collections /\ \E f \in Filters : DeletePoints(name, Passing(name, f))
    \/ OpenTmp \/ FillTmp \/ RenameTmp \/ RemoveFile \/ DiskFails
    \/ RestartQdrant

QdrantSpec == QdrantInit /\ [][QdrantNext]_qdrant

-----------------------------------------------------------------------------
(* Queries.                                                                *)

\* With a filter, more is fetched than the limit
FetchK(limit, filtered) == IF filtered THEN Max({limit * 4, limit + 16}) ELSE limit

\* The index measures by cosine under every metric; but for Euclid, an answer
\* tells a similarity
ScoreFromDistance(c, distance) == IF c.distance = "Euclid" THEN distance ELSE 1 - distance
NoWorse(c, s, t) == IF c.distance = "Euclid" THEN s <= t ELSE s >= t

QueryPoints(name, q, limit, filter, found) ==
    LET c == collections[name]
        Passes(hit) ==
            /\ hit.doc \in DOMAIN c.uid_to_id
            /\ c.uid_to_id[hit.doc] \in DOMAIN c.points
            /\ filter # None => PassesFilter(c.points[c.uid_to_id[hit.doc]].payload, filter)
        all == IndexSearch(c.index, q, found)
        hits == Keep(all, {hit \in Range(all) : Passes(hit)})
        point(hit) == [id |-> c.uid_to_id[hit.doc], score |-> ScoreFromDistance(c, hit.distance),
                       payload |-> c.points[c.uid_to_id[hit.doc]].payload]
    IN  [i \in 1 .. Min({Max({limit, 1}), Len(hits)}) |-> point(hits[i])]

\* Whatever the graph finds, an answer holds points of the collection, each
\* once, with its last payload and the score of its last vector, that pass the
\* filter, nearest first (qdrant_api.rs:661); the maps of a collection and
\* of its index know the same points.
QdrantAnswersFresh ==
    \A name \in DOMAIN collections :
        LET c == collections[name]
        IN  /\ MapsMirror(c.index)
            /\ DOMAIN c.points = DOMAIN c.id_to_uid
            /\ DOMAIN c.uid_to_id = DOMAIN c.index.doc_id_map
            /\ \A id \in DOMAIN c.points : c.uid_to_id[c.id_to_uid[id]] = id
            /\ \A q \in Vectors, filter \in {None} \union Filters, limit \in 1 .. 2 :
                 \A found \in Found(c.index, FetchK(limit, filter # None)) :
                   LET answer == QueryPoints(name, q, limit, filter, found)
                       last(i) == c.points[answer[i].id]
                   IN  \A i \in DOMAIN answer :
                         /\ answer[i].score = ScoreFromDistance(c, DistanceOf[<<q, last(i).vector>>])
                         /\ answer[i].payload = last(i).payload
                         /\ filter # None => PassesFilter(last(i).payload, filter)
                         /\ \A j \in 1 .. i - 1 :
                               answer[j].id # answer[i].id /\ NoWorse(c, answer[j].score, answer[i].score)

\* What is read when the service starts again is what the collections are,
\* for each that no request or failure of the disk has left unsaved and that
\* is not being saved; and a file is whole at all times
\* (qdrant_api.rs:224, "Write to a temp file then rename for atomicity").
RestartRestores ==
    LET restored == LoadAllCollections(disk)
    IN  /\ \A name \in Names \ unsaved :
             Free \/ saving.name # name =>
               /\ name \in DOMAIN collections <=> FileOf[name] \in DOMAIN restored
               /\ name \in DOMAIN collections =>
                    ToPersisted(restored[FileOf[name]]) = ToPersisted(collections[name])
        /\ \A path \in DOMAIN disk : path[2] = "json" => disk[path] # Torn
=============================================================================
