---------------------------- MODULE VectorProofs ----------------------------
(***************************************************************************)
(* Proofs about the vector services, the persistent index and the FT       *)
(* commands, for any number of collections, indexes, points and vectors.   *)
(*                                                                         *)
(* FilesRestore: a file keeps the points of a collection and nothing of    *)
(* its index, and a restart adds them again one by one, in any order.  So  *)
(* adding has to be the same as listing: About says which points the fold  *)
(* of upsert over a list gives, and the list of a file's points gives the  *)
(* file again (RoundTrip).                                                 *)
(* AnswersFresh: a graph keeps what was removed, and finds any of it.  An  *)
(* index is Sound when its maps lead from a live node to one document, and *)
(* a collection is Linked when they lead on to the point that was put.     *)
(* StorageTold: the file, the cache, the codes and the scan change one     *)
(* after another.  What they hold of a document (Holds) is one vector, and *)
(* every call replaces it in all four or leaves it.                        *)
(***************************************************************************)
EXTENDS MCVectors, Induction, SequenceTheorems

\* Names that sanitize_name leaves as they are, such as open_webui_<uuid>
\* (qdrant_api.rs:209); two others may share a file, and come back under its stem.
OwnFiles == \A name \in Names : FileOf[name] = name

PointRecords == [vector : Vectors, payload : Payloads]
Entry(p) == [vector |-> p.vector, payload |-> p.payload]

\* Points of one dimension, as a collection keeps them and as a file does
FitPoints(points, dimension) ==
    /\ points \in UNION {[ids -> PointRecords] : ids \in SUBSET PointIds}
    /\ \A id \in DOMAIN points : DimensionOf[points[id].vector] = dimension

IndexFields == {"dimension", "graph", "doc_id_map", "id_to_doc", "next_id", "count"}
CollectionFields == {"index", "distance", "points", "id_to_uid", "uid_to_id", "next_uid"}
IsIndex(index) == index = [field \in IndexFields |-> index[field]]
IsMap(f) == f = [x \in DOMAIN f |-> f[x]]
IsCollection(c) ==
    /\ c = [field \in CollectionFields |-> c[field]]
    /\ IsIndex(c.index)
    /\ IsMap(c.points)

\* A collection that is c but for its points and the maps about them
SameKind(c, d) ==
    /\ IsCollection(d)
    /\ d.index.dimension = c.index.dimension
    /\ d.distance = c.distance

-----------------------------------------------------------------------------
(* One point *)

\* A new collection has no points.
LEMMA NewIsCollection ==
    ASSUME NEW dimension, NEW distance
    PROVE  LET c == NewCollection(dimension, distance)
           IN  /\ IsCollection(c) /\ c.index.dimension = dimension /\ c.distance = distance
               /\ c.points = <<>>
<1> DEFINE c == NewCollection(dimension, distance)
<1>1. IsIndex(NewIndex(dimension)) /\ NewIndex(dimension).dimension = dimension
  BY DEF NewIndex, IsIndex, IndexFields
<1>2. c = [field \in CollectionFields |-> c[field]]
  BY DEF NewCollection, CollectionFields
<1>3. /\ c.index = NewIndex(dimension) /\ c.distance = distance /\ c.points = <<>>
  BY DEF NewCollection
<1> HIDE DEF c
<1>4. IsMap(<<>>)
  BY DEF IsMap
<1>5. IsCollection(c) /\ c.index.dimension = dimension
  BY <1>1, <1>2, <1>3, <1>4 DEF IsCollection
<1> QED
  BY <1>3, <1>5 DEF c

\* The index keeps its dimension.
LEMMA AddKeepsIndex ==
    ASSUME NEW i, IsIndex(i), NEW doc, NEW v
    PROVE  IsIndex(IndexAdd(i, doc, v)) /\ IndexAdd(i, doc, v).dimension = i.dimension
<1>1. DOMAIN i = IndexFields
  BY DEF IsIndex
<1> QED
  BY <1>1 DEF IndexAdd, IsIndex, IndexFields

\* So it does when a document is removed.
LEMMA RemoveKeepsIndex ==
    ASSUME NEW i, IsIndex(i), NEW doc
    PROVE  IsIndex(IndexRemove(i, doc)) /\ IndexRemove(i, doc).dimension = i.dimension
<1>1. DOMAIN i = IndexFields
  BY DEF IsIndex
<1> QED
  BY <1>1 DEF IndexRemove, IsIndex, IndexFields

\* upsert puts the point in the place of what had its id.
LEMMA UpsertKeeps ==
    ASSUME NEW c, IsCollection(c), NEW p
    PROVE  /\ SameKind(c, Upsert(c, p))
           /\ Upsert(c, p).points = With(c.points, p.id, Entry(p))
<1> DEFINE known == p.id \in DOMAIN c.id_to_uid
           old == c.id_to_uid[p.id]
           index == IF known THEN IndexRemove(c.index, old) ELSE c.index
           uids == IF known THEN Without(c.uid_to_id, old) ELSE c.uid_to_id
           i == IndexAdd(index, c.next_uid, p.vector)
           ids == With(c.id_to_uid, p.id, c.next_uid)
           docs == With(uids, c.next_uid, p.id)
           points == With(c.points, p.id, Entry(p))
           n == c.next_uid + 1
           d == [c EXCEPT !.next_uid = n, !.index = i, !.id_to_uid = ids,
                          !.uid_to_id = docs, !.points = points]
<1>1. IsIndex(index) /\ index.dimension = c.index.dimension
  BY RemoveKeepsIndex DEF IsCollection
<1>2. IsIndex(i) /\ i.dimension = c.index.dimension
  <2> HIDE DEF index
  <2> QED
    BY <1>1, AddKeepsIndex
<1>3. DOMAIN c = CollectionFields
  BY DEF IsCollection
<1>4. Upsert(c, p) = d
  BY <1>3 DEF Upsert, CollectionFields, Entry
<1>6. IsMap(points)
  BY DEF IsMap, With
<1> HIDE DEF i, ids, docs, points, n
<1>5. /\ d = [field \in CollectionFields |-> d[field]]
      /\ d.index = i /\ d.distance = c.distance /\ d.points = points
  BY <1>3 DEF CollectionFields
<1> HIDE DEF d
<1> QED
  BY <1>2, <1>4, <1>5, <1>6 DEF SameKind, IsCollection, points

\* delete_by_id takes the point out.
LEMMA DeleteKeeps ==
    ASSUME NEW c, IsCollection(c), NEW id
    PROVE  /\ SameKind(c, DeleteById(c, id))
           /\ DeleteById(c, id).points = Without(c.points, id)
<1> DEFINE known == id \in DOMAIN c.id_to_uid
           uid == c.id_to_uid[id]
           i == IF known THEN IndexRemove(c.index, uid) ELSE c.index
           docs == IF known THEN Without(c.uid_to_id, uid) ELSE c.uid_to_id
           ids == Without(c.id_to_uid, id)
           points == Without(c.points, id)
           d == [c EXCEPT !.index = i, !.uid_to_id = docs, !.id_to_uid = ids, !.points = points]
<1>1. IsIndex(i) /\ i.dimension = c.index.dimension
  BY RemoveKeepsIndex DEF IsCollection
<1>2. DOMAIN c = CollectionFields
  BY DEF IsCollection
<1>3. DeleteById(c, id) = d
  BY <1>2 DEF DeleteById, CollectionFields
<1>5. IsMap(points)
  BY DEF IsMap, Without, Restrict
<1> HIDE DEF i, ids, docs, points
<1>4. /\ d = [field \in CollectionFields |-> d[field]]
      /\ d.index = i /\ d.distance = c.distance /\ d.points = points
  BY <1>2 DEF CollectionFields
<1> HIDE DEF d
<1> QED
  BY <1>1, <1>3, <1>4, <1>5 DEF SameKind, IsCollection, points

-----------------------------------------------------------------------------
(* Many points: the fold of upsert over a list *)

\* f is the recursive function by which FoldLeft is defined, on the subsets of S.
Folds(f, c, s, S) ==
    f = [x \in SUBSET S |-> IF x = {} THEN c ELSE Upsert(f[x \ {Max(x)}], s[Max(x)])]
Upserted(c, s) == (CHOOSE f : Folds(f, c, s, DOMAIN s))[DOMAIN s]

\* FoldLeft is that function at the whole list.
LEMMA FoldIsUpserted ==
    ASSUME NEW c, NEW s
    PROVE  FoldLeft(Upsert, c, s) = Upserted(c, s)
BY DEF FoldLeft, MapThenFoldSet, Upserted, Folds

\* The recursion defines a function, for lists of every length.
LEMMA FoldExists ==
    ASSUME NEW c, NEW s, NEW n \in Nat
    PROVE  \E f : Folds(f, c, s, 1 .. n)
<1> DEFINE T == {m \in Nat : ~ \E f : Folds(f, c, s, 1 .. m)}
<1> SUFFICES ASSUME T # {}
             PROVE  FALSE
  OBVIOUS
<1>1. PICK m \in T : \A k \in T : m <= k
  BY LeastNumber
<1>2. ~ \E f : Folds(f, c, s, 1 .. m)
  OBVIOUS
<1>3. CASE m = 0
  <2> DEFINE f == [x \in SUBSET (1 .. m) |-> c]
  <2>1. \A x \in SUBSET (1 .. m) : x = {}
    BY <1>3
  <2>2. Folds(f, c, s, 1 .. m)
    BY <2>1 DEF Folds
  <2> QED
    BY <1>2, <2>2
<1>4. CASE m # 0
  <2>1. m - 1 \in Nat /\ m - 1 \notin T
    BY <1>1, <1>4
  <2>2. PICK g : Folds(g, c, s, 1 .. m - 1)
    BY <2>1
  <2> DEFINE f == [x \in SUBSET (1 .. m) |->
                     IF m \in x THEN Upsert(g[x \ {m}], s[m]) ELSE g[x]]
  <2>3. ASSUME NEW x \in SUBSET (1 .. m)
        PROVE  f[x] = IF x = {} THEN c ELSE Upsert(f[x \ {Max(x)}], s[Max(x)])
    <3>1. x \ {m} \in SUBSET (1 .. m - 1) /\ x \ {m} \in SUBSET (1 .. m) /\ m \notin x \ {m}
      OBVIOUS
    <3>2. CASE m \in x
      <4>1. Max(x) = m
        BY <2>1, <3>2, MaxTop, m = (m - 1) + 1
      <4>2. f[x \ {m}] = g[x \ {m}]
        BY <3>1
      <4> HIDE DEF f
      <4>3. f[x] = Upsert(g[x \ {m}], s[m])
        BY <3>2 DEF f
      <4> QED
        BY <3>2, <4>1, <4>2, <4>3
    <3>3. CASE m \notin x
      <4>1. x \in SUBSET (1 .. m - 1) /\ x \ {Max(x)} \in SUBSET (1 .. m - 1)
        BY <3>1, <3>3
      <4>2. g[x] = IF x = {} THEN c ELSE Upsert(g[x \ {Max(x)}], s[Max(x)])
        BY <2>2, <4>1 DEF Folds
      <4>3. f[x] = g[x] /\ f[x \ {Max(x)}] = g[x \ {Max(x)}]
        BY <3>3
      <4> QED
        BY <4>2, <4>3
    <3> QED
      BY <3>2, <3>3
  <2>4. f = [x \in SUBSET (1 .. m) |-> f[x]]
    OBVIOUS
  <2> HIDE DEF f
  <2>5. Folds(f, c, s, 1 .. m)
    BY <2>3, <2>4 DEF Folds
  <2> QED
    BY <1>2, <2>5
<1> QED
  BY <1>3, <1>4

\* What d is when the first n points of s have been added to c
About(c, s, n, d) ==
    /\ SameKind(c, d)
    /\ DOMAIN d.points = DOMAIN c.points \union {s[i].id : i \in 1 .. n}
    /\ \A id \in DOMAIN d.points :
          \/ id \in DOMAIN c.points /\ d.points[id] = c.points[id]
          \/ \E i \in 1 .. n : s[i].id = id /\ d.points[id] = Entry(s[i])

\* One more point.
LEMMA AboutStep ==
    ASSUME NEW c, NEW s, NEW n \in Nat, NEW d, About(c, s, n, d)
    PROVE  About(c, s, n + 1, Upsert(d, s[n + 1]))
<1> DEFINE p == s[n + 1]
           e == Upsert(d, p)
<1>1. SameKind(d, e) /\ e.points = With(d.points, p.id, Entry(p))
  BY ZenonT(30), UpsertKeeps DEF About, SameKind
<1> HIDE DEF e
<1>2. SameKind(c, e)
  BY <1>1 DEF About, SameKind
<1>3. 1 .. n + 1 = (1 .. n) \union {n + 1}
  OBVIOUS
<1>4. DOMAIN e.points = DOMAIN d.points \union {p.id}
  BY <1>1 DEF With
<1>5. DOMAIN e.points = DOMAIN c.points \union {s[i].id : i \in 1 .. n + 1}
  <2>1. {s[i].id : i \in 1 .. n + 1} = {s[i].id : i \in 1 .. n} \union {p.id}
    BY <1>3
  <2> QED
    BY <1>4, <2>1 DEF About
<1>6. ASSUME NEW id \in DOMAIN e.points
      PROVE  \/ id \in DOMAIN c.points /\ e.points[id] = c.points[id]
             \/ \E i \in 1 .. n + 1 : s[i].id = id /\ e.points[id] = Entry(s[i])
  <2>1. CASE id = p.id
    <3>1. e.points[id] = Entry(p) /\ n + 1 \in 1 .. n + 1
      BY <1>1, <1>4, <2>1 DEF With
    <3> QED
      BY <2>1, <3>1
  <2>2. CASE id # p.id
    <3>1. id \in DOMAIN d.points /\ e.points[id] = d.points[id]
      BY <1>1, <1>4, <2>2 DEF With
    <3>2. \A i \in 1 .. n : i \in 1 .. n + 1
      OBVIOUS
    <3> QED
      BY <3>1, <3>2 DEF About
  <2> QED
    BY <2>1, <2>2
<1> QED
  BY <1>2, <1>5, <1>6 DEF About, e

\* All of them.
LEMMA UpsertedAbout ==
    ASSUME NEW c, IsCollection(c), NEW s, NEW n \in Nat, DOMAIN s = 1 .. n
    PROVE  About(c, s, n, Upserted(c, s))
<1> DEFINE f == CHOOSE g : Folds(g, c, s, DOMAIN s)
           T == {m \in Nat : m <= n /\ ~ About(c, s, m, f[1 .. m])}
<1>1. Folds(f, c, s, 1 .. n)
  BY FoldExists
<1>2. Upserted(c, s) = f[1 .. n]
  BY DEF Upserted
<1> HIDE DEF f
<1>3. SUFFICES ASSUME T # {}
               PROVE  FALSE
  <2>1. n \notin T
    BY <1>3
  <2> QED
    BY <1>2, <2>1
<1>4. PICK m \in T : \A k \in T : m <= k
  <2>1. T \in SUBSET Nat
    OBVIOUS
  <2> HIDE DEF T
  <2> QED
    BY <1>3, <2>1, LeastNumber
<1>5. 1 .. m \in SUBSET (1 .. n)
  OBVIOUS
<1>6. f[1 .. m] = IF 1 .. m = {} THEN c ELSE Upsert(f[(1 .. m) \ {Max(1 .. m)}], s[Max(1 .. m)])
  BY <1>1, <1>5 DEF Folds
<1>7. CASE m = 0
  <2>1. f[1 .. m] = c /\ 1 .. m = {}
    BY <1>6, <1>7
  <2>2. About(c, s, m, f[1 .. m])
    BY <2>1 DEF About, SameKind
  <2> QED
    BY <2>2
<1>8. CASE m # 0
  <2>1. m - 1 \in Nat /\ m - 1 \notin T /\ m - 1 <= n /\ (m - 1) + 1 = m
    BY <1>4, <1>8
  <2>2. Max(1 .. m) = m
    <3>1. 1 .. m \in SUBSET (1 .. (m - 1) + 1) /\ m \in 1 .. m
      BY <1>8
    <3> QED
      BY <2>1, <3>1, MaxTop
  <2>3. 1 .. m # {} /\ (1 .. m) \ {m} = 1 .. m - 1
    <3>1. m \in Nat /\ 1 <= m
      BY <1>8
    <3> QED
      BY <3>1
  <2>4. About(c, s, m - 1, f[1 .. m - 1])
    BY <2>1
  <2>5. f[1 .. m] = Upsert(f[1 .. m - 1], s[m])
    BY <1>6, <2>2, <2>3
  <2>6. About(c, s, (m - 1) + 1, Upsert(f[1 .. m - 1], s[(m - 1) + 1]))
    BY <2>1, <2>4, AboutStep
  <2> QED
    BY <2>1, <2>5, <2>6
<1> QED
  BY <1>7, <1>8

\* Points that fit, added to a collection whose points fit, leave points that fit.
LEMMA UpsertedFits ==
    ASSUME NEW c, IsCollection(c), FitPoints(c.points, c.index.dimension),
           NEW s, NEW n \in Nat, DOMAIN s = 1 .. n,
           \A i \in 1 .. n : s[i] \in [id : PointIds, vector : Vectors, payload : Payloads]
                             /\ DimensionOf[s[i].vector] = c.index.dimension
    PROVE  /\ SameKind(c, Upserted(c, s))
           /\ FitPoints(Upserted(c, s).points, c.index.dimension)
<1> DEFINE d == Upserted(c, s)
           D == DOMAIN d.points
<1>1. About(c, s, n, d)
  BY UpsertedAbout
<1> HIDE DEF d
<1>2. /\ c.points \in UNION {[ids -> PointRecords] : ids \in SUBSET PointIds}
      /\ \A id \in DOMAIN c.points : /\ id \in PointIds /\ c.points[id] \in PointRecords
                                     /\ DimensionOf[c.points[id].vector] = c.index.dimension
  BY DEF FitPoints
<1>3. \A i \in 1 .. n : /\ s[i].id \in PointIds /\ Entry(s[i]) \in PointRecords
                        /\ Entry(s[i]).vector = s[i].vector
  BY DEF Entry, PointRecords
<1>4. D \in SUBSET PointIds
  BY <1>1, <1>2, <1>3 DEF About
<1>5. \A id \in D : /\ d.points[id] \in PointRecords
                    /\ DimensionOf[d.points[id].vector] = c.index.dimension
  BY <1>1, <1>2, <1>3 DEF About
<1>6. d.points = [id \in D |-> d.points[id]]
  BY <1>1 DEF About, SameKind, IsCollection, IsMap
<1>7. d.points \in [D -> PointRecords]
  BY <1>5, <1>6
<1> HIDE DEF D
<1>8. FitPoints(d.points, c.index.dimension)
  BY <1>4, <1>5, <1>7 DEF FitPoints, D
<1> QED
  BY <1>1, <1>8 DEF About, d

\* Reading a file gives a collection of the points that are in it.
LEMMA RoundTrip ==
    ASSUME NEW p, FitPoints(p.points, p.dimension)
    PROVE  LET c == FromPersisted(p)
           IN  /\ IsCollection(c) /\ c.index.dimension = p.dimension
               /\ c.distance = p.distance /\ c.points = p.points
<1> DEFINE S == {[id |-> id, vector |-> p.points[id].vector, payload |-> p.points[id].payload]
                 : id \in DOMAIN p.points}
           s == SetToSeq(S)
           n == Cardinality(S)
           new == NewCollection(p.dimension, p.distance)
           c == Upserted(new, s)
<1>1. FromPersisted(p) = c
  BY FoldIsUpserted DEF FromPersisted
<1>2. /\ DOMAIN p.points \in SUBSET PointIds /\ IsMap(p.points)
      /\ \A id \in DOMAIN p.points : p.points[id] \in PointRecords
  BY DEF FitPoints, IsMap
<1>3. IsFiniteSet(S)
  <2> DEFINE f == [id \in DOMAIN p.points |->
                     [id |-> id, vector |-> p.points[id].vector, payload |-> p.points[id].payload]]
  <2>1. IsFiniteSet(DOMAIN p.points)
    BY <1>2, QdrantAssumption, FS_Subset
  <2>2. f \in Surjection(DOMAIN p.points, S)
    BY DEF Surjection
  <2> HIDE DEF f, S
  <2> QED
    BY <2>1, <2>2, FS_Surjection
<1>4. /\ n \in Nat /\ DOMAIN s = 1 .. n
      /\ \A i \in 1 .. n : s[i] \in S
      /\ \A x \in S : \E i \in 1 .. n : s[i] = x
  <2> HIDE DEF S
  <2> QED
    BY <1>3, ListOfSet
<1>5. /\ IsCollection(new) /\ new.index.dimension = p.dimension
      /\ new.distance = p.distance /\ new.points = <<>>
  BY NewIsCollection
<1> HIDE DEF new, s, n
<1>6. About(new, s, n, c)
  BY <1>4, <1>5, UpsertedAbout
<1> HIDE DEF c
<1>7. ASSUME NEW x \in S
      PROVE  x.id \in DOMAIN p.points /\ Entry(x) = p.points[x.id]
  BY <1>2 DEF Entry, PointRecords
<1>8. ASSUME NEW id \in DOMAIN p.points
      PROVE  \E x \in S : x.id = id
  <2> DEFINE x == [id |-> id, vector |-> p.points[id].vector, payload |-> p.points[id].payload]
  <2>1. x \in S /\ x.id = id
    OBVIOUS
  <2> HIDE DEF x, S
  <2> QED
    BY <2>1
<1> HIDE DEF S
<1>9. DOMAIN c.points = DOMAIN p.points
  <2>1. DOMAIN c.points = {s[i].id : i \in 1 .. n}
    BY <1>5, <1>6 DEF About
  <2>2. \A i \in 1 .. n : s[i].id \in DOMAIN p.points
    BY <1>4, <1>7
  <2>3. \A id \in DOMAIN p.points : \E i \in 1 .. n : s[i].id = id
    BY <1>4, <1>8
  <2> QED
    BY <2>1, <2>2, <2>3
<1>10. ASSUME NEW id \in DOMAIN c.points
       PROVE  c.points[id] = p.points[id]
  <2>1. id \notin DOMAIN new.points
    BY <1>5
  <2>2. PICK i \in 1 .. n : s[i].id = id /\ c.points[id] = Entry(s[i])
    BY <1>6, <2>1 DEF About
  <2>3. s[i] \in S
    BY <1>4
  <2>4. Entry(s[i]) = p.points[s[i].id]
    BY <1>7, <2>3
  <2> QED
    BY <2>2, <2>4
<1>11. IsMap(c.points)
  BY <1>6 DEF About, SameKind, IsCollection
<1>12. c.points = p.points
  BY <1>2, <1>9, <1>10, <1>11 DEF IsMap
<1> QED
  BY <1>1, <1>5, <1>6, <1>12 DEF About, SameKind

\* What a request adds before its first point of another dimension fits.
LEMMA AcceptedFits ==
    ASSUME NEW c, NEW points \in Seq(QdrantPoints)
    PROVE  LET s == Accepted(c, points)
           IN  \E n \in Nat : /\ DOMAIN s = 1 .. n
                              /\ \A i \in 1 .. n : /\ s[i] \in QdrantPoints
                                                   /\ DimensionOf[s[i].vector] = c.index.dimension
<1> DEFINE bad == {i \in DOMAIN points : DimensionOf[points[i].vector] # c.index.dimension}
           s == Accepted(c, points)
<1>1. /\ Len(points) \in Nat /\ DOMAIN points = 1 .. Len(points)
      /\ \A i \in 1 .. Len(points) : points[i] \in QdrantPoints
  BY LenProperties, ElementOfSeq
<1>2. CASE bad = {}
  <2>1. s = points
    BY <1>2 DEF Accepted
  <2> QED
    BY <1>1, <1>2, <2>1
<1>3. CASE bad # {}
  <2> DEFINE m == Min(bad)
  <2>1. bad \in SUBSET Nat /\ bad # {}
    BY <1>1, <1>3
  <2>2. \A i \in bad : i \in 1 .. Len(points)
    BY <1>1
  <2>3. s = SubSeq(points, 1, m - 1)
    BY <1>3 DEF Accepted
  <2>4. \A i \in 1 .. Len(points) : i \notin bad => DimensionOf[points[i].vector] = c.index.dimension
    BY <1>1
  <2> HIDE DEF bad, s
  <2>5. m \in bad /\ \A i \in bad : m <= i
    <3>1. \E x \in bad : \A y \in bad : x <= y
      BY <2>1, LeastNumber
    <3> QED
      BY <3>1 DEF Min
  <2> HIDE DEF m
  <2>6. m \in 1 .. Len(points) /\ m - 1 \in Nat
    BY <2>2, <2>5
  <2>7. DOMAIN s = 1 .. m - 1 /\ \A i \in 1 .. m - 1 : s[i] = points[i]
    <3>1. \A i \in 1 .. m - 1 : points[i] \in QdrantPoints
      BY <1>1, <2>6
    <3>2. /\ s \in Seq(QdrantPoints)
          /\ Len(s) = IF 1 <= m - 1 THEN (m - 1) - 1 + 1 ELSE 0
          /\ \A i \in 1 .. (m - 1) - 1 + 1 : s[i] = points[1 + i - 1]
      BY <2>3, <2>6, <3>1, SubSeqProperties
    <3>3. Len(s) = m - 1 /\ (m - 1) - 1 + 1 = m - 1
      BY <2>6, <3>2
    <3>4. \A i \in 1 .. m - 1 : 1 + i - 1 = i
      BY <2>6
    <3> QED
      BY <3>2, <3>3, <3>4, LenProperties
  <2>8. \A i \in 1 .. m - 1 : i \in 1 .. Len(points) /\ i \notin bad
    BY <1>1, <2>5, <2>6
  <2>9. \A i \in 1 .. m - 1 : /\ s[i] \in QdrantPoints
                              /\ DimensionOf[s[i].vector] = c.index.dimension
    BY <1>1, <2>4, <2>7, <2>8
  <2> QED
    BY <2>6, <2>7, <2>9 DEF s
<1> QED
  BY <1>2, <1>3

-----------------------------------------------------------------------------
(* The fold of delete_by_id over a set of ids *)

\* f is the recursive function by which FoldSet is defined, on the subsets of S.
Deletes(f, c, S) ==
    f = [x \in SUBSET S |->
           IF x = {} THEN c
           ELSE LET id == CHOOSE y \in x : TRUE IN DeleteById(f[x \ {id}], id)]
Deleted(c, S) == (CHOOSE f : Deletes(f, c, S))[S]

\* FoldSet is that function at the whole set.
LEMMA FoldIsDeleted ==
    ASSUME NEW c, NEW ids
    PROVE  FoldSet(LAMBDA id, d : DeleteById(d, id), c, ids) = Deleted(c, ids)
BY DEF FoldSet, MapThenFoldSet, Deleted, Deletes

\* The element that is chosen is taken off.
LEMMA ChosenIn ==
    ASSUME NEW x, x # {}
    PROVE  (CHOOSE y \in x : TRUE) \in x
OBVIOUS

\* The recursion defines a function on the subsets of a finite set.
LEMMA DeletesExist ==
    ASSUME NEW c, NEW S, IsFiniteSet(S)
    PROVE  \E f : Deletes(f, c, S)
<1> DEFINE Pick(x) == CHOOSE y \in x : TRUE
           UpTo(n) == {x \in SUBSET S : Cardinality(x) <= n}
           Fold(f, D) == f = [x \in D |-> IF x = {} THEN c
                                         ELSE DeleteById(f[x \ {Pick(x)}], Pick(x))]
           Exists(n) == \E f : Fold(f, UpTo(n))
           T == {n \in Nat : ~ Exists(n)}
<1>1. \A x \in SUBSET S : IsFiniteSet(x) /\ Cardinality(x) \in Nat /\ Cardinality(x) <= Cardinality(S)
  BY FS_Subset, FS_CardinalityType
<1>2. Cardinality(S) \in Nat
  BY FS_CardinalityType
<1>3. UpTo(Cardinality(S)) = SUBSET S
  BY <1>1
<1>4. SUFFICES ASSUME T # {}
               PROVE  FALSE
  <2>1. Cardinality(S) \notin T
    BY <1>4
  <2> HIDE DEF Exists
  <2>2. Exists(Cardinality(S))
    BY <1>2, <2>1
  <2> USE DEF Exists
  <2> HIDE DEF UpTo, T
  <2>3. \E f : Fold(f, SUBSET S)
    BY <1>3, <2>2
  <2> QED
    BY <2>3 DEF Deletes
<1>5. PICK n \in T : \A m \in T : n <= m
  BY <1>4, LeastNumber
<1>6. n \in Nat /\ ~ \E f : Fold(f, UpTo(n))
  BY <1>5
<1>7. CASE n = 0
  <2> DEFINE f == [x \in UpTo(0) |-> c]
  <2>1. \A x \in UpTo(0) : x = {}
    BY <1>1, FS_EmptySet
  <2>2. Fold(f, UpTo(0))
    BY <2>1
  <2> QED
    BY <1>6, <1>7, <2>2
<1>8. CASE n # 0
  <2>1. n - 1 \in Nat /\ ~ (n <= n - 1)
    BY <1>6, <1>8
  <2>2. PICK g : Fold(g, UpTo(n - 1))
    <3> HIDE DEF Exists
    <3>1. n - 1 \notin T
      <4> HIDE DEF T
      <4> QED
        BY <1>5, <2>1
    <3>2. Exists(n - 1)
      BY <2>1, <3>1
    <3> QED
      BY <3>2 DEF Exists
  <2> DEFINE f == [x \in UpTo(n) |-> IF x = {} THEN c
                                     ELSE DeleteById(g[x \ {Pick(x)}], Pick(x))]
  <2>3. ASSUME NEW x \in UpTo(n), x # {}
        PROVE  f[x \ {Pick(x)}] = g[x \ {Pick(x)}]
    <3> DEFINE y == x \ {Pick(x)}
    <3>1. Pick(x) \in x
      BY <2>3, ChosenIn
    <3>2. Cardinality(y) = Cardinality(x) - 1
      BY <1>1, <3>1, FS_RemoveElement
    <3>3. y \in SUBSET S
      OBVIOUS
    <3>4. Cardinality(x) \in Nat /\ Cardinality(x) <= n /\ Cardinality(y) \in Nat
      BY <1>1, <3>3
    <3>5. y \in UpTo(n - 1) /\ y \in UpTo(n)
      BY <1>6, <3>2, <3>3, <3>4
    <3> HIDE DEF y, UpTo, Pick
    <3>6. g[y] = IF y = {} THEN c ELSE DeleteById(g[y \ {Pick(y)}], Pick(y))
      BY <2>2, <3>5
    <3>7. f[y] = IF y = {} THEN c ELSE DeleteById(g[y \ {Pick(y)}], Pick(y))
      BY <3>5
    <3> QED
      BY <3>6, <3>7 DEF y
  <2> HIDE DEF UpTo, Pick
  <2>4. \A x \in UpTo(n) : f[x] = IF x = {} THEN c
                                  ELSE DeleteById(g[x \ {Pick(x)}], Pick(x))
    OBVIOUS
  <2>5. f = [x \in UpTo(n) |-> f[x]]
    OBVIOUS
  <2> HIDE DEF f
  <2>6. \A x \in UpTo(n) : f[x] = IF x = {} THEN c
                                  ELSE DeleteById(f[x \ {Pick(x)}], Pick(x))
    BY <2>3, <2>4
  <2>7. Fold(f, UpTo(n))
    BY <2>5, <2>6
  <2> QED
    BY <1>6, <2>7
<1> QED
  BY <1>7, <1>8

\* Points that fit, fit without one of them.
LEMMA WithoutFits ==
    ASSUME NEW points, NEW dimension, FitPoints(points, dimension), NEW id
    PROVE  FitPoints(Without(points, id), dimension)
<1> DEFINE D == DOMAIN points \ {id}
           f == Without(points, id)
<1>1. /\ DOMAIN points \in SUBSET PointIds
      /\ \A x \in DOMAIN points : points[x] \in PointRecords
  BY DEF FitPoints
<1>2. f = [x \in D |-> points[x]]
  BY DEF Without, Restrict
<1>3. f \in [D -> PointRecords] /\ D \in SUBSET PointIds
  BY <1>1, <1>2
<1>4. \A x \in DOMAIN f : DimensionOf[f[x].vector] = dimension
  BY <1>2 DEF FitPoints
<1> QED
  BY <1>3, <1>4 DEF FitPoints

\* Deleting leaves points that fit.
LEMMA DeletedFits ==
    ASSUME NEW c, IsCollection(c), FitPoints(c.points, c.index.dimension), NEW ids, IsFiniteSet(ids)
    PROVE  /\ SameKind(c, Deleted(c, ids))
           /\ FitPoints(Deleted(c, ids).points, c.index.dimension)
<1> DEFINE f == CHOOSE g : Deletes(g, c, ids)
           Good(d) == SameKind(c, d) /\ FitPoints(d.points, c.index.dimension)
           T == {x \in SUBSET ids : ~ Good(f[x])}
<1>1. Deletes(f, c, ids)
  BY DeletesExist
<1>2. Deleted(c, ids) = f[ids]
  BY DEF Deleted
<1> HIDE DEF f
<1>3. \A x \in SUBSET ids : IsFiniteSet(x) /\ Cardinality(x) \in Nat
  BY FS_Subset, FS_CardinalityType
<1>4. SUFFICES ASSUME T # {}
               PROVE  FALSE
  <2>1. ids \notin T
    BY <1>4
  <2> QED
    BY <1>2, <2>1
<1>5. PICK x \in T : \A y \in T : Cardinality(x) <= Cardinality(y)
  <2>1. \A x \in T : IsFiniteSet(x)
    BY <1>3
  <2> HIDE DEF T
  <2> QED
    BY <1>4, <2>1, SmallestSet
<1>6. x \in SUBSET ids /\ ~ Good(f[x])
  OBVIOUS
<1>7. CASE x = {}
  <2>1. f[x] = c
    BY <1>1, <1>6, <1>7 DEF Deletes
  <2> QED
    BY <1>6, <2>1 DEF SameKind
<1>8. CASE x # {}
  <2> DEFINE id == CHOOSE y \in x : TRUE
             y == x \ {id}
             d == f[y]
             e == DeleteById(d, id)
  <2>1. id \in x
    BY <1>8, ChosenIn
  <2>2. f[x] = e
    BY <1>1, <1>6, <1>8 DEF Deletes
  <2> HIDE DEF id
  <2>3. y \in SUBSET ids /\ Cardinality(y) = Cardinality(x) - 1
    BY <1>3, <1>6, <2>1, FS_RemoveElement
  <2>4. Cardinality(x) \in Nat /\ Cardinality(y) \in Nat
    BY <1>3, <1>6, <2>3
  <2>5. Good(d)
    <3>1. y \notin T
      <4> HIDE DEF T, y
      <4> QED
        BY <1>5, <2>3, <2>4
    <3> QED
      BY <2>3, <3>1
  <2> HIDE DEF d, y
  <2>6. SameKind(d, e) /\ e.points = Without(d.points, id)
    BY <2>5, DeleteKeeps DEF SameKind
  <2> HIDE DEF e
  <2>7. SameKind(c, e)
    BY <2>5, <2>6 DEF SameKind
  <2>8. FitPoints(e.points, c.index.dimension)
    BY <2>5, <2>6, WithoutFits
  <2> QED
    BY <1>6, <2>2, <2>7, <2>8
<1> QED
  BY <1>7, <1>8

-----------------------------------------------------------------------------
(* The inductive invariant *)

Steps == [name : Names, step : {"write", "fill", "rename", "remove"}]

Good(c) ==
    /\ IsCollection(c)
    /\ c.index.dimension \in Dimensions
    /\ c.distance \in Metrics
    /\ FitPoints(c.points, c.index.dimension)

MemoryInv ==
    /\ DOMAIN collections \subseteq Names
    /\ \A name \in DOMAIN collections : Good(collections[name])

\* Every file of a collection is whole
DiskInv ==
    /\ \A path \in DOMAIN disk : path[2] = "json" => \E name \in Names : path = CollectionPath(name)
    /\ \A name \in Names : CollectionPath(name) \in DOMAIN disk =>
          LET p == disk[CollectionPath(name)] IN p \in Snapshots /\ FitPoints(p.points, p.dimension)

\* What the handler still has to do is what its collection needs
SavingInv ==
    /\ saving \in Steps \union {None}
    /\ ~Free =>
         /\ saving.step = "remove" <=> saving.name \notin DOMAIN collections
         /\ saving.step = "rename" =>
              /\ TmpPath(saving.name) \in DOMAIN disk
              /\ disk[TmpPath(saving.name)] = ToPersisted(collections[saving.name])

\* The file of a collection is that of the collection
Filed(name) ==
    /\ name \in DOMAIN collections <=> CollectionPath(name) \in DOMAIN disk
    /\ name \in DOMAIN collections => disk[CollectionPath(name)] = ToPersisted(collections[name])
FiledInv == \A name \in Names \ unsaved : Free \/ saving.name # name => Filed(name)

QdrantInv == MemoryInv /\ DiskInv /\ SavingInv /\ FiledInv

\* Removing one file leaves the others.
LEMMA WithoutChanges ==
    ASSUME NEW f, NEW x
    PROVE  /\ DOMAIN Without(f, x) = DOMAIN f \ {x}
           /\ \A z \in DOMAIN f : z # x => Without(f, x)[z] = f[z]
BY DEF Without, Restrict

\* No file of a collection is one that is being written.
LEMMA PathsApart ==
    ASSUME NEW n, NEW m
    PROVE  /\ CollectionPath(n) # TmpPath(m)
           /\ CollectionPath(n)[1] = FileOf[n] /\ CollectionPath(n)[2] = "json"
           /\ TmpPath(m)[2] # "json"
BY DEF CollectionPath, TmpPath

\* Collections of other names have other files.
LEMMA FilesApart ==
    ASSUME OwnFiles, NEW n \in Names, NEW m \in Names, n # m
    PROVE  CollectionPath(n) # CollectionPath(m)
BY DEF OwnFiles, CollectionPath

\* The snapshot of a collection is one that a file may hold.
LEMMA GoodSnapshot ==
    ASSUME NEW c, Good(c)
    PROVE  LET p == ToPersisted(c) IN p \in Snapshots /\ FitPoints(p.points, p.dimension)
BY DEF Good, FitPoints, PointRecords, ToPersisted, Snapshots

\* Nothing is in memory or on the disk at first.
LEMMA InvInit == QdrantInit => QdrantInv
<1> SUFFICES ASSUME QdrantInit
             PROVE  QdrantInv
  OBVIOUS
<1>1. DOMAIN collections = {} /\ DOMAIN disk = {} /\ saving = None
  BY DEF QdrantInit
<1> QED
  BY <1>1 DEF QdrantInv, MemoryInv, DiskInv, SavingInv, FiledInv, Filed, Free

-----------------------------------------------------------------------------
(* The handlers *)

\* A handler changes one collection, and goes on to save it or notes that it does not.
LEMMA HandlerKeeps ==
    ASSUME QdrantInv, Free, NEW name \in Names, disk' = disk,
           DOMAIN collections' \union {name} = DOMAIN collections \union {name},
           \A o \in DOMAIN collections : o # name => collections'[o] = collections[o],
           name \in DOMAIN collections' => Good(collections'[name]),
           \/ /\ saving' = [name |-> name,
                            step |-> IF name \in DOMAIN collections' THEN "write" ELSE "remove"]
              /\ unsaved' = unsaved
           \/ saving' = saving /\ unsaved' = unsaved \union {name}
    PROVE  QdrantInv'
<1>1. MemoryInv'
  BY DEF QdrantInv, MemoryInv
<1>2. DiskInv'
  BY DEF QdrantInv, DiskInv, CollectionPath
<1>3. SavingInv'
  BY QdrantAssumption DEF QdrantInv, SavingInv, Free, Steps
<1>4. ASSUME NEW o \in Names \ unsaved', (Free \/ saving.name # o)'
      PROVE  Filed(o)'
  <2>1. o # name /\ o \in Names \ unsaved
    BY <1>4, QdrantAssumption DEF Free
  <2>2. Filed(o)
    BY <2>1 DEF QdrantInv, FiledInv
  <2>3. o \in DOMAIN collections' <=> o \in DOMAIN collections
    BY <2>1
  <2> QED
    BY <2>1, <2>2, <2>3 DEF Filed, CollectionPath
<1>5. FiledInv'
  BY <1>4 DEF FiledInv
<1> QED
  BY <1>1, <1>2, <1>3, <1>5 DEF QdrantInv

\* create_collection starts with no points.
LEMMA CreateKeeps ==
    ASSUME QdrantInv, NEW name \in Names, NEW n \in Dimensions, NEW m \in Metrics,
           CreateCollection(name, n, m)
    PROVE  QdrantInv'
<1> DEFINE c == NewCollection(n, m)
<1>1. /\ IsCollection(c) /\ c.index.dimension = n /\ c.distance = m /\ c.points = <<>>
  BY NewIsCollection
<1> HIDE DEF c
<1>2. FitPoints(<<>>, n)
  <2>1. <<>> \in [{} -> PointRecords] /\ DOMAIN <<>> = {}
    OBVIOUS
  <2> QED
    BY <2>1 DEF FitPoints
<1>3. Good(c)
  BY <1>1, <1>2 DEF Good
<1>4. /\ Free /\ disk' = disk /\ unsaved' = unsaved
      /\ collections' = With(collections, name, c)
      /\ saving' = [name |-> name, step |-> "write"]
  BY DEF CreateCollection, Save, c
<1>5. /\ DOMAIN collections' = DOMAIN collections \union {name} /\ collections'[name] = c
      /\ \A o \in DOMAIN collections : o # name => collections'[o] = collections[o]
  <2> DEFINE f == With(collections, name, c)
  <2>1. /\ DOMAIN f = DOMAIN collections \union {name} /\ f[name] = c
        /\ \A o \in DOMAIN collections : o # name => f[o] = collections[o]
    BY DEF With
  <2>2. collections' = f
    BY <1>4
  <2> HIDE DEF f
  <2> QED
    BY <2>1, <2>2
<1> QED
  BY <1>3, <1>4, <1>5, HandlerKeeps

\* delete_collection leaves its file to be removed.
LEMMA DropKeeps ==
    ASSUME QdrantInv, NEW name \in Names, DeleteCollection(name)
    PROVE  QdrantInv'
<1>1. /\ Free /\ disk' = disk /\ unsaved' = unsaved
      /\ collections' = Without(collections, name)
      /\ saving' = [name |-> name, step |-> "remove"]
  BY DEF DeleteCollection, Save
<1>2. /\ DOMAIN collections' = DOMAIN collections \ {name}
      /\ \A o \in DOMAIN collections : o # name => collections'[o] = collections[o]
  BY <1>1, WithoutChanges
<1> QED
  BY <1>1, <1>2, HandlerKeeps

\* A collection that is changed in place is the same but for its points.
LEMMA ChangeKeeps ==
    ASSUME QdrantInv, Free, NEW name \in DOMAIN collections, NEW c,
           SameKind(collections[name], c), FitPoints(c.points, c.index.dimension),
           collections' = [collections EXCEPT ![name] = c], disk' = disk,
           \/ saving' = [name |-> name, step |-> "write"] /\ unsaved' = unsaved
           \/ saving' = saving /\ unsaved' = unsaved \union {name}
    PROVE  QdrantInv'
<1>1. name \in Names /\ Good(collections[name])
  BY DEF QdrantInv, MemoryInv
<1>2. Good(c)
  BY <1>1 DEF Good, SameKind
<1>3. /\ DOMAIN collections' = DOMAIN collections /\ collections'[name] = c
      /\ \A o \in DOMAIN collections : o # name => collections'[o] = collections[o]
  OBVIOUS
<1> QED
  BY <1>1, <1>2, <1>3, HandlerKeeps

\* upsert_points adds points that fit, and saves unless one did not.
LEMMA UpsertPointsKeeps ==
    ASSUME QdrantInv, NEW name, NEW points \in Seq(QdrantPoints), UpsertPoints(name, points)
    PROVE  QdrantInv'
<1> DEFINE c == collections[name]
           s == Accepted(c, points)
           d == Upserted(c, s)
<1>1. /\ Free /\ name \in DOMAIN collections /\ disk' = disk
      /\ collections' = [collections EXCEPT ![name] = d]
      /\ \/ saving' = [name |-> name, step |-> "write"] /\ unsaved' = unsaved
         \/ saving' = saving /\ unsaved' = unsaved \union {name}
  BY FoldIsUpserted DEF UpsertPoints, Save
<1>2. Good(c)
  BY <1>1 DEF QdrantInv, MemoryInv
<1>3. PICK n \in Nat : /\ DOMAIN s = 1 .. n
                       /\ \A i \in 1 .. n : /\ s[i] \in QdrantPoints
                                            /\ DimensionOf[s[i].vector] = c.index.dimension
  BY AcceptedFits
<1>4. SameKind(c, d) /\ FitPoints(d.points, c.index.dimension)
  <2> HIDE DEF c, s
  <2> QED
    BY <1>2, <1>3, QdrantAssumption, UpsertedFits DEF Good
<1> HIDE DEF d
<1>5. FitPoints(d.points, d.index.dimension)
  BY <1>4 DEF SameKind
<1> QED
  BY <1>1, <1>4, <1>5, ChangeKeeps

\* delete_points takes points out, and saves.
LEMMA DeletePointsKeeps ==
    ASSUME QdrantInv, NEW name, NEW ids, IsFiniteSet(ids), DeletePoints(name, ids)
    PROVE  QdrantInv'
<1> DEFINE c == collections[name]
           d == Deleted(c, ids)
<1>1. /\ Free /\ name \in DOMAIN collections /\ disk' = disk
      /\ collections' = [collections EXCEPT ![name] = d]
      /\ saving' = [name |-> name, step |-> "write"] /\ unsaved' = unsaved
  BY FoldIsDeleted DEF DeletePoints, Save
<1>2. Good(c)
  BY <1>1 DEF QdrantInv, MemoryInv
<1>3. SameKind(c, d) /\ FitPoints(d.points, c.index.dimension)
  <2> HIDE DEF c
  <2> QED
    BY <1>2, DeletedFits DEF Good
<1> HIDE DEF d
<1>4. FitPoints(d.points, d.index.dimension)
  BY <1>3 DEF SameKind
<1> QED
  BY <1>1, <1>3, <1>4, ChangeKeeps

-----------------------------------------------------------------------------
(* The disk *)

\* Writing aside changes no file that a restart reads.
LEMMA TmpKeeps ==
    ASSUME QdrantInv, NEW name \in Names, name = saving.name, name \in DOMAIN collections, ~Free,
           NEW x, disk' = With(disk, TmpPath(name), x),
           collections' = collections, unsaved' = unsaved,
           \/ saving' = [name |-> name, step |-> "fill"]
           \/ saving' = [name |-> name, step |-> "rename"] /\ x = ToPersisted(collections[name])
    PROVE  QdrantInv'
<1> DEFINE tmp == TmpPath(name)
           d == With(disk, tmp, x)
<1>1. /\ DOMAIN d = DOMAIN disk \union {tmp} /\ d[tmp] = x
      /\ \A z \in DOMAIN disk : z # tmp => d[z] = disk[z]
  BY DEF With
<1>2. tmp[2] # "json" /\ \A n : CollectionPath(n) # tmp
  BY PathsApart
<1>3. disk' = d
  OBVIOUS
<1> HIDE DEF d, tmp
<1>4. DiskInv'
  <2>1. \A z \in DOMAIN d : z[2] = "json" => \E n \in Names : z = CollectionPath(n)
    BY <1>1, <1>2 DEF QdrantInv, DiskInv
  <2>2. ASSUME NEW n \in Names, CollectionPath(n) \in DOMAIN d
        PROVE  LET p == d[CollectionPath(n)] IN p \in Snapshots /\ FitPoints(p.points, p.dimension)
    BY <1>1, <1>2, <2>2 DEF QdrantInv, DiskInv
  <2> QED
    BY <1>3, <2>1, <2>2 DEF DiskInv, CollectionPath
<1>5. SavingInv'
  BY <1>1, <1>3, QdrantAssumption DEF SavingInv, Steps, Free, TmpPath, ToPersisted, tmp
<1>6. ASSUME NEW n \in Names \ unsaved, (Free \/ saving.name # n)'
      PROVE  Filed(n)'
  <2>1. Filed(n)
    BY <1>6, QdrantAssumption DEF QdrantInv, FiledInv, Free, Steps
  <2> QED
    BY <1>1, <1>2, <1>3, <2>1 DEF Filed, CollectionPath, ToPersisted
<1>7. MemoryInv' /\ FiledInv'
  BY <1>6 DEF QdrantInv, MemoryInv, FiledInv
<1> QED
  BY <1>4, <1>5, <1>7 DEF QdrantInv

\* A file that is being written is none that a restart reads.
LEMMA OpenKeeps ==
    ASSUME QdrantInv, OpenTmp
    PROVE  QdrantInv'
<1> DEFINE name == saving.name
           tmp == TmpPath(name)
<1>1. /\ ~Free /\ saving.step = "write" /\ disk' = With(disk, tmp, Torn)
      /\ saving' = [name |-> name, step |-> "fill"]
      /\ collections' = collections /\ unsaved' = unsaved
  BY DEF OpenTmp, Save
<1>2. name \in Names /\ name \in DOMAIN collections
  BY <1>1 DEF QdrantInv, SavingInv, Steps, Free
<1> QED
  BY <1>1, <1>2, TmpKeeps

\* What is written to it is the snapshot of the collection.
LEMMA FillKeeps ==
    ASSUME QdrantInv, FillTmp
    PROVE  QdrantInv'
<1> DEFINE name == saving.name
           tmp == TmpPath(name)
<1>1. /\ ~Free /\ saving.step = "fill" /\ disk' = With(disk, tmp, ToPersisted(collections[name]))
      /\ saving' = [name |-> name, step |-> "rename"]
      /\ collections' = collections /\ unsaved' = unsaved
  BY DEF FillTmp, Save
<1>2. name \in Names /\ name \in DOMAIN collections
  BY <1>1 DEF QdrantInv, SavingInv, Steps, Free
<1> QED
  BY <1>1, <1>2, TmpKeeps

\* rename puts the snapshot in the place of the file.
LEMMA RenameKeeps ==
    ASSUME OwnFiles, QdrantInv, RenameTmp
    PROVE  QdrantInv'
<1> DEFINE name == saving.name
           tmp == TmpPath(name)
           path == CollectionPath(name)
           p == ToPersisted(collections[name])
           d == Without(disk, tmp)
           e == With(d, path, disk[tmp])
<1>1. /\ ~Free /\ saving.step = "rename" /\ disk' = e
      /\ saving' = None /\ unsaved' = unsaved \ {name}
      /\ collections' = collections
  BY DEF RenameTmp
<1>2. /\ name \in Names /\ name \in DOMAIN collections
      /\ disk[tmp] = p
  BY <1>1 DEF QdrantInv, SavingInv, Steps, Free
<1>3. p \in Snapshots /\ FitPoints(p.points, p.dimension)
  BY <1>2, GoodSnapshot DEF QdrantInv, MemoryInv
<1>4. /\ DOMAIN d = DOMAIN disk \ {tmp}
      /\ \A z \in DOMAIN disk : z # tmp => d[z] = disk[z]
  BY WithoutChanges
<1>5. /\ DOMAIN e = DOMAIN d \union {path} /\ e[path] = p
      /\ \A z \in DOMAIN d : z # path => e[z] = d[z]
  <2> HIDE DEF d, path, p
  <2> QED
    BY <1>2 DEF With
<1>6. \A n : CollectionPath(n) # tmp
  BY PathsApart
<1>7. \A n \in Names : n # name => CollectionPath(n) # path
  BY <1>2, FilesApart
<1> HIDE DEF e, d, p, tmp
<1>8. \A n \in Names : n # name =>
         /\ CollectionPath(n) \in DOMAIN e <=> CollectionPath(n) \in DOMAIN disk
         /\ CollectionPath(n) \in DOMAIN disk => e[CollectionPath(n)] = disk[CollectionPath(n)]
  BY <1>4, <1>5, <1>6, <1>7
<1>9. \A z \in DOMAIN e : z \in DOMAIN disk \/ z = path
  BY <1>4, <1>5
<1>10. DiskInv'
  <2>1. \A z \in DOMAIN e : z[2] = "json" => \E n \in Names : z = CollectionPath(n)
    BY <1>2, <1>9 DEF QdrantInv, DiskInv
  <2>2. ASSUME NEW n \in Names, CollectionPath(n) \in DOMAIN e
        PROVE  LET x == e[CollectionPath(n)] IN x \in Snapshots /\ FitPoints(x.points, x.dimension)
    <3>1. CASE n = name
      BY <1>3, <1>5, <3>1
    <3>2. CASE n # name
      BY <1>8, <2>2, <3>2 DEF QdrantInv, DiskInv
    <3> QED
      BY <3>1, <3>2
  <2> QED
    BY <1>1, <2>1, <2>2 DEF DiskInv, CollectionPath
<1>11. FiledInv'
  <2> SUFFICES ASSUME NEW n \in Names \ unsaved'
               PROVE  Filed(n)'
    BY DEF FiledInv
  <2>1. CASE n = name
    BY <1>1, <1>2, <1>5, <2>1 DEF Filed, CollectionPath, p, ToPersisted
  <2>2. CASE n # name
    <3>1. Filed(n)
      BY <1>1, <2>2 DEF QdrantInv, FiledInv
    <3> QED
      BY <1>1, <1>8, <2>2, <3>1 DEF Filed, CollectionPath, ToPersisted
  <2> QED
    BY <2>1, <2>2
<1>12. MemoryInv' /\ SavingInv'
  BY <1>1 DEF QdrantInv, MemoryInv, SavingInv, Free
<1> QED
  BY <1>10, <1>11, <1>12 DEF QdrantInv

\* The file of a collection that was deleted goes.
LEMMA RemoveKeeps ==
    ASSUME OwnFiles, QdrantInv, RemoveFile
    PROVE  QdrantInv'
<1> DEFINE name == saving.name
           path == CollectionPath(name)
           d == Without(disk, path)
<1>1. /\ ~Free /\ saving.step = "remove" /\ disk' = d
      /\ saving' = None /\ unsaved' = unsaved \ {name}
      /\ collections' = collections
  BY DEF RemoveFile
<1>2. name \in Names /\ name \notin DOMAIN collections
  BY <1>1 DEF QdrantInv, SavingInv, Steps, Free
<1>3. /\ DOMAIN d = DOMAIN disk \ {path}
      /\ \A z \in DOMAIN disk : z # path => d[z] = disk[z]
  BY WithoutChanges
<1>4. \A n \in Names : n # name => CollectionPath(n) # path
  BY <1>2, FilesApart
<1> HIDE DEF d
<1>5. DiskInv'
  <2>1. \A z \in DOMAIN d : z[2] = "json" => \E n \in Names : z = CollectionPath(n)
    BY <1>3 DEF QdrantInv, DiskInv
  <2>2. ASSUME NEW n \in Names, CollectionPath(n) \in DOMAIN d
        PROVE  LET x == d[CollectionPath(n)] IN x \in Snapshots /\ FitPoints(x.points, x.dimension)
    BY <1>3, <2>2 DEF QdrantInv, DiskInv
  <2> QED
    BY <1>1, <2>1, <2>2 DEF DiskInv, CollectionPath
<1>6. FiledInv'
  <2> SUFFICES ASSUME NEW n \in Names \ unsaved'
               PROVE  Filed(n)'
    BY DEF FiledInv
  <2>1. CASE n = name
    BY <1>1, <1>2, <1>3, <2>1 DEF Filed, CollectionPath
  <2>2. CASE n # name
    <3>1. Filed(n)
      BY <1>1, <2>2 DEF QdrantInv, FiledInv
    <3> QED
      BY <1>1, <1>3, <1>4, <2>2, <3>1 DEF Filed, CollectionPath, ToPersisted
  <2> QED
    BY <2>1, <2>2
<1>7. MemoryInv' /\ SavingInv'
  BY <1>1 DEF QdrantInv, MemoryInv, SavingInv, Free
<1> QED
  BY <1>5, <1>6, <1>7 DEF QdrantInv

\* After an error of the disk, the collection is noted as one that differs from its file.
LEMMA FailureKeeps ==
    ASSUME QdrantInv, DiskFails
    PROVE  QdrantInv'
<1>1. /\ saving' = None /\ unsaved' = unsaved \union {saving.name}
      /\ collections' = collections /\ disk' = disk
  BY DEF DiskFails
<1>2. MemoryInv' /\ DiskInv' /\ SavingInv'
  BY <1>1 DEF QdrantInv, MemoryInv, DiskInv, SavingInv, Free, CollectionPath
<1>3. FiledInv'
  BY <1>1 DEF QdrantInv, FiledInv, Filed, CollectionPath, ToPersisted
<1> QED
  BY <1>2, <1>3 DEF QdrantInv

-----------------------------------------------------------------------------
(* The restart *)

\* What is read from the files are the collections that were filed.
LEMMA LoadsFiles ==
    ASSUME OwnFiles, DiskInv
    PROVE  LET restored == LoadAllCollections(disk)
           IN  /\ DOMAIN restored = {name \in Names : CollectionPath(name) \in DOMAIN disk}
               /\ \A name \in DOMAIN restored :
                    /\ Good(restored[name])
                    /\ ToPersisted(restored[name]) = disk[CollectionPath(name)]
<1> DEFINE restored == LoadAllCollections(disk)
           stems == {path[1] : path \in {p \in DOMAIN disk : p[2] = "json" /\ disk[p] # Torn}}
<1>1. restored = [stem \in stems |-> FromPersisted(disk[<<stem, "json">>])]
  BY DEF LoadAllCollections
<1>2. \A name \in Names : /\ CollectionPath(name) = <<name, "json">>
                          /\ CollectionPath(name)[1] = name /\ CollectionPath(name)[2] = "json"
  BY DEF OwnFiles, CollectionPath
<1>3. \A name \in Names : CollectionPath(name) \in DOMAIN disk => disk[CollectionPath(name)] # Torn
  BY QdrantAssumption DEF DiskInv
<1>4. stems = {name \in Names : CollectionPath(name) \in DOMAIN disk}
  <2>1. ASSUME NEW stem \in stems
        PROVE  stem \in Names /\ CollectionPath(stem) \in DOMAIN disk
    <3>1. PICK path \in DOMAIN disk : path[2] = "json" /\ stem = path[1]
      OBVIOUS
    <3>2. PICK name \in Names : path = CollectionPath(name)
      BY <3>1 DEF DiskInv
    <3> QED
      BY <1>2, <3>1, <3>2
  <2>2. ASSUME NEW name \in Names, CollectionPath(name) \in DOMAIN disk
        PROVE  name \in stems
    BY <1>2, <1>3, <2>2
  <2> HIDE DEF stems
  <2> QED
    BY <2>1, <2>2
<1> HIDE DEF stems, restored
<1>5. ASSUME NEW name \in stems
      PROVE  Good(restored[name]) /\ ToPersisted(restored[name]) = disk[CollectionPath(name)]
  <2> DEFINE p == disk[CollectionPath(name)]
             c == FromPersisted(p)
  <2>1. name \in Names /\ p \in Snapshots /\ FitPoints(p.points, p.dimension)
    BY <1>4 DEF DiskInv
  <2>2. restored[name] = c
    BY <1>1, <1>2, <2>1
  <2> HIDE DEF p
  <2>3. /\ IsCollection(c) /\ c.index.dimension = p.dimension
        /\ c.distance = p.distance /\ c.points = p.points
    BY <2>1, RoundTrip
  <2> HIDE DEF c
  <2>4. Good(c)
    BY <2>1, <2>3 DEF Good, Snapshots
  <2>5. ToPersisted(c) = p
    BY <2>1, <2>3 DEF ToPersisted, Snapshots
  <2> QED
    BY <2>2, <2>4, <2>5 DEF p
<1> QED
  BY <1>1, <1>4, <1>5 DEF restored

\* After a restart, every collection is filed.
LEMMA RestartKeeps ==
    ASSUME OwnFiles, QdrantInv, RestartQdrant
    PROVE  QdrantInv'
<1> DEFINE restored == LoadAllCollections(disk)
<1>1. /\ collections' = restored /\ disk' = disk /\ saving' = None /\ unsaved' = {}
  BY DEF RestartQdrant
<1>2. /\ DOMAIN restored = {name \in Names : CollectionPath(name) \in DOMAIN disk}
      /\ \A name \in DOMAIN restored :
            /\ Good(restored[name])
            /\ ToPersisted(restored[name]) = disk[CollectionPath(name)]
  BY LoadsFiles DEF QdrantInv
<1> HIDE DEF restored
<1>3. MemoryInv'
  BY <1>1, <1>2 DEF MemoryInv
<1>4. DiskInv' /\ SavingInv'
  BY <1>1 DEF QdrantInv, DiskInv, SavingInv, Free, CollectionPath
<1>5. FiledInv'
  BY <1>1, <1>2 DEF FiledInv, Filed, CollectionPath, ToPersisted
<1> QED
  BY <1>3, <1>4, <1>5 DEF QdrantInv

-----------------------------------------------------------------------------
(* The theorems *)

\* Every step keeps the invariant.
LEMMA InvNext ==
    ASSUME OwnFiles, QdrantInv, [QdrantNext]_qdrant
    PROVE  QdrantInv'
<1>1. ASSUME NEW name \in Names, NEW n \in Dimensions, NEW m \in Metrics, CreateCollection(name, n, m)
      PROVE  QdrantInv'
  BY <1>1, CreateKeeps
<1>2. ASSUME NEW name \in Names, DeleteCollection(name)
      PROVE  QdrantInv'
  BY <1>2, DropKeeps
<1>3. ASSUME NEW name \in Names, NEW p \in QdrantPoints, UpsertPoints(name, <<p>>)
      PROVE  QdrantInv'
  <2>1. <<p>> \in Seq(QdrantPoints)
    OBVIOUS
  <2> QED
    BY <1>3, <2>1, UpsertPointsKeeps
<1>4. ASSUME NEW name \in Names, NEW p \in QdrantPoints, NEW r \in QdrantPoints,
             UpsertPoints(name, <<p, r>>)
      PROVE  QdrantInv'
  <2>1. <<p, r>> \in Seq(QdrantPoints)
    OBVIOUS
  <2> QED
    BY <1>4, <2>1, UpsertPointsKeeps
<1>5. ASSUME NEW name \in Names, NEW ids \in SUBSET PointIds, DeletePoints(name, ids)
      PROVE  QdrantInv'
  <2>1. IsFiniteSet(ids)
    BY QdrantAssumption, FS_Subset
  <2> QED
    BY <1>5, <2>1, DeletePointsKeeps
<1>6. ASSUME NEW name \in Names, name \in DOMAIN collections, NEW f \in Filters,
             DeletePoints(name, Passing(name, f))
      PROVE  QdrantInv'
  <2>1. FitPoints(collections[name].points, collections[name].index.dimension)
    BY <1>6 DEF QdrantInv, MemoryInv, Good
  <2>2. DOMAIN collections[name].points \in SUBSET PointIds
    BY <2>1 DEF FitPoints
  <2>3. Passing(name, f) \in SUBSET PointIds
    BY <2>2 DEF Passing
  <2> QED
    BY <1>5, <1>6, <2>3
<1>7. CASE OpenTmp
  BY <1>7, OpenKeeps
<1>8. CASE FillTmp
  BY <1>8, FillKeeps
<1>9. CASE RenameTmp
  BY <1>9, RenameKeeps
<1>10. CASE RemoveFile
  BY <1>10, RemoveKeeps
<1>11. CASE DiskFails
  BY <1>11, FailureKeeps
<1>12. CASE RestartQdrant
  BY <1>12, RestartKeeps
<1>13. CASE UNCHANGED qdrant
  BY <1>13 DEF qdrant, QdrantInv, MemoryInv, DiskInv, SavingInv, FiledInv, Filed, Free,
               CollectionPath, TmpPath, ToPersisted
<1> QED
  BY <1>1, <1>2, <1>3, <1>4, <1>5, <1>6, <1>7, <1>8, <1>9, <1>10, <1>11, <1>12, <1>13
  DEF QdrantNext

\* What is read when the service starts again is what was filed.
LEMMA InvRestores ==
    ASSUME OwnFiles, QdrantInv
    PROVE  RestartRestores
<1> DEFINE restored == LoadAllCollections(disk)
<1>1. /\ DOMAIN restored = {name \in Names : CollectionPath(name) \in DOMAIN disk}
      /\ \A name \in DOMAIN restored : ToPersisted(restored[name]) = disk[CollectionPath(name)]
  BY LoadsFiles DEF QdrantInv
<1> HIDE DEF restored
<1>2. \A name \in Names : FileOf[name] = name
  BY DEF OwnFiles
<1>3. ASSUME NEW name \in Names \ unsaved, Free \/ saving.name # name
      PROVE  /\ name \in DOMAIN collections <=> FileOf[name] \in DOMAIN restored
             /\ name \in DOMAIN collections =>
                  ToPersisted(restored[FileOf[name]]) = ToPersisted(collections[name])
  <2>1. Filed(name)
    BY <1>3 DEF QdrantInv, FiledInv
  <2> QED
    BY <1>1, <1>2, <2>1 DEF Filed
<1>4. ASSUME NEW path \in DOMAIN disk, path[2] = "json"
      PROVE  disk[path] # Torn
  BY <1>4, QdrantAssumption DEF QdrantInv, DiskInv
<1> QED
  BY <1>3, <1>4 DEF RestartRestores, restored

\* Whenever the process ends, a restart gives back every collection that no refused
\* request and no error of the disk left unsaved and that is not just being saved, with
\* its points, and no file is torn, if the names of collections are their own file names
\* (qdrant_api.rs:224, "Write to a temp file then rename for atomicity").
THEOREM FilesRestore ==
    ASSUME OwnFiles
    PROVE  QdrantSpec => []RestartRestores
<1>1. QdrantInit => QdrantInv
  BY InvInit
<1>2. QdrantInv /\ [QdrantNext]_qdrant => QdrantInv'
  BY InvNext
<1>3. QdrantInv => RestartRestores
  BY InvRestores
<1> QED
  BY <1>1, <1>2, <1>3, PTL DEF QdrantSpec


-----------------------------------------------------------------------------
(* The index under a collection: its graph and its two maps *)

\* The maps lead to nodes of the graph, and back.
Sound(i) ==
    /\ IsIndex(i)
    /\ i.next_id \in Nat
    /\ i.graph \in SUBSET [id : Nat, vector : Vectors] /\ IsFiniteSet(i.graph)
    /\ \A n \in i.graph : n.id < i.next_id
    /\ \A n, m \in i.graph : n.id = m.id => n = m
    /\ IsFiniteSet(DOMAIN i.doc_id_map)
    /\ \A doc \in DOMAIN i.doc_id_map : \E n \in i.graph : n.id = i.doc_id_map[doc]
    /\ MapsMirror(i)

\* An index starts empty.
LEMMA NewIsSound ==
    ASSUME NEW dimension
    PROVE  Sound(NewIndex(dimension))
<1> DEFINE i == NewIndex(dimension)
<1>1. /\ IsIndex(i) /\ i.next_id = 0 /\ i.graph = {} /\ i.count = 0
      /\ i.doc_id_map = <<>> /\ i.id_to_doc = <<>>
  BY DEF NewIndex, IsIndex, IndexFields
<1> HIDE DEF i
<1>2. DOMAIN <<>> = {} /\ Range(<<>>) = {}
  BY DEF Range
<1>3. IsFiniteSet({}) /\ Cardinality({}) = 0
  BY FS_EmptySet
<1> QED
  BY <1>1, <1>2, <1>3 DEF Sound, MapsMirror, i

\* What add changes.
LEMMA AddFields ==
    ASSUME NEW i, IsIndex(i), NEW doc, NEW v, CanAdd(i, doc, v)
    PROVE  LET j == IndexAdd(i, doc, v)
           IN  /\ IsIndex(j) /\ j.dimension = i.dimension
               /\ j.graph = i.graph \union {[id |-> i.next_id, vector |-> v]}
               /\ j.doc_id_map = With(i.doc_id_map, doc, i.next_id)
               /\ j.id_to_doc = With(i.id_to_doc, i.next_id, doc)
               /\ j.next_id = i.next_id + 1 /\ j.count = i.count + 1
<1>1. DOMAIN i = IndexFields
  BY DEF IsIndex
<1> DEFINE g == i.graph \union {[id |-> i.next_id, vector |-> v]}
           d == With(i.doc_id_map, doc, i.next_id)
           e == With(i.id_to_doc, i.next_id, doc)
           n == i.next_id + 1
           k == i.count + 1
           j == [i EXCEPT !.graph = g, !.doc_id_map = d, !.id_to_doc = e, !.next_id = n, !.count = k]
<1>2. IndexAdd(i, doc, v) = j
  BY <1>1 DEF IndexAdd, IndexFields
<1> HIDE DEF g, d, e, n, k
<1>3. /\ j = [field \in IndexFields |-> j[field]] /\ j.dimension = i.dimension
      /\ j.graph = g /\ j.doc_id_map = d /\ j.id_to_doc = e /\ j.next_id = n /\ j.count = k
  BY <1>1 DEF IndexFields
<1> HIDE DEF j
<1> QED
  BY <1>2, <1>3 DEF IsIndex, g, d, e, n, k

\* What remove changes.
LEMMA RemoveFields ==
    ASSUME NEW i, IsIndex(i), NEW doc \in DOMAIN i.doc_id_map
    PROVE  LET j == IndexRemove(i, doc)
           IN  /\ IsIndex(j) /\ j.dimension = i.dimension
               /\ j.graph = i.graph /\ j.next_id = i.next_id
               /\ j.doc_id_map = Without(i.doc_id_map, doc)
               /\ j.id_to_doc = Without(i.id_to_doc, i.doc_id_map[doc])
               /\ j.count = IF i.count = 0 THEN 0 ELSE i.count - 1
<1>1. DOMAIN i = IndexFields
  BY DEF IsIndex
<1> DEFINE d == Without(i.doc_id_map, doc)
           e == Without(i.id_to_doc, i.doc_id_map[doc])
           k == IF i.count = 0 THEN 0 ELSE i.count - 1
           j == [i EXCEPT !.doc_id_map = d, !.id_to_doc = e, !.count = k]
<1>2. IndexRemove(i, doc) = j
  BY <1>1 DEF IndexRemove, IndexFields
<1> HIDE DEF d, e, k
<1>3. /\ j = [field \in IndexFields |-> j[field]] /\ j.dimension = i.dimension
      /\ j.graph = i.graph /\ j.next_id = i.next_id
      /\ j.doc_id_map = d /\ j.id_to_doc = e /\ j.count = k
  BY <1>1 DEF IndexFields
<1> HIDE DEF j
<1> QED
  BY <1>2, <1>3 DEF IsIndex, d, e, k

\* The maps still lead to nodes and back when a document is added.
LEMMA AddKeepsSound ==
    ASSUME NEW i, Sound(i), NEW doc, NEW v \in Vectors
    PROVE  Sound(IndexAdd(i, doc, v))
<1> DEFINE j == IndexAdd(i, doc, v)
           node == [id |-> i.next_id, vector |-> v]
<1>1. CASE ~ CanAdd(i, doc, v)
  BY <1>1 DEF IndexAdd
<1>2. CASE CanAdd(i, doc, v)
  <2>1. /\ IsIndex(j) /\ j.graph = i.graph \union {node}
        /\ j.doc_id_map = With(i.doc_id_map, doc, i.next_id)
        /\ j.id_to_doc = With(i.id_to_doc, i.next_id, doc)
        /\ j.next_id = i.next_id + 1 /\ j.count = i.count + 1
    BY <1>2, AddFields DEF Sound
  <2>2. doc \notin DOMAIN i.doc_id_map
    BY <1>2 DEF CanAdd
  <2> HIDE DEF j
  <2>3. /\ DOMAIN j.doc_id_map = DOMAIN i.doc_id_map \union {doc}
        /\ j.doc_id_map[doc] = i.next_id
        /\ \A d \in DOMAIN i.doc_id_map : j.doc_id_map[d] = i.doc_id_map[d]
    <3> DEFINE m == With(i.doc_id_map, doc, i.next_id)
    <3>1. /\ DOMAIN m = DOMAIN i.doc_id_map \union {doc} /\ m[doc] = i.next_id
          /\ \A z \in DOMAIN i.doc_id_map : z # doc => m[z] = i.doc_id_map[z]
      BY DEF With
    <3>2. j.doc_id_map = m
      BY <2>1
    <3> HIDE DEF m
    <3> QED
      BY <3>1, <3>2, <2>2
  <2>4. /\ DOMAIN j.id_to_doc = DOMAIN i.id_to_doc \union {i.next_id}
        /\ j.id_to_doc[i.next_id] = doc
        /\ \A n \in DOMAIN i.id_to_doc : n # i.next_id => j.id_to_doc[n] = i.id_to_doc[n]
    <3> DEFINE m == With(i.id_to_doc, i.next_id, doc)
    <3>1. /\ DOMAIN m = DOMAIN i.id_to_doc \union {i.next_id} /\ m[i.next_id] = doc
          /\ \A z \in DOMAIN i.id_to_doc : z # i.next_id => m[z] = i.id_to_doc[z]
      BY DEF With
    <3>2. j.id_to_doc = m
      BY <2>1
    <3> HIDE DEF m
    <3> QED
      BY <3>1, <3>2
  <2>5. /\ i.next_id \in Nat /\ node.id = i.next_id /\ node \in [id : Nat, vector : Vectors]
        /\ \A n \in i.graph : n.id \in Nat /\ n.id < i.next_id
    BY DEF Sound
  <2> HIDE DEF node
  <2>6. /\ j.next_id \in Nat
        /\ j.graph \in SUBSET [id : Nat, vector : Vectors] /\ IsFiniteSet(j.graph)
        /\ \A n \in j.graph : n.id < j.next_id
    <3>1. IsFiniteSet(j.graph)
      BY <2>1, FS_AddElement DEF Sound
    <3> QED
      BY <2>1, <2>5, <3>1 DEF Sound
  <2>7. \A n, m \in j.graph : n.id = m.id => n = m
    <3>1. \A n \in i.graph : n.id # node.id
      BY <2>5
    <3> QED
      BY <2>1, <3>1 DEF Sound
  <2>8. IsFiniteSet(DOMAIN j.doc_id_map)
        /\ Cardinality(DOMAIN j.doc_id_map) = Cardinality(DOMAIN i.doc_id_map) + 1
    BY <2>2, <2>3, FS_AddElement DEF Sound
  <2>9. \A d \in DOMAIN j.doc_id_map : \E n \in j.graph : n.id = j.doc_id_map[d]
    BY <2>1, <2>3, <2>5 DEF Sound
  <2>10. \A d \in DOMAIN i.doc_id_map : i.doc_id_map[d] # i.next_id /\ i.doc_id_map[d] \in DOMAIN i.id_to_doc
    BY <2>5 DEF Sound, MapsMirror, Range
  <2>11. MapsMirror(j)
    <3>1. j.count = Cardinality(DOMAIN j.doc_id_map)
      BY <2>1, <2>8 DEF Sound, MapsMirror
    <3>2. Range(j.doc_id_map) = Range(i.doc_id_map) \union {i.next_id}
      BY <2>3 DEF Range
    <3>3. \A d \in DOMAIN j.doc_id_map : j.id_to_doc[j.doc_id_map[d]] = d
      BY <2>3, <2>4, <2>10 DEF Sound, MapsMirror
    <3> QED
      BY <2>4, <3>1, <3>2, <3>3 DEF Sound, MapsMirror
  <2> QED
    BY <2>1, <2>6, <2>7, <2>8, <2>9, <2>11 DEF Sound, j
<1> QED
  BY <1>1, <1>2

\* So they do when one is removed.
LEMMA RemoveKeepsSound ==
    ASSUME NEW i, Sound(i), NEW doc
    PROVE  Sound(IndexRemove(i, doc))
<1> DEFINE j == IndexRemove(i, doc)
<1>1. CASE doc \notin DOMAIN i.doc_id_map
  BY <1>1 DEF IndexRemove
<1>2. CASE doc \in DOMAIN i.doc_id_map
  <2> DEFINE old == i.doc_id_map[doc]
  <2>1. /\ IsIndex(j) /\ j.graph = i.graph /\ j.next_id = i.next_id
        /\ j.doc_id_map = Without(i.doc_id_map, doc)
        /\ j.id_to_doc = Without(i.id_to_doc, old)
        /\ j.count = IF i.count = 0 THEN 0 ELSE i.count - 1
    BY <1>2, RemoveFields DEF Sound
  <2> HIDE DEF j, old
  <2>2. /\ DOMAIN j.doc_id_map = DOMAIN i.doc_id_map \ {doc}
        /\ \A d \in DOMAIN i.doc_id_map : d # doc => j.doc_id_map[d] = i.doc_id_map[d]
    <3> DEFINE m == Without(i.doc_id_map, doc)
    <3>1. DOMAIN m = DOMAIN i.doc_id_map \ {doc} /\ \A z \in DOMAIN i.doc_id_map : z # doc => m[z] = i.doc_id_map[z]
      BY WithoutChanges
    <3>2. j.doc_id_map = m
      BY <2>1
    <3> HIDE DEF m
    <3> QED
      BY <3>1, <3>2
  <2>3. /\ DOMAIN j.id_to_doc = DOMAIN i.id_to_doc \ {old}
        /\ \A n \in DOMAIN i.id_to_doc : n # old => j.id_to_doc[n] = i.id_to_doc[n]
    <3> DEFINE m == Without(i.id_to_doc, old)
    <3>1. DOMAIN m = DOMAIN i.id_to_doc \ {old} /\ \A z \in DOMAIN i.id_to_doc : z # old => m[z] = i.id_to_doc[z]
      BY WithoutChanges
    <3>2. j.id_to_doc = m
      BY <2>1
    <3> HIDE DEF m
    <3> QED
      BY <3>1, <3>2
  <2>4. \A d \in DOMAIN i.doc_id_map :
           /\ i.doc_id_map[d] \in DOMAIN i.id_to_doc
           /\ d # doc => i.doc_id_map[d] # old
    BY <1>2 DEF Sound, MapsMirror, Range, old
  <2>5. /\ IsFiniteSet(DOMAIN j.doc_id_map)
        /\ Cardinality(DOMAIN j.doc_id_map) = Cardinality(DOMAIN i.doc_id_map) - 1
    <3>1. IsFiniteSet(DOMAIN i.doc_id_map)
      BY DEF Sound
    <3> QED
      BY <1>2, <2>2, <3>1, FS_RemoveElement
  <2>6. MapsMirror(j)
    <3>1. j.count = Cardinality(DOMAIN j.doc_id_map)
      <4>1. /\ Cardinality(DOMAIN i.doc_id_map) \in Nat /\ Cardinality(DOMAIN j.doc_id_map) \in Nat
            /\ i.count = Cardinality(DOMAIN i.doc_id_map)
        BY <2>5, FS_CardinalityType DEF Sound, MapsMirror
      <4> QED
        BY <2>1, <2>5, <4>1
    <3>2. Range(j.doc_id_map) = Range(i.doc_id_map) \ {old}
      <4>1. \A r : r \in Range(j.doc_id_map) <=> \E d \in DOMAIN i.doc_id_map : d # doc /\ r = i.doc_id_map[d]
        BY <2>2 DEF Range
      <4>2. \A r : r \in Range(i.doc_id_map) <=> \E d \in DOMAIN i.doc_id_map : r = i.doc_id_map[d]
        BY DEF Range
      <4>3. old = i.doc_id_map[doc]
        BY DEF old
      <4> QED
        BY <2>4, <4>1, <4>2, <4>3
    <3>3. \A d \in DOMAIN j.doc_id_map : j.id_to_doc[j.doc_id_map[d]] = d
      BY <2>2, <2>3, <2>4 DEF Sound, MapsMirror
    <3> QED
      BY <2>3, <3>1, <3>2, <3>3 DEF Sound, MapsMirror
  <2> QED
    BY <2>1, <2>2, <2>5, <2>6 DEF Sound, j
<1> QED
  BY <1>1, <1>2

-----------------------------------------------------------------------------
(* A search of the graph *)

\* Hits are sorted by distance.
LEMMA NearestSorts ==
    ASSUME NEW H, IsFiniteSet(H), \A h \in H : h.distance \in Nat
    PROVE  LET s == Nearest(H)
           IN  /\ s \in SetToSeqs(H)
               /\ \A i, j \in DOMAIN s : i < j => s[i].distance <= s[j].distance
<1> DEFINE R == {p \in H \X H : p[1].distance <= p[2].distance}
           Sorted(s) == \A i, j \in DOMAIN s : i < j => ~ (s[j].distance < s[i].distance)
<1>1. \A x, y : <<x, y>> \in R <=> x \in H /\ y \in H /\ x.distance <= y.distance
  OBVIOUS
<1> HIDE DEF R
<1>2. Ranks(R, H)
  BY <1>1 DEF Ranks
<1>3. PICK s \in SetToSeqs(H) : \A i, j \in DOMAIN s : i < j => <<s[i], s[j]>> \in R
  BY <1>2, RankedList
<1>4. Sorted(s)
  <2> SUFFICES ASSUME NEW i \in DOMAIN s, NEW j \in DOMAIN s, i < j
               PROVE  ~ (s[j].distance < s[i].distance)
    OBVIOUS
  <2>1. s[i] \in H /\ s[j] \in H /\ s[i].distance <= s[j].distance
    BY <1>1, <1>3
  <2>2. s[i].distance \in Nat /\ s[j].distance \in Nat
    BY <2>1
  <2> QED
    BY <2>1, <2>2
<1>5. Nearest(H) = CHOOSE t \in SetToSeqs(H) : Sorted(t)
  BY DEF Nearest, InOrder
<1> DEFINE t == Nearest(H)
<1> HIDE DEF Sorted
<1>6. t \in SetToSeqs(H) /\ Sorted(t)
  BY <1>4, <1>5
<1>7. \A i \in DOMAIN t : t[i] \in H
  BY <1>6, ListsOfSet
<1> HIDE DEF t
<1>8. \A i, j \in DOMAIN t : i < j => t[i].distance <= t[j].distance
  BY <1>6, <1>7 DEF Sorted
<1> QED
  BY <1>6, <1>8 DEF t

\* A finite set has finitely many images.
LEMMA ImageFinite ==
    ASSUME NEW S, IsFiniteSet(S), NEW f, DOMAIN f = S
    PROVE  IsFiniteSet({f[x] : x \in S}) /\ Cardinality({f[x] : x \in S}) <= Cardinality(S)
<1> DEFINE I == {f[x] : x \in S}
           g == [x \in S |-> f[x]]
<1>1. g \in Surjection(S, I)
  BY DEF Surjection
<1> HIDE DEF I, g
<1> QED
  BY <1>1, FS_Surjection DEF I

HitOf(i, q, n) == [doc |-> i.id_to_doc[n.id], distance |-> DistanceOf[<<q, n.vector>>], id |-> n.id]
Live(i, found) == {n \in found : n.id \in DOMAIN i.id_to_doc}
HitsOf(i, q, found) == {HitOf(i, q, n) : n \in Live(i, found)}

\* What hit tells of the node it came from
Tells(i, q, hit, n) ==
    /\ n.id \in DOMAIN i.id_to_doc /\ hit.doc = i.id_to_doc[n.id]
    /\ hit.doc \in DOMAIN i.doc_id_map /\ n.id = i.doc_id_map[hit.doc]
    /\ hit.distance = DistanceOf[<<q, n.vector>>] /\ hit.distance \in Nat
    /\ hit.id = n.id

\* A live node gives a hit for the document that leads to it.
LEMMA HitTells ==
    ASSUME NEW i, Sound(i), NEW q \in Vectors, NEW n \in i.graph, n.id \in DOMAIN i.id_to_doc
    PROVE  Tells(i, q, HitOf(i, q, n), n)
<1> DEFINE hit == HitOf(i, q, n)
<1>1. /\ hit.doc = i.id_to_doc[n.id] /\ hit.distance = DistanceOf[<<q, n.vector>>] /\ hit.id = n.id
  BY DEF HitOf
<1> HIDE DEF hit
<1>2. n.vector \in Vectors
  BY DEF Sound
<1>3. DistanceOf[<<q, n.vector>>] \in Nat
  BY <1>2, VectorsAssumption
<1>4. PICK d \in DOMAIN i.doc_id_map : n.id = i.doc_id_map[d]
  BY DEF Sound, MapsMirror, Range
<1>5. i.id_to_doc[n.id] = d
  BY <1>4 DEF Sound, MapsMirror
<1> QED
  BY <1>1, <1>3, <1>4, <1>5 DEF Tells, hit

\* What search gives: each document at most once, nearest first, no more than are counted.
LEMMA SearchGives ==
    ASSUME NEW i, Sound(i), NEW q \in Vectors, NEW found \in SUBSET i.graph
    PROVE  LET s == IndexSearch(i, q, found)
           IN  /\ DOMAIN s = 1 .. Len(s) /\ Len(s) \in Nat /\ Len(s) <= i.count
               /\ \A k \in DOMAIN s : \E n \in i.graph : Tells(i, q, s[k], n)
               /\ \A j, k \in DOMAIN s : s[j].doc = s[k].doc => j = k
               /\ \A j, k \in DOMAIN s : j < k => s[j].distance <= s[k].distance
<1> DEFINE L == Live(i, found)
           H == HitsOf(i, q, found)
           s == IndexSearch(i, q, found)
<1>1. s = IF DimensionOf[q] # i.dimension THEN <<>> ELSE Nearest(H)
  BY DEF IndexSearch, HitsOf, HitOf, Live
<1>2. CASE DimensionOf[q] # i.dimension
  <2>1. s = <<>> /\ i.count \in Nat
    BY <1>1, <1>2, FS_CardinalityType DEF Sound, MapsMirror
  <2> QED
    BY <2>1
<1>3. CASE DimensionOf[q] = i.dimension
  <2>1. s = Nearest(H)
    BY <1>1, <1>3
  <2>2. L \in SUBSET i.graph /\ IsFiniteSet(L) /\ \A n \in L : n.id \in DOMAIN i.id_to_doc
    BY FS_Subset DEF Live, Sound
  <2>3. \A h \in H : \E n \in L : h = HitOf(i, q, n)
    BY DEF HitsOf
  <2>4. IsFiniteSet(H)
    <3> DEFINE f == [n \in L |-> HitOf(i, q, n)]
    <3>1. H = {f[n] : n \in L}
      BY DEF HitsOf
    <3>2. DOMAIN f = L
      OBVIOUS
    <3> HIDE DEF f, H, L
    <3> QED
      BY <2>2, <3>1, <3>2, ImageFinite
  <2> HIDE DEF H, L
  <2>5. \A h \in H : \E n \in i.graph : h = HitOf(i, q, n) /\ Tells(i, q, h, n)
    BY <2>2, <2>3, HitTells
  <2>6. \A h \in H : h.distance \in Nat
    BY <2>5 DEF Tells
  <2>7. /\ s \in SetToSeqs(H)
        /\ \A j, k \in DOMAIN s : j < k => s[j].distance <= s[k].distance
    BY <2>1, <2>4, <2>6, NearestSorts
  <2> HIDE DEF s
  <2>8. /\ s \in Seq(H) /\ Len(s) = Cardinality(H) /\ DOMAIN s = 1 .. Len(s)
        /\ \A j, k \in DOMAIN s : s[j] = s[k] => j = k
    BY <2>4, <2>7, ListsOfSet
  <2>9. \A k \in DOMAIN s : s[k] \in H
    BY <2>8
  <2>10. \A g, h \in H : g.doc = h.doc => g = h
    <3> SUFFICES ASSUME NEW g \in H, NEW h \in H, g.doc = h.doc
                 PROVE  g = h
      OBVIOUS
    <3>1. PICK n \in i.graph : g = HitOf(i, q, n) /\ Tells(i, q, g, n)
      BY <2>5
    <3>2. PICK m \in i.graph : h = HitOf(i, q, m) /\ Tells(i, q, h, m)
      BY <2>5
    <3>3. n.id = m.id
      BY <3>1, <3>2 DEF Tells
    <3>4. n = m
      BY <3>3 DEF Sound
    <3> QED
      BY <3>1, <3>2, <3>4
  <2>11. Cardinality(H) <= i.count
    <3> DEFINE f == [h \in H |-> h.doc]
    <3>1. f \in Injection(H, DOMAIN i.doc_id_map)
      <4>1. f \in [H -> DOMAIN i.doc_id_map]
        BY <2>5 DEF Tells
      <4>2. \A g, h \in H : f[g] = f[h] => g = h
        BY <2>10
      <4> HIDE DEF f
      <4> QED
        BY <4>1, <4>2 DEF Injection, IsInjective
    <3> HIDE DEF f
    <3>2. IsFiniteSet(DOMAIN i.doc_id_map)
      BY DEF Sound
    <3>3. Cardinality(H) <= Cardinality(DOMAIN i.doc_id_map)
      BY <3>1, <3>2, FS_Injection
    <3> QED
      BY <3>3 DEF Sound, MapsMirror
  <2>12. Len(s) \in Nat /\ Len(s) <= i.count
    BY <2>8, <2>11
  <2>13. \A k \in DOMAIN s : \E n \in i.graph : Tells(i, q, s[k], n)
    BY <2>5, <2>9
  <2>14. \A j, k \in DOMAIN s : s[j].doc = s[k].doc => j = k
    BY <2>8, <2>9, <2>10
  <2> QED
    BY <2>7, <2>8, <2>12, <2>13, <2>14 DEF s
<1> QED
  BY <1>2, <1>3

-----------------------------------------------------------------------------
(* The REST and gRPC services *)

\* f is the recursive function by which the points s are added to the index i.
Adds(f, i, s, D) ==
    f = [x \in SUBSET D |-> IF x = {} THEN i
                            ELSE IndexAdd(f[x \ {Max(x)}], s[Max(x)].id, s[Max(x)].vector)]
AllAdded(i, s) == (CHOOSE f : Adds(f, i, s, DOMAIN s))[DOMAIN s]

\* The recursion defines a function, for lists of every length.
LEMMA AddsExists ==
    ASSUME NEW i, NEW s, NEW n \in Nat
    PROVE  \E f : Adds(f, i, s, 1 .. n)
<1> DEFINE T == {m \in Nat : ~ \E f : Adds(f, i, s, 1 .. m)}
           Put(j, k) == IndexAdd(j, s[k].id, s[k].vector)
<1> SUFFICES ASSUME T # {}
             PROVE  FALSE
  OBVIOUS
<1>1. PICK m \in T : \A k \in T : m <= k
  BY LeastNumber
<1>2. ~ \E f : Adds(f, i, s, 1 .. m)
  OBVIOUS
<1>3. CASE m = 0
  <2> DEFINE f == [x \in SUBSET (1 .. m) |-> i]
  <2>1. \A x \in SUBSET (1 .. m) : x = {}
    BY <1>3
  <2>2. Adds(f, i, s, 1 .. m)
    BY <2>1 DEF Adds
  <2> QED
    BY <1>2, <2>2
<1>4. CASE m # 0
  <2>1. m - 1 \in Nat /\ m - 1 \notin T
    BY <1>1, <1>4
  <2>2. PICK g : Adds(g, i, s, 1 .. m - 1)
    BY <2>1
  <2> DEFINE f == [x \in SUBSET (1 .. m) |-> IF m \in x THEN Put(g[x \ {m}], m) ELSE g[x]]
  <2>3. ASSUME NEW x \in SUBSET (1 .. m)
        PROVE  f[x] = IF x = {} THEN i ELSE Put(f[x \ {Max(x)}], Max(x))
    <3>1. x \ {m} \in SUBSET (1 .. m - 1) /\ x \ {m} \in SUBSET (1 .. m) /\ m \notin x \ {m}
      OBVIOUS
    <3>2. CASE m \in x
      <4>1. Max(x) = m
        BY <2>1, <3>2, MaxTop, m = (m - 1) + 1
      <4>2. f[x \ {m}] = g[x \ {m}]
        BY <3>1
      <4> HIDE DEF f
      <4>3. f[x] = Put(g[x \ {m}], m)
        BY <3>2 DEF f
      <4> QED
        BY <3>2, <4>1, <4>2, <4>3
    <3>3. CASE m \notin x
      <4>1. x \in SUBSET (1 .. m - 1) /\ x \ {Max(x)} \in SUBSET (1 .. m - 1)
        BY <3>1, <3>3
      <4>2. g[x] = IF x = {} THEN i ELSE Put(g[x \ {Max(x)}], Max(x))
        BY <2>2, <4>1 DEF Adds
      <4>3. f[x] = g[x] /\ f[x \ {Max(x)}] = g[x \ {Max(x)}]
        BY <3>3
      <4> QED
        BY <4>2, <4>3
    <3> QED
      BY <3>2, <3>3
  <2>4. f = [x \in SUBSET (1 .. m) |-> f[x]]
    OBVIOUS
  <2> HIDE DEF f
  <2>5. Adds(f, i, s, 1 .. m)
    BY <2>3, <2>4 DEF Adds
  <2> QED
    BY <1>2, <2>5
<1> QED
  BY <1>3, <1>4

\* An index to which points were added is sound.
LEMMA AllAddedSound ==
    ASSUME NEW i, Sound(i), NEW s, NEW n \in Nat, DOMAIN s = 1 .. n,
           \A k \in 1 .. n : s[k].vector \in Vectors
    PROVE  Sound(AllAdded(i, s))
<1> DEFINE f == CHOOSE g : Adds(g, i, s, DOMAIN s)
           T == {m \in Nat : m <= n /\ ~ Sound(f[1 .. m])}
<1>1. Adds(f, i, s, 1 .. n)
  BY AddsExists
<1>2. AllAdded(i, s) = f[1 .. n]
  BY DEF AllAdded
<1> HIDE DEF f
<1>3. SUFFICES ASSUME T # {}
               PROVE  FALSE
  <2>1. n \notin T
    BY <1>3
  <2> QED
    BY <1>2, <2>1
<1>4. PICK m \in T : \A k \in T : m <= k
  <2>1. T \in SUBSET Nat
    OBVIOUS
  <2> HIDE DEF T
  <2> QED
    BY <1>3, <2>1, LeastNumber
<1>5. 1 .. m \in SUBSET (1 .. n)
  OBVIOUS
<1>6. f[1 .. m] = IF 1 .. m = {} THEN i
                  ELSE IndexAdd(f[(1 .. m) \ {Max(1 .. m)}], s[Max(1 .. m)].id, s[Max(1 .. m)].vector)
  BY <1>1, <1>5 DEF Adds
<1>7. CASE m = 0
  <2>1. f[1 .. m] = i
    BY <1>6, <1>7
  <2> QED
    BY <2>1
<1>8. CASE m # 0
  <2>1. m - 1 \in Nat /\ m - 1 \notin T /\ m - 1 <= n /\ (m - 1) + 1 = m /\ m \in 1 .. n
    BY <1>4, <1>8
  <2>2. Max(1 .. m) = m
    <3>1. 1 .. m \in SUBSET (1 .. (m - 1) + 1) /\ m \in 1 .. m
      BY <1>8
    <3> QED
      BY <2>1, <3>1, MaxTop
  <2>3. 1 .. m # {} /\ (1 .. m) \ {m} = 1 .. m - 1
    <3>1. m \in Nat /\ 1 <= m
      BY <1>8
    <3> HIDE DEF T
    <3>2. 1 .. m # {}
      BY <3>1
    <3>3. (1 .. m) \ {m} = 1 .. m - 1
      BY <3>1
    <3> QED
      BY <3>2, <3>3
  <2>4. Sound(f[1 .. m - 1])
    BY <2>1
  <2>5. f[1 .. m] = IndexAdd(f[1 .. m - 1], s[m].id, s[m].vector)
    BY <1>6, <2>2, <2>3
  <2>6. Sound(f[1 .. m])
    BY <2>1, <2>4, <2>5, AddKeepsSound
  <2> QED
    BY <2>6
<1> QED
  BY <1>7, <1>8

\* Every index of the services is sound.
IndexesInv == \A name \in DOMAIN indexes : Sound(indexes[name])

\* A call for one collection leaves every index sound.
LEMMA ApiKeeps ==
    ASSUME IndexesInv, [ApiNext]_indexes
    PROVE  IndexesInv'
<1>1. ASSUME NEW name \in Names, NEW dimension \in Dimensions, CreateIndex(name, dimension)
      PROVE  IndexesInv'
  <2> DEFINE new == NewIndex(dimension)
             m == With(indexes, name, new)
  <2>1. Sound(new)
    BY NewIsSound
  <2> HIDE DEF new
  <2>2. /\ DOMAIN m = DOMAIN indexes \union {name} /\ m[name] = new
        /\ \A z \in DOMAIN indexes : z # name => m[z] = indexes[z]
    BY DEF With
  <2>3. indexes' = indexes \/ indexes' = m
    BY <1>1 DEF CreateIndex, new
  <2> HIDE DEF m
  <2> QED
    BY <2>1, <2>2, <2>3 DEF IndexesInv
<1>2. ASSUME NEW name \in Names, DeleteIndex(name)
      PROVE  IndexesInv'
  <2> DEFINE m == Without(indexes, name)
  <2>1. DOMAIN m = DOMAIN indexes \ {name} /\ \A z \in DOMAIN indexes : z # name => m[z] = indexes[z]
    BY WithoutChanges
  <2>2. indexes' = m
    BY <1>2 DEF DeleteIndex
  <2> HIDE DEF m
  <2> QED
    BY <2>1, <2>2 DEF IndexesInv
<1>3. ASSUME NEW name, NEW points \in Seq(Points), UpsertVectors(name, points)
      PROVE  IndexesInv'
  <2> DEFINE i == indexes[name]
             j == AllAdded(i, points)
  <2>1. name \in DOMAIN indexes /\ indexes' = [indexes EXCEPT ![name] = j]
    BY <1>3 DEF UpsertVectors, FoldLeft, MapThenFoldSet, AllAdded, Adds
  <2>2. Sound(i)
    BY <2>1 DEF IndexesInv
  <2>3. /\ Len(points) \in Nat /\ DOMAIN points = 1 .. Len(points)
        /\ \A k \in 1 .. Len(points) : points[k].vector \in Vectors
    BY VectorsAssumption
  <2> HIDE DEF i
  <2>4. Sound(j)
    BY <2>2, <2>3, AllAddedSound
  <2> HIDE DEF j
  <2> QED
    BY <2>1, <2>4 DEF IndexesInv
<1>4. CASE UNCHANGED indexes
  BY <1>4 DEF IndexesInv
<1>5. ASSUME NEW p \in Points, NEW r \in Points
      PROVE  <<p>> \in Seq(Points) /\ <<p, r>> \in Seq(Points)
  OBVIOUS
<1> QED
  BY <1>1, <1>2, <1>3, <1>4, <1>5 DEF ApiNext

\* Sound indexes answer with what was added.
LEMMA SoundAnswers ==
    ASSUME IndexesInv
    PROVE  ApiAnswersFresh
<1> SUFFICES ASSUME NEW name \in DOMAIN indexes, NEW q \in Vectors, NEW found \in Found(indexes[name], 2)
             PROVE  LET index == indexes[name]
                        answer == SearchVectors(name, q, found)
                    IN  /\ MapsMirror(index)
                        /\ \A i, j \in DOMAIN answer : answer[i].doc = answer[j].doc => i = j
                        /\ Len(answer) <= PointsCount(name)
                        /\ \A hit \in Range(answer) : \E node \in index.graph :
                              /\ node.id = index.doc_id_map[hit.doc]
                              /\ hit.distance = DistanceOf[<<q, node.vector>>]
  BY DEF ApiAnswersFresh
<1> DEFINE index == indexes[name]
           answer == SearchVectors(name, q, found)
<1>1. Sound(index) /\ found \in SUBSET index.graph
  BY DEF IndexesInv, Found
<1>2. answer = IndexSearch(index, q, found) /\ PointsCount(name) = index.count
  BY DEF SearchVectors, PointsCount
<1> HIDE DEF index, answer
<1>3. /\ Len(answer) <= index.count
      /\ \A k \in DOMAIN answer : \E n \in index.graph : Tells(index, q, answer[k], n)
      /\ \A j, k \in DOMAIN answer : answer[j].doc = answer[k].doc => j = k
  BY <1>1, <1>2, SearchGives
<1>4. ASSUME NEW hit \in Range(answer)
      PROVE  \E node \in index.graph : /\ node.id = index.doc_id_map[hit.doc]
                                       /\ hit.distance = DistanceOf[<<q, node.vector>>]
  BY <1>3 DEF Range, Tells
<1> QED
  BY <1>1, <1>2, <1>3, <1>4 DEF Sound, index, answer

-----------------------------------------------------------------------------
(* A collection over its index: ids, uids and nodes *)

\* The point id has a uid that leads back to it, and whose node has its vector.
Held(c, id) ==
    /\ c.id_to_uid[id] \in DOMAIN c.uid_to_id
    /\ c.uid_to_id[c.id_to_uid[id]] = id
    /\ \E n \in c.index.graph : /\ n.id = c.index.doc_id_map[c.id_to_uid[id]]
                                /\ n.vector = c.points[id].vector

\* Every point is held, and every uid in use is the one of a point.
Linked(c) ==
    /\ IsCollection(c)
    /\ Sound(c.index)
    /\ c.next_uid \in Nat
    /\ FitPoints(c.points, c.index.dimension)
    /\ DOMAIN c.points = DOMAIN c.id_to_uid
    /\ DOMAIN c.uid_to_id = DOMAIN c.index.doc_id_map
    /\ \A id \in DOMAIN c.points : Held(c, id)
    /\ \A uid \in DOMAIN c.uid_to_id :
          /\ uid \in Nat /\ uid < c.next_uid
          /\ c.uid_to_id[uid] \in DOMAIN c.points
          /\ c.id_to_uid[c.uid_to_id[uid]] = uid

\* A collection starts with no points.
LEMMA NewIsLinked ==
    ASSUME NEW dimension, NEW distance
    PROVE  Linked(NewCollection(dimension, distance))
<1> DEFINE c == NewCollection(dimension, distance)
           i == NewIndex(dimension)
<1>1. /\ c.index = i /\ c.points = <<>> /\ c.id_to_uid = <<>> /\ c.uid_to_id = <<>>
      /\ c.next_uid = 0
  BY DEF NewCollection
<1>2. i.doc_id_map = <<>>
  BY DEF NewIndex
<1>3. Sound(i)
  BY NewIsSound
<1>4. IsCollection(c)
  BY NewIsCollection
<1> HIDE DEF c, i
<1>5. DOMAIN <<>> = {} /\ <<>> \in [{} -> PointRecords]
  OBVIOUS
<1>6. FitPoints(<<>>, c.index.dimension)
  BY <1>5 DEF FitPoints
<1> QED
  BY <1>1, <1>2, <1>3, <1>4, <1>5, <1>6 DEF Linked, c

\* What delete_by_id changes.
LEMMA DeleteFields ==
    ASSUME NEW c, IsCollection(c), NEW id
    PROVE  LET d == DeleteById(c, id)
               uid == c.id_to_uid[id]
           IN  /\ d.next_uid = c.next_uid
               /\ d.id_to_uid = Without(c.id_to_uid, id)
               /\ d.points = Without(c.points, id)
               /\ d.index = IF id \in DOMAIN c.id_to_uid THEN IndexRemove(c.index, uid) ELSE c.index
               /\ d.uid_to_id = IF id \in DOMAIN c.id_to_uid THEN Without(c.uid_to_id, uid) ELSE c.uid_to_id
<1> DEFINE uid == c.id_to_uid[id]
           i == IF id \in DOMAIN c.id_to_uid THEN IndexRemove(c.index, uid) ELSE c.index
           docs == IF id \in DOMAIN c.id_to_uid THEN Without(c.uid_to_id, uid) ELSE c.uid_to_id
           ids == Without(c.id_to_uid, id)
           points == Without(c.points, id)
           d == [c EXCEPT !.index = i, !.uid_to_id = docs, !.id_to_uid = ids, !.points = points]
<1>1. DOMAIN c = CollectionFields
  BY DEF IsCollection
<1>2. DeleteById(c, id) = d
  BY <1>1 DEF DeleteById, CollectionFields
<1> HIDE DEF i, docs, ids, points
<1>3. /\ d.index = i /\ d.uid_to_id = docs /\ d.id_to_uid = ids /\ d.points = points
      /\ d.next_uid = c.next_uid
  BY <1>1 DEF CollectionFields
<1> HIDE DEF d
<1> QED
  BY <1>2, <1>3 DEF i, docs, ids, points

\* delete_by_id leaves the other points linked.
LEMMA DeleteKeepsLinked ==
    ASSUME NEW c, Linked(c), NEW id
    PROVE  /\ Linked(DeleteById(c, id))
           /\ SameKind(c, DeleteById(c, id))
           /\ DOMAIN DeleteById(c, id).points = DOMAIN c.points \ {id}
<1> DEFINE d == DeleteById(c, id)
           uid == c.id_to_uid[id]
           ids == Without(c.id_to_uid, id)
           points == Without(c.points, id)
           i == c.index
           j == IF id \in DOMAIN c.id_to_uid THEN IndexRemove(i, uid) ELSE i
           uids == IF id \in DOMAIN c.id_to_uid THEN Without(c.uid_to_id, uid) ELSE c.uid_to_id
           used == Without(i.doc_id_map, uid)
<1>1. /\ d.next_uid = c.next_uid /\ d.id_to_uid = ids /\ d.points = points
      /\ d.index = j /\ d.uid_to_id = uids
  BY DeleteFields DEF Linked
<1>2. SameKind(c, d)
  BY DeleteKeeps DEF Linked
<1>3. /\ DOMAIN ids = DOMAIN c.id_to_uid \ {id} /\ DOMAIN points = DOMAIN c.points \ {id}
      /\ \A x \in DOMAIN c.id_to_uid : x # id => ids[x] = c.id_to_uid[x]
      /\ \A x \in DOMAIN c.points : x # id => points[x] = c.points[x]
  BY WithoutChanges
<1>4. FitPoints(points, c.index.dimension)
  BY WithoutFits DEF Linked
<1>5. CASE id \notin DOMAIN c.id_to_uid
  <2>1. j = i /\ uids = c.uid_to_id
    BY <1>5
  <2>2. \A x \in DOMAIN c.points : x # id
    BY <1>5 DEF Linked
  <2> HIDE DEF d, ids, points, j, uids
  <2>3. \A x \in DOMAIN d.points : Held(d, x)
    BY <1>1, <1>3, <2>1, <2>2 DEF Linked, Held
  <2> QED
    BY <1>1, <1>2, <1>3, <1>4, <1>5, <2>1, <2>2, <2>3 DEF Linked, SameKind, d
<1>6. CASE id \in DOMAIN c.id_to_uid
  <2>1. j = IndexRemove(i, uid) /\ uids = Without(c.uid_to_id, uid)
    BY <1>6
  <2>2. id \in DOMAIN c.points /\ uid \in DOMAIN i.doc_id_map /\ uid \in DOMAIN c.uid_to_id
    BY <1>6 DEF Linked, Held
  <2>3. Sound(j)
    BY <2>1, RemoveKeepsSound DEF Linked
  <2>4. j.graph = i.graph /\ j.doc_id_map = used
    BY <2>1, <2>2, RemoveFields DEF Linked, Sound
  <2>5. /\ DOMAIN used = DOMAIN i.doc_id_map \ {uid}
        /\ \A x \in DOMAIN i.doc_id_map : x # uid => used[x] = i.doc_id_map[x]
    BY WithoutChanges
  <2>6. /\ DOMAIN uids = DOMAIN c.uid_to_id \ {uid}
        /\ \A x \in DOMAIN c.uid_to_id : x # uid => uids[x] = c.uid_to_id[x]
    <3> DEFINE docs == Without(c.uid_to_id, uid)
    <3>1. DOMAIN docs = DOMAIN c.uid_to_id \ {uid} /\ \A x \in DOMAIN c.uid_to_id : x # uid => docs[x] = c.uid_to_id[x]
      BY WithoutChanges
    <3>2. uids = docs
      BY <2>1
    <3> HIDE DEF docs, uids
    <3> QED
      BY <3>1, <3>2
  <2>7. \A x \in DOMAIN c.points : x # id => c.id_to_uid[x] # uid
    BY <2>2 DEF Linked, Held
  <2>8. c.uid_to_id[uid] = id
    BY <2>2 DEF Linked, Held
  <2> HIDE DEF d, ids, points, j, uids, used, uid
  <2>9. ASSUME NEW x \in DOMAIN d.points
        PROVE  Held(d, x)
    <3>1. /\ x \in DOMAIN c.points /\ x # id /\ Held(c, x)
          /\ d.points[x] = c.points[x] /\ d.id_to_uid[x] = c.id_to_uid[x]
      BY <1>1, <1>3 DEF Linked
    <3>2. c.id_to_uid[x] # uid /\ c.id_to_uid[x] \in DOMAIN i.doc_id_map
      BY <2>7, <3>1 DEF Linked, Held
    <3>3. d.index.graph = i.graph /\ d.index.doc_id_map[c.id_to_uid[x]] = i.doc_id_map[c.id_to_uid[x]]
      BY <1>1, <2>4, <2>5, <3>2
    <3>4. d.uid_to_id[c.id_to_uid[x]] = x /\ c.id_to_uid[x] \in DOMAIN d.uid_to_id
      BY <1>1, <2>6, <3>1, <3>2 DEF Held
    <3> QED
      BY <3>1, <3>3, <3>4 DEF Held
  <2>10. ASSUME NEW u \in DOMAIN d.uid_to_id
         PROVE  /\ u \in Nat /\ u < d.next_uid
                /\ d.uid_to_id[u] \in DOMAIN d.points
                /\ d.id_to_uid[d.uid_to_id[u]] = u
    <3>1. u \in DOMAIN c.uid_to_id /\ u # uid /\ d.uid_to_id[u] = c.uid_to_id[u]
      BY <1>1, <2>6
    <3>2. c.uid_to_id[u] # id
      BY <3>1 DEF Linked, uid
    <3>3. c.uid_to_id[u] \in DOMAIN c.points /\ c.uid_to_id[u] \in DOMAIN c.id_to_uid
      BY <3>1 DEF Linked
    <3> QED
      BY <1>1, <1>3, <3>1, <3>2, <3>3 DEF Linked
  <2>11. DOMAIN d.points = DOMAIN d.id_to_uid /\ DOMAIN d.uid_to_id = DOMAIN d.index.doc_id_map
    BY <1>1, <1>3, <2>4, <2>5, <2>6 DEF Linked
  <2>12. d.next_uid \in Nat /\ FitPoints(d.points, d.index.dimension) /\ Sound(d.index)
    BY <1>1, <1>2, <1>4, <2>3 DEF Linked, SameKind
  <2> QED
    BY <1>1, <1>2, <1>3, <2>9, <2>10, <2>11, <2>12 DEF Linked, SameKind, d
<1> QED
  BY <1>5, <1>6

IdPoints == [id : PointIds, vector : Vectors, payload : Payloads]

\* What upsert does to a collection without the point.
LEMMA UpsertFields ==
    ASSUME NEW c, IsCollection(c), NEW p
    PROVE  LET d == Upsert(c, p)
               e == DeleteById(c, p.id)
           IN  /\ d.next_uid = c.next_uid + 1
               /\ d.index = IndexAdd(e.index, c.next_uid, p.vector)
               /\ d.id_to_uid = With(c.id_to_uid, p.id, c.next_uid)
               /\ d.uid_to_id = With(e.uid_to_id, c.next_uid, p.id)
               /\ d.points = With(c.points, p.id, Entry(p))
<1> DEFINE known == p.id \in DOMAIN c.id_to_uid
           old == c.id_to_uid[p.id]
           index == IF known THEN IndexRemove(c.index, old) ELSE c.index
           uids == IF known THEN Without(c.uid_to_id, old) ELSE c.uid_to_id
           i == IndexAdd(index, c.next_uid, p.vector)
           ids == With(c.id_to_uid, p.id, c.next_uid)
           docs == With(uids, c.next_uid, p.id)
           points == With(c.points, p.id, Entry(p))
           n == c.next_uid + 1
           d == [c EXCEPT !.next_uid = n, !.index = i, !.id_to_uid = ids,
                          !.uid_to_id = docs, !.points = points]
           e == DeleteById(c, p.id)
<1>1. DOMAIN c = CollectionFields
  BY DEF IsCollection
<1>2. Upsert(c, p) = d
  BY <1>1 DEF Upsert, CollectionFields, Entry
<1>3. e.index = index /\ e.uid_to_id = uids
  BY DeleteFields
<1> HIDE DEF i, ids, docs, points, n
<1>4. /\ d.index = i /\ d.uid_to_id = docs /\ d.id_to_uid = ids /\ d.points = points
      /\ d.next_uid = n
  BY <1>1 DEF CollectionFields
<1> HIDE DEF d, e, index, uids
<1> QED
  BY <1>2, <1>3, <1>4 DEF i, ids, docs, points, n, e

\* upsert links the point, whose uid is new, to a node with its vector.
LEMMA UpsertKeepsLinked ==
    ASSUME NEW c, Linked(c), NEW p \in IdPoints, DimensionOf[p.vector] = c.index.dimension
    PROVE  Linked(Upsert(c, p)) /\ SameKind(c, Upsert(c, p))
<1> DEFINE d == Upsert(c, p)
           e == DeleteById(c, p.id)
           new == c.next_uid
           i == e.index
           j == IndexAdd(i, new, p.vector)
           ids == With(c.id_to_uid, p.id, new)
           docs == With(e.uid_to_id, new, p.id)
           points == With(c.points, p.id, Entry(p))
           used == With(i.doc_id_map, new, i.next_id)
           node == [id |-> i.next_id, vector |-> p.vector]
<1>1. p.id \in PointIds /\ p.vector \in Vectors /\ p.payload \in Payloads
  BY DEF IdPoints
<1>2. SameKind(c, d)
  BY UpsertKeeps DEF Linked
<1>3. Linked(e) /\ SameKind(c, e) /\ DOMAIN e.points = DOMAIN c.points \ {p.id}
  BY DeleteKeepsLinked
<1>4. /\ d.next_uid = new + 1 /\ d.index = j /\ d.id_to_uid = ids /\ d.uid_to_id = docs
      /\ d.points = points
  BY UpsertFields DEF Linked
<1>5. /\ e.next_uid = new /\ new \in Nat
      /\ e.id_to_uid = Without(c.id_to_uid, p.id) /\ e.points = Without(c.points, p.id)
  BY DeleteFields DEF Linked
<1>6. /\ \A x \in DOMAIN c.id_to_uid : x # p.id => e.id_to_uid[x] = c.id_to_uid[x]
      /\ \A x \in DOMAIN c.points : x # p.id => e.points[x] = c.points[x]
  <2> DEFINE f == Without(c.id_to_uid, p.id)
             g == Without(c.points, p.id)
  <2>1. /\ \A x \in DOMAIN c.id_to_uid : x # p.id => f[x] = c.id_to_uid[x]
        /\ \A x \in DOMAIN c.points : x # p.id => g[x] = c.points[x]
    BY WithoutChanges
  <2>2. e.id_to_uid = f /\ e.points = g
    BY <1>5
  <2> HIDE DEF f, g, e
  <2> QED
    BY <2>1, <2>2
<1>7. /\ DOMAIN ids = DOMAIN c.id_to_uid \union {p.id} /\ ids[p.id] = new
      /\ \A x \in DOMAIN c.id_to_uid : x # p.id => ids[x] = c.id_to_uid[x]
  BY DEF With
<1>8. /\ DOMAIN points = DOMAIN c.points \union {p.id} /\ points[p.id] = Entry(p)
      /\ \A x \in DOMAIN c.points : x # p.id => points[x] = c.points[x]
  BY DEF With
<1>9. new \notin DOMAIN e.uid_to_id /\ new \notin DOMAIN i.doc_id_map
  BY <1>3, <1>5 DEF Linked
<1>10. /\ DOMAIN docs = DOMAIN e.uid_to_id \union {new} /\ docs[new] = p.id
       /\ \A u \in DOMAIN e.uid_to_id : u # new => docs[u] = e.uid_to_id[u]
  BY DEF With
<1>11. /\ DOMAIN used = DOMAIN i.doc_id_map \union {new} /\ used[new] = i.next_id
       /\ \A u \in DOMAIN i.doc_id_map : u # new => used[u] = i.doc_id_map[u]
  BY DEF With
<1>12. CanAdd(i, new, p.vector)
  BY <1>3, <1>9 DEF CanAdd, SameKind
<1>13. Sound(i)
  BY <1>3 DEF Linked
<1>14. j.graph = i.graph \union {node} /\ j.doc_id_map = used
  BY <1>12, <1>13, AddFields DEF Sound
<1>15. Sound(j)
  BY <1>1, <1>13, AddKeepsSound
<1>16. Entry(p).vector = p.vector /\ Entry(p) \in PointRecords
  BY <1>1 DEF Entry, PointRecords
<1>17. node.id = i.next_id /\ node.vector = p.vector
  OBVIOUS
<1> HIDE DEF d, e, i, j, ids, docs, points, used, node, new
<1>18. FitPoints(points, c.index.dimension)
  <2> DEFINE D == DOMAIN points
  <2>1. /\ DOMAIN c.points \in SUBSET PointIds
        /\ \A x \in DOMAIN c.points : c.points[x] \in PointRecords /\ DimensionOf[c.points[x].vector] = c.index.dimension
    BY DEF Linked, FitPoints
  <2>2. D \in SUBSET PointIds
    BY <1>1, <1>8, <2>1
  <2>3. \A x \in D : points[x] \in PointRecords /\ DimensionOf[points[x].vector] = c.index.dimension
    BY <1>8, <1>16, <2>1
  <2>4. points = [x \in D |-> points[x]]
    BY DEF points, With
  <2> HIDE DEF D
  <2>5. points \in [D -> PointRecords]
    BY <2>3, <2>4
  <2> QED
    BY <2>2, <2>3, <2>5 DEF FitPoints, D
<1>19. ASSUME NEW x \in DOMAIN d.points
       PROVE  Held(d, x)
  <2>1. CASE x = p.id
    <3>1. d.id_to_uid[x] = new /\ new \in DOMAIN d.uid_to_id /\ d.uid_to_id[new] = x
      BY <1>4, <1>7, <1>10, <2>1
    <3>2. node \in d.index.graph /\ d.index.doc_id_map[new] = i.next_id
      BY <1>4, <1>11, <1>14
    <3>3. d.points[x].vector = p.vector
      BY <1>4, <1>8, <1>16, <2>1
    <3> QED
      BY <1>17, <3>1, <3>2, <3>3 DEF Held
  <2>2. CASE x # p.id
    <3>1. x \in DOMAIN c.points /\ x \in DOMAIN c.id_to_uid /\ x \in DOMAIN e.points
      BY <1>3, <1>4, <1>8, <2>2 DEF Linked
    <3>2. Held(e, x)
      BY <1>3, <3>1 DEF Linked
    <3>3. d.id_to_uid[x] = e.id_to_uid[x] /\ d.points[x] = e.points[x]
      BY <1>4, <1>6, <1>7, <1>8, <2>2, <3>1
    <3> DEFINE u == e.id_to_uid[x]
    <3>4. u \in DOMAIN e.uid_to_id /\ e.uid_to_id[u] = x /\ u # new /\ u \in DOMAIN i.doc_id_map
      BY <1>3, <1>9, <3>2 DEF Held, Linked, i
    <3>5. PICK n \in i.graph : n.id = i.doc_id_map[u] /\ n.vector = e.points[x].vector
      BY <3>2 DEF Held, i
    <3> HIDE DEF u
    <3>6. u \in DOMAIN d.uid_to_id /\ d.uid_to_id[u] = x
      BY <1>4, <1>10, <3>4
    <3>7. n \in d.index.graph /\ d.index.doc_id_map[u] = i.doc_id_map[u]
      BY <1>4, <1>11, <1>14, <3>4
    <3>8. d.id_to_uid[x] = u
      BY <3>3 DEF u
    <3> QED
      BY <3>3, <3>5, <3>6, <3>7, <3>8 DEF Held
  <2> QED
    BY <2>1, <2>2
<1>20. ASSUME NEW u \in DOMAIN d.uid_to_id
       PROVE  /\ u \in Nat /\ u < d.next_uid
              /\ d.uid_to_id[u] \in DOMAIN d.points
              /\ d.id_to_uid[d.uid_to_id[u]] = u
  <2>1. CASE u = new
    BY <1>4, <1>5, <1>7, <1>8, <1>10, <2>1
  <2>2. CASE u # new
    <3>1. u \in DOMAIN e.uid_to_id /\ d.uid_to_id[u] = e.uid_to_id[u]
      BY <1>4, <1>10, <2>2
    <3> DEFINE x == e.uid_to_id[u]
    <3>2. u \in Nat /\ u < new /\ x \in DOMAIN e.points /\ e.id_to_uid[x] = u
      BY <1>3, <1>5, <3>1 DEF Linked
    <3> HIDE DEF x
    <3>3. x \in DOMAIN c.points /\ x # p.id /\ x \in DOMAIN c.id_to_uid
      BY <1>3, <3>2 DEF Linked
    <3>4. x \in DOMAIN d.points /\ d.id_to_uid[x] = u
      BY <1>4, <1>6, <1>7, <1>8, <3>2, <3>3
    <3>5. u < d.next_uid
      BY <1>4, <1>5, <3>2
    <3> QED
      BY <3>1, <3>2, <3>4, <3>5 DEF x
  <2> QED
    BY <2>1, <2>2
<1>21. DOMAIN d.points = DOMAIN d.id_to_uid /\ DOMAIN d.uid_to_id = DOMAIN d.index.doc_id_map
  BY <1>3, <1>4, <1>7, <1>8, <1>10, <1>11, <1>14 DEF Linked, i
<1>22. d.next_uid \in Nat /\ FitPoints(d.points, d.index.dimension) /\ Sound(d.index)
  BY <1>2, <1>4, <1>5, <1>15, <1>18 DEF SameKind
<1> QED
  BY <1>2, <1>19, <1>20, <1>21, <1>22 DEF Linked, SameKind, d

\* Upserting a list of points that fit leaves the collection linked.
LEMMA UpsertedLinked ==
    ASSUME NEW c, Linked(c), NEW s, NEW n \in Nat, DOMAIN s = 1 .. n,
           \A k \in 1 .. n : s[k] \in IdPoints /\ DimensionOf[s[k].vector] = c.index.dimension
    PROVE  Linked(Upserted(c, s))
<1> DEFINE f == CHOOSE g : Folds(g, c, s, DOMAIN s)
           Kin(d) == Linked(d) /\ SameKind(c, d)
           T == {m \in Nat : m <= n /\ ~ Kin(f[1 .. m])}
<1>1. Folds(f, c, s, 1 .. n)
  BY FoldExists
<1>2. Upserted(c, s) = f[1 .. n]
  BY DEF Upserted
<1> HIDE DEF f
<1>3. SUFFICES ASSUME T # {}
               PROVE  FALSE
  <2>1. n \notin T
    BY <1>3
  <2> QED
    BY <1>2, <2>1
<1>4. PICK m \in T : \A k \in T : m <= k
  <2>1. T \in SUBSET Nat
    OBVIOUS
  <2> HIDE DEF T
  <2> QED
    BY <1>3, <2>1, LeastNumber
<1>5. 1 .. m \in SUBSET (1 .. n)
  OBVIOUS
<1>6. f[1 .. m] = IF 1 .. m = {} THEN c ELSE Upsert(f[(1 .. m) \ {Max(1 .. m)}], s[Max(1 .. m)])
  BY <1>1, <1>5 DEF Folds
<1>7. CASE m = 0
  <2>1. f[1 .. m] = c
    BY <1>6, <1>7
  <2>2. Kin(c)
    BY DEF SameKind, Linked
  <2> QED
    BY <2>1, <2>2
<1>8. CASE m # 0
  <2>1. m - 1 \in Nat /\ m - 1 \notin T /\ m - 1 <= n /\ (m - 1) + 1 = m /\ m \in 1 .. n
    BY <1>4, <1>8
  <2>2. Max(1 .. m) = m
    <3>1. 1 .. m \in SUBSET (1 .. (m - 1) + 1) /\ m \in 1 .. m
      BY <1>8
    <3> QED
      BY <2>1, <3>1, MaxTop
  <2>3. 1 .. m # {} /\ (1 .. m) \ {m} = 1 .. m - 1
    <3>1. m \in Nat /\ 1 <= m
      BY <1>8
    <3> HIDE DEF T
    <3>2. 1 .. m # {}
      BY <3>1
    <3>3. (1 .. m) \ {m} = 1 .. m - 1
      BY <3>1
    <3> QED
      BY <3>2, <3>3
  <2> DEFINE d == f[1 .. m - 1]
             e == Upsert(d, s[m])
  <2>4. Kin(d)
    BY <2>1
  <2>5. f[1 .. m] = e
    BY <1>6, <2>2, <2>3
  <2>6. s[m] \in IdPoints /\ DimensionOf[s[m].vector] = d.index.dimension
    BY <2>1, <2>4 DEF SameKind
  <2> HIDE DEF d
  <2>7. Linked(e) /\ SameKind(d, e)
    BY <2>4, <2>6, UpsertKeepsLinked
  <2> HIDE DEF e
  <2>8. Kin(e)
    BY <2>4, <2>7 DEF SameKind
  <2> QED
    BY <2>5, <2>8
<1> QED
  BY <1>7, <1>8

\* So does deleting a set of points.
LEMMA DeletedLinked ==
    ASSUME NEW c, Linked(c), NEW ids, IsFiniteSet(ids)
    PROVE  Linked(Deleted(c, ids))
<1> DEFINE f == CHOOSE g : Deletes(g, c, ids)
           T == {x \in SUBSET ids : ~ Linked(f[x])}
<1>1. Deletes(f, c, ids)
  BY DeletesExist
<1>2. Deleted(c, ids) = f[ids]
  BY DEF Deleted
<1> HIDE DEF f
<1>3. \A x \in SUBSET ids : IsFiniteSet(x) /\ Cardinality(x) \in Nat
  BY FS_Subset, FS_CardinalityType
<1>4. SUFFICES ASSUME T # {}
               PROVE  FALSE
  <2>1. ids \notin T
    BY <1>4
  <2> QED
    BY <1>2, <2>1
<1>5. PICK x \in T : \A y \in T : Cardinality(x) <= Cardinality(y)
  <2>1. \A x \in T : IsFiniteSet(x)
    BY <1>3
  <2> HIDE DEF T
  <2> QED
    BY <1>4, <2>1, SmallestSet
<1>6. x \in SUBSET ids /\ ~ Linked(f[x])
  OBVIOUS
<1>7. CASE x = {}
  <2>1. f[x] = c
    BY <1>1, <1>6, <1>7 DEF Deletes
  <2> QED
    BY <1>6, <2>1
<1>8. CASE x # {}
  <2> DEFINE id == CHOOSE y \in x : TRUE
             y == x \ {id}
             d == f[y]
  <2>1. id \in x
    BY <1>8, ChosenIn
  <2>2. f[x] = DeleteById(d, id)
    BY <1>1, <1>6, <1>8 DEF Deletes
  <2> HIDE DEF id
  <2>3. y \in SUBSET ids /\ Cardinality(y) = Cardinality(x) - 1
    BY <1>3, <1>6, <2>1, FS_RemoveElement
  <2>4. Cardinality(x) \in Nat /\ Cardinality(y) \in Nat
    BY <1>3, <1>6, <2>3
  <2>5. Linked(d)
    <3>1. y \notin T
      <4> HIDE DEF T, y
      <4> QED
        BY <1>5, <2>3, <2>4
    <3> QED
      BY <2>3, <3>1
  <2> HIDE DEF d, y
  <2>6. Linked(DeleteById(d, id))
    BY <2>5, DeleteKeepsLinked
  <2> QED
    BY <1>6, <2>2, <2>6
<1> QED
  BY <1>7, <1>8

\* A collection that is read from a file is linked.
LEMMA ReadLinked ==
    ASSUME NEW p, FitPoints(p.points, p.dimension)
    PROVE  Linked(FromPersisted(p))
<1> DEFINE S == {[id |-> id, vector |-> p.points[id].vector, payload |-> p.points[id].payload]
                 : id \in DOMAIN p.points}
           s == SetToSeq(S)
           n == Cardinality(S)
           new == NewCollection(p.dimension, p.distance)
<1>1. FromPersisted(p) = Upserted(new, s)
  BY FoldIsUpserted DEF FromPersisted
<1>2. /\ DOMAIN p.points \in SUBSET PointIds
      /\ \A id \in DOMAIN p.points : /\ p.points[id] \in PointRecords
                                     /\ DimensionOf[p.points[id].vector] = p.dimension
  BY DEF FitPoints
<1>3. IsFiniteSet(S)
  <2> DEFINE f == [id \in DOMAIN p.points |->
                     [id |-> id, vector |-> p.points[id].vector, payload |-> p.points[id].payload]]
  <2>1. IsFiniteSet(DOMAIN p.points)
    BY <1>2, QdrantAssumption, FS_Subset
  <2>2. f \in Surjection(DOMAIN p.points, S)
    BY DEF Surjection
  <2> HIDE DEF f, S
  <2> QED
    BY <2>1, <2>2, FS_Surjection
<1>4. \A x \in S : x \in IdPoints /\ DimensionOf[x.vector] = p.dimension
  BY <1>2 DEF IdPoints, PointRecords
<1>5. /\ n \in Nat /\ DOMAIN s = 1 .. n
      /\ \A i \in 1 .. n : s[i] \in S
  <2> HIDE DEF S
  <2> QED
    BY <1>3, ListOfSet
<1>6. Linked(new) /\ new.index.dimension = p.dimension
  BY NewIsLinked, NewIsCollection
<1> HIDE DEF new, s, n, S
<1>7. Linked(Upserted(new, s))
  BY <1>4, <1>5, <1>6, UpsertedLinked
<1> QED
  BY <1>1, <1>7 DEF new, s

\* Every collection is linked, and so is what a restart reads: the files, and the
\* one that is about to be renamed.
Fit(p) == FitPoints(p.points, p.dimension)
CollectionsLinked == \A name \in DOMAIN collections : Linked(collections[name])
FilesFit == \A path \in DOMAIN disk : path[2] = "json" => path = <<path[1], "json">> /\ Fit(disk[path])
SavingFits ==
    ~Free => /\ saving.step # "remove" => saving.name \in DOMAIN collections
             /\ saving.step = "rename" => Fit(disk[TmpPath(saving.name)])
LinkInv == CollectionsLinked /\ FilesFit /\ SavingFits

\* There is nothing to link at first.
LEMMA LinkInit ==
    ASSUME QdrantInit
    PROVE  LinkInv
<1>1. DOMAIN collections = {} /\ DOMAIN disk = {} /\ saving = None
  BY DEF QdrantInit
<1> QED
  BY <1>1 DEF LinkInv, CollectionsLinked, FilesFit, SavingFits, Free

\* A handler leaves its collection linked, and the files alone.
LEMMA HandlerLinks ==
    ASSUME LinkInv, Free, NEW name, disk' = disk,
           \A o \in DOMAIN collections' : o # name =>
              o \in DOMAIN collections /\ collections'[o] = collections[o],
           name \in DOMAIN collections' => Linked(collections'[name]),
           \/ saving' = saving
           \/ saving' = [name |-> name, step |-> "write"] /\ name \in DOMAIN collections'
           \/ saving' = [name |-> name, step |-> "remove"]
    PROVE  LinkInv'
<1>1. CollectionsLinked'
  <2> SUFFICES ASSUME NEW o \in DOMAIN collections'
               PROVE  Linked(collections'[o])
    BY DEF CollectionsLinked, Linked, Held
  <2>1. CASE o = name
    BY <2>1
  <2>2. CASE o # name
    BY <2>2 DEF LinkInv, CollectionsLinked
  <2> QED
    BY <2>1, <2>2
<1>2. FilesFit'
  BY DEF LinkInv, FilesFit, Fit
<1>3. SavingFits'
  BY DEF SavingFits, Free
<1> QED
  BY <1>1, <1>2, <1>3 DEF LinkInv

\* A collection that is created is linked.
LEMMA CreateLinks ==
    ASSUME LinkInv, NEW name, NEW n, NEW m, CreateCollection(name, n, m)
    PROVE  LinkInv'
<1> DEFINE c == NewCollection(n, m)
           f == With(collections, name, c)
<1>1. Linked(c)
  BY NewIsLinked
<1> HIDE DEF c
<1>2. /\ Free /\ disk' = disk /\ collections' = f /\ saving' = [name |-> name, step |-> "write"]
  BY DEF CreateCollection, Save, c
<1>3. /\ DOMAIN f = DOMAIN collections \union {name} /\ f[name] = c
      /\ \A o \in DOMAIN collections : o # name => f[o] = collections[o]
  BY DEF With
<1> HIDE DEF f
<1> QED
  BY <1>1, <1>2, <1>3, HandlerLinks

\* So are the others when one is deleted.
LEMMA DropLinks ==
    ASSUME LinkInv, NEW name, DeleteCollection(name)
    PROVE  LinkInv'
<1> DEFINE f == Without(collections, name)
<1>1. /\ Free /\ disk' = disk /\ collections' = f /\ saving' = [name |-> name, step |-> "remove"]
  BY DEF DeleteCollection, Save
<1>2. /\ DOMAIN f = DOMAIN collections \ {name}
      /\ \A o \in DOMAIN collections : o # name => f[o] = collections[o]
  BY WithoutChanges
<1> HIDE DEF f
<1> QED
  BY <1>1, <1>2, HandlerLinks

\* A collection that is changed in place stays linked.
LEMMA ChangeLinks ==
    ASSUME LinkInv, Free, NEW name \in DOMAIN collections, NEW c, Linked(c), disk' = disk,
           collections' = [collections EXCEPT ![name] = c],
           saving' = saving \/ saving' = [name |-> name, step |-> "write"]
    PROVE  LinkInv'
<1>1. /\ DOMAIN collections' = DOMAIN collections /\ collections'[name] = c
      /\ \A o \in DOMAIN collections : o # name => collections'[o] = collections[o]
  OBVIOUS
<1> QED
  BY <1>1, HandlerLinks

\* upsert_points adds points that fit.
LEMMA UpsertPointsLinks ==
    ASSUME LinkInv, NEW name, NEW points \in Seq(QdrantPoints), UpsertPoints(name, points)
    PROVE  LinkInv'
<1> DEFINE c == collections[name]
           s == Accepted(c, points)
           d == Upserted(c, s)
<1>1. /\ Free /\ name \in DOMAIN collections /\ disk' = disk
      /\ collections' = [collections EXCEPT ![name] = d]
      /\ saving' = saving \/ saving' = [name |-> name, step |-> "write"]
  BY FoldIsUpserted DEF UpsertPoints, Save
<1>2. Linked(c)
  BY <1>1 DEF LinkInv, CollectionsLinked
<1>3. PICK n \in Nat : /\ DOMAIN s = 1 .. n
                       /\ \A i \in 1 .. n : /\ s[i] \in QdrantPoints
                                            /\ DimensionOf[s[i].vector] = c.index.dimension
  BY AcceptedFits
<1>4. \A p \in QdrantPoints : p \in IdPoints
  BY QdrantAssumption DEF IdPoints
<1>5. Linked(d)
  <2> HIDE DEF c, s
  <2> QED
    BY <1>2, <1>3, <1>4, UpsertedLinked
<1> HIDE DEF d
<1> QED
  BY <1>1, <1>5, ChangeLinks

\* delete_points takes points out.
LEMMA DeletePointsLinks ==
    ASSUME LinkInv, NEW name, NEW ids, IsFiniteSet(ids), DeletePoints(name, ids)
    PROVE  LinkInv'
<1> DEFINE c == collections[name]
           d == Deleted(c, ids)
<1>1. /\ Free /\ name \in DOMAIN collections /\ disk' = disk
      /\ collections' = [collections EXCEPT ![name] = d]
      /\ saving' = [name |-> name, step |-> "write"]
  BY FoldIsDeleted DEF DeletePoints, Save
<1>2. Linked(c)
  BY <1>1 DEF LinkInv, CollectionsLinked
<1>3. Linked(d)
  <2> HIDE DEF c
  <2> QED
    BY <1>2, DeletedLinked
<1> HIDE DEF d
<1> QED
  BY <1>1, <1>3, ChangeLinks

\* The steps on the disk leave the collections alone, and write what fits.
LEMMA DiskLinks ==
    ASSUME LinkInv, OpenTmp \/ FillTmp \/ RenameTmp \/ RemoveFile \/ DiskFails
    PROVE  LinkInv'
<1> DEFINE name == saving.name
           tmp == TmpPath(name)
           path == CollectionPath(name)
<1>1. tmp[2] # "json" /\ path = <<path[1], "json">>
  BY PathsApart DEF CollectionPath
<1>2. collections' = collections
  BY DEF OpenTmp, FillTmp, RenameTmp, RemoveFile, DiskFails
<1>3. CollectionsLinked'
  BY <1>2 DEF LinkInv, CollectionsLinked, Linked, Held
<1>4. ASSUME NEW x, disk' = With(disk, tmp, x)
      PROVE  FilesFit' /\ disk'[tmp] = x
  <2> DEFINE d == With(disk, tmp, x)
  <2>1. /\ DOMAIN d = DOMAIN disk \union {tmp} /\ d[tmp] = x
        /\ \A z \in DOMAIN disk : z # tmp => d[z] = disk[z]
    BY DEF With
  <2>2. disk' = d
    BY <1>4
  <2> HIDE DEF d, tmp
  <2> QED
    BY <1>1, <2>1, <2>2 DEF LinkInv, FilesFit, Fit
<1>5. CASE OpenTmp
  <2>1. /\ disk' = With(disk, tmp, Torn) /\ saving' = [name |-> name, step |-> "fill"]
        /\ name \in DOMAIN collections
    BY <1>5 DEF OpenTmp, Save, LinkInv, SavingFits, Free
  <2>2. SavingFits'
    BY <1>2, <2>1 DEF SavingFits, Free
  <2> QED
    BY <1>3, <1>4, <2>1, <2>2 DEF LinkInv
<1>6. CASE FillTmp
  <2> DEFINE p == ToPersisted(collections[name])
  <2>1. /\ disk' = With(disk, tmp, p) /\ saving' = [name |-> name, step |-> "rename"]
        /\ name \in DOMAIN collections
    BY <1>6 DEF FillTmp, Save, LinkInv, SavingFits, Free
  <2>2. Fit(p)
    BY <2>1 DEF Fit, ToPersisted, LinkInv, CollectionsLinked, Linked
  <2>3. disk'[tmp] = p /\ FilesFit'
    BY <1>4, <2>1
  <2> HIDE DEF p
  <2>4. SavingFits'
    BY <1>2, <2>1, <2>2, <2>3 DEF SavingFits, Free, TmpPath, Fit
  <2> QED
    BY <1>3, <2>3, <2>4 DEF LinkInv
<1>7. CASE RenameTmp
  <2> DEFINE d == Without(disk, tmp)
             y == disk[tmp]
             e == With(d, path, y)
  <2>1. disk' = e /\ saving' = None /\ Fit(y)
    BY <1>7 DEF RenameTmp, LinkInv, SavingFits, Free
  <2>2. /\ DOMAIN d = DOMAIN disk \ {tmp}
        /\ \A z \in DOMAIN disk : z # tmp => d[z] = disk[z]
    BY WithoutChanges
  <2> HIDE DEF d, y
  <2>3. /\ DOMAIN e = DOMAIN d \union {path} /\ e[path] = y
        /\ \A z \in DOMAIN d : z # path => e[z] = d[z]
    BY DEF With
  <2> HIDE DEF e, path, tmp
  <2>4. ASSUME NEW z \in DOMAIN e, z[2] = "json"
        PROVE  z = <<z[1], "json">> /\ Fit(e[z])
    <3>1. CASE z = path
      BY <1>1, <2>1, <2>3, <3>1
    <3>2. CASE z # path
      <4>1. z \in DOMAIN disk /\ e[z] = disk[z]
        BY <2>2, <2>3, <3>2
      <4> QED
        BY <2>4, <4>1 DEF LinkInv, FilesFit
    <3> QED
      BY <3>1, <3>2
  <2>5. FilesFit'
    BY <2>1, <2>4 DEF FilesFit, Fit
  <2>6. SavingFits'
    BY <2>1 DEF SavingFits, Free
  <2> QED
    BY <1>3, <2>5, <2>6 DEF LinkInv
<1>8. CASE RemoveFile
  <2> DEFINE d == Without(disk, path)
  <2>1. disk' = d /\ saving' = None
    BY <1>8 DEF RemoveFile
  <2>2. /\ DOMAIN d = DOMAIN disk \ {path}
        /\ \A z \in DOMAIN disk : z # path => d[z] = disk[z]
    BY WithoutChanges
  <2> HIDE DEF d, path
  <2>3. FilesFit'
    BY <2>1, <2>2 DEF LinkInv, FilesFit, Fit
  <2>4. SavingFits'
    BY <2>1 DEF SavingFits, Free
  <2> QED
    BY <1>3, <2>3, <2>4 DEF LinkInv
<1>9. CASE DiskFails
  <2>1. disk' = disk /\ saving' = None
    BY <1>9 DEF DiskFails
  <2> QED
    BY <1>3, <2>1 DEF LinkInv, FilesFit, Fit, SavingFits, Free
<1> QED
  BY <1>5, <1>6, <1>7, <1>8, <1>9

\* A restart reads collections that are linked.
LEMMA RestartLinks ==
    ASSUME LinkInv, RestartQdrant
    PROVE  LinkInv'
<1> DEFINE stems == {path[1] : path \in {p \in DOMAIN disk : p[2] = "json" /\ disk[p] # Torn}}
           restored == LoadAllCollections(disk)
<1>1. /\ collections' = restored /\ disk' = disk /\ saving' = None
  BY DEF RestartQdrant
<1>2. restored = [stem \in stems |-> FromPersisted(disk[<<stem, "json">>])]
  BY DEF LoadAllCollections
<1>3. ASSUME NEW stem \in stems
      PROVE  Linked(FromPersisted(disk[<<stem, "json">>]))
  <2>1. PICK path \in DOMAIN disk : path[2] = "json" /\ stem = path[1]
    OBVIOUS
  <2>2. path = <<stem, "json">> /\ Fit(disk[path])
    BY <2>1 DEF LinkInv, FilesFit
  <2> QED
    BY <2>2, ReadLinked DEF Fit
<1> HIDE DEF stems, restored
<1>4. \A stem \in DOMAIN restored : Linked(restored[stem])
  BY <1>2, <1>3
<1>5. CollectionsLinked'
  <2> SUFFICES ASSUME NEW o \in DOMAIN collections'
               PROVE  Linked(collections'[o])
    BY DEF CollectionsLinked, Linked, Held
  <2> QED
    BY <1>1, <1>4
<1> QED
  BY <1>1, <1>5 DEF LinkInv, FilesFit, Fit, SavingFits, Free

\* Every step of the service keeps its collections linked.
LEMMA LinkNext ==
    ASSUME LinkInv, [QdrantNext]_qdrant
    PROVE  LinkInv'
<1>1. ASSUME NEW name \in Names, NEW n \in Dimensions, NEW m \in Metrics, CreateCollection(name, n, m)
      PROVE  LinkInv'
  BY <1>1, CreateLinks
<1>2. ASSUME NEW name \in Names, DeleteCollection(name)
      PROVE  LinkInv'
  BY <1>2, DropLinks
<1>3. ASSUME NEW name \in Names, NEW p \in QdrantPoints, UpsertPoints(name, <<p>>)
      PROVE  LinkInv'
  <2>1. <<p>> \in Seq(QdrantPoints)
    OBVIOUS
  <2> QED
    BY <1>3, <2>1, UpsertPointsLinks
<1>4. ASSUME NEW name \in Names, NEW p \in QdrantPoints, NEW r \in QdrantPoints,
             UpsertPoints(name, <<p, r>>)
      PROVE  LinkInv'
  <2>1. <<p, r>> \in Seq(QdrantPoints)
    OBVIOUS
  <2> QED
    BY <1>4, <2>1, UpsertPointsLinks
<1>5. ASSUME NEW name \in Names, NEW ids \in SUBSET PointIds, DeletePoints(name, ids)
      PROVE  LinkInv'
  <2>1. IsFiniteSet(ids)
    BY QdrantAssumption, FS_Subset
  <2> QED
    BY <1>5, <2>1, DeletePointsLinks
<1>6. ASSUME NEW name \in Names, name \in DOMAIN collections, NEW f \in Filters,
             DeletePoints(name, Passing(name, f))
      PROVE  LinkInv'
  <2>1. FitPoints(collections[name].points, collections[name].index.dimension)
    BY <1>6 DEF LinkInv, CollectionsLinked, Linked
  <2>2. DOMAIN collections[name].points \in SUBSET PointIds
    BY <2>1 DEF FitPoints
  <2>3. Passing(name, f) \in SUBSET PointIds
    BY <2>2 DEF Passing
  <2> QED
    BY <1>5, <1>6, <2>3
<1>7. CASE OpenTmp \/ FillTmp \/ RenameTmp \/ RemoveFile \/ DiskFails
  BY <1>7, DiskLinks
<1>8. CASE RestartQdrant
  BY <1>8, RestartLinks
<1>9. CASE UNCHANGED qdrant
  BY <1>9 DEF qdrant, LinkInv, CollectionsLinked, Linked, Held, FilesFit, Fit, SavingFits, Free, TmpPath
<1> QED
  BY <1>1, <1>2, <1>3, <1>4, <1>5, <1>6, <1>7, <1>8, <1>9 DEF QdrantNext

\* What is kept of a list: elements of it that are in S, in its order.
LEMMA KeepGives ==
    ASSUME NEW s, NEW n \in Nat, DOMAIN s = 1 .. n, NEW S, NEW t, t = Keep(s, S)
    PROVE  /\ Len(t) \in Nat /\ DOMAIN t = 1 .. Len(t)
           /\ \A k \in DOMAIN t : t[k] \in S /\ \E j \in DOMAIN s : t[k] = s[j]
           /\ \A i, j \in DOMAIN t : i < j =>
                 \E k, l \in DOMAIN s : k < l /\ t[i] = s[k] /\ t[j] = s[l]
<1> DEFINE V == {s[i] : i \in DOMAIN s}
<1>1. IsKeep(s, S, n, t)
  BY KeepKeeps
<1>2. PICK at : KeptAt(s, S, n, t, at)
  BY <1>1 DEF IsKeep
<1>3. t \in Seq(V)
  BY <1>2 DEF KeptAt
<1>4. Len(t) \in Nat /\ DOMAIN t = 1 .. Len(t)
  <2> HIDE DEF V
  <2> QED
    BY <1>3
<1>5. \A k \in 1 .. Len(t) : at[k] \in 1 .. n /\ t[k] = s[at[k]] /\ t[k] \in S
  BY <1>2 DEF KeptAt
<1>6. \A i, j \in 1 .. Len(t) : i < j => at[i] < at[j]
  BY <1>2 DEF KeptAt
<1> QED
  BY <1>4, <1>5, <1>6

\* What a search of a collection gives: its hits are live points, each of them once.
LEMMA HitsGive ==
    ASSUME NEW c, Linked(c), NEW q \in Vectors, NEW found \in SUBSET c.index.graph, NEW S
    PROVE  LET t == Keep(IndexSearch(c.index, q, found), S)
           IN  /\ Len(t) \in Nat /\ DOMAIN t = 1 .. Len(t)
               /\ \A k \in DOMAIN t :
                    LET id == c.uid_to_id[t[k].doc]
                    IN  /\ t[k] \in S
                        /\ id \in DOMAIN c.points
                        /\ t[k].distance = DistanceOf[<<q, c.points[id].vector>>]
                        /\ t[k].distance \in Nat
               /\ \A i, j \in DOMAIN t : i < j =>
                    /\ c.uid_to_id[t[i].doc] # c.uid_to_id[t[j].doc]
                    /\ t[i].distance <= t[j].distance
<1> DEFINE x == c.index
           s == IndexSearch(x, q, found)
           t == Keep(s, S)
<1>1. /\ DOMAIN s = 1 .. Len(s) /\ Len(s) \in Nat
      /\ \A k \in DOMAIN s : \E n \in x.graph : Tells(x, q, s[k], n)
      /\ \A j, k \in DOMAIN s : s[j].doc = s[k].doc => j = k
      /\ \A j, k \in DOMAIN s : j < k => s[j].distance <= s[k].distance
  BY SearchGives DEF Linked
<1> HIDE DEF s
<1>2. /\ Len(t) \in Nat /\ DOMAIN t = 1 .. Len(t)
      /\ \A k \in DOMAIN t : t[k] \in S /\ \E j \in DOMAIN s : t[k] = s[j]
      /\ \A i, j \in DOMAIN t : i < j =>
            \E k, l \in DOMAIN s : k < l /\ t[i] = s[k] /\ t[j] = s[l]
  <2> DEFINE n == Len(s)
  <2>1. n \in Nat /\ DOMAIN s = 1 .. n
    BY <1>1
  <2>2. t = Keep(s, S)
    OBVIOUS
  <2> HIDE DEF n, t
  <2> QED
    BY <2>1, <2>2, KeepGives
<1> HIDE DEF t
<1>3. ASSUME NEW k \in DOMAIN s
      PROVE  LET id == c.uid_to_id[s[k].doc]
             IN  /\ s[k].doc \in DOMAIN c.uid_to_id
                 /\ id \in DOMAIN c.points
                 /\ s[k].distance = DistanceOf[<<q, c.points[id].vector>>]
                 /\ s[k].distance \in Nat
  <2> DEFINE u == s[k].doc
             id == c.uid_to_id[u]
  <2>1. PICK n \in x.graph : Tells(x, q, s[k], n)
    BY <1>1
  <2>2. /\ u \in DOMAIN x.doc_id_map /\ n.id = x.doc_id_map[u]
        /\ s[k].distance = DistanceOf[<<q, n.vector>>] /\ s[k].distance \in Nat
    BY <2>1 DEF Tells
  <2> HIDE DEF u
  <2>3. u \in DOMAIN c.uid_to_id /\ id \in DOMAIN c.points /\ c.id_to_uid[id] = u
    BY <2>2 DEF Linked
  <2> HIDE DEF id
  <2>4. PICK m \in x.graph : m.id = x.doc_id_map[u] /\ m.vector = c.points[id].vector
    BY <2>3 DEF Linked, Held
  <2>5. n = m
    BY <2>2, <2>4 DEF Linked, Sound
  <2> QED
    BY <2>2, <2>3, <2>4, <2>5 DEF u, id
<1>4. ASSUME NEW i \in DOMAIN t, NEW j \in DOMAIN t, i < j
      PROVE  c.uid_to_id[t[i].doc] # c.uid_to_id[t[j].doc] /\ t[i].distance <= t[j].distance
  <2>1. PICK k \in DOMAIN s, l \in DOMAIN s : k < l /\ t[i] = s[k] /\ t[j] = s[l]
    BY <1>2, <1>4
  <2>2. s[k].doc # s[l].doc /\ s[k].distance <= s[l].distance
    <3>1. k \in Nat /\ l \in Nat /\ k # l
      BY <1>1, <2>1
    <3> QED
      BY <1>1, <2>1, <3>1
  <2>3. s[k].doc \in DOMAIN c.uid_to_id /\ s[l].doc \in DOMAIN c.uid_to_id
    BY <1>3
  <2>4. c.uid_to_id[s[k].doc] # c.uid_to_id[s[l].doc]
    BY <2>2, <2>3 DEF Linked
  <2> QED
    BY <2>1, <2>2, <2>4
<1>5. ASSUME NEW k \in DOMAIN t
      PROVE  LET id == c.uid_to_id[t[k].doc]
             IN  /\ t[k] \in S
                 /\ id \in DOMAIN c.points
                 /\ t[k].distance = DistanceOf[<<q, c.points[id].vector>>]
                 /\ t[k].distance \in Nat
  BY <1>2, <1>3
<1> QED
  BY <1>2, <1>4, <1>5 DEF t, s, x

\* The less of two numbers.
LEMMA LessOfTwo ==
    ASSUME NEW a \in Nat, NEW b \in Nat
    PROVE  Min({a, b}) \in Nat /\ Min({a, b}) <= a /\ Min({a, b}) <= b
<1> DEFINE S == {a, b}
           m == Min(S)
<1>1. S \in SUBSET Nat /\ S # {} /\ a \in S /\ b \in S
  OBVIOUS
<1> HIDE DEF S
<1>2. \E x \in S : \A y \in S : x <= y
  BY <1>1, LeastNumber
<1>3. m \in S /\ \A y \in S : m <= y
  BY <1>2 DEF Min
<1> HIDE DEF m
<1>4. m \in Nat /\ m <= a /\ m <= b
  BY <1>1, <1>3
<1> QED
  BY <1>4 DEF S, m

\* The most of two numbers.
LEMMA MostOfTwo ==
    ASSUME NEW a \in Nat, NEW b \in Nat
    PROVE  Max({a, b}) \in Nat
<1>1. \E x \in {a, b} : \A y \in {a, b} : x >= y
  OBVIOUS
<1>2. Max({a, b}) \in {a, b}
  BY <1>1 DEF Max
<1> QED
  BY <1>2

\* Linked collections answer with the points as they were last put.
LEMMA LinkedAnswers ==
    ASSUME LinkInv
    PROVE  QdrantAnswersFresh
<1> SUFFICES ASSUME NEW name \in DOMAIN collections
             PROVE  LET c == collections[name]
                    IN  /\ MapsMirror(c.index)
                        /\ DOMAIN c.points = DOMAIN c.id_to_uid
                        /\ DOMAIN c.uid_to_id = DOMAIN c.index.doc_id_map
                        /\ \A id \in DOMAIN c.points : c.uid_to_id[c.id_to_uid[id]] = id
                        /\ \A q \in Vectors, filter \in {None} \union Filters, limit \in 1 .. 2 :
                             \A found \in Found(c.index, FetchK(limit, filter # None)) :
                               LET answer == QueryPoints(name, q, limit, filter, found)
                                   last(i) == c.points[answer[i].id]
                               IN  \A i \in DOMAIN answer :
                                     /\ answer[i].score = ScoreFromDistance(c, DistanceOf[<<q, last(i).vector>>])
                                     /\ answer[i].payload = last(i).payload
                                     /\ filter # None => PassesFilter(last(i).payload, filter)
                                     /\ \A j \in 1 .. i - 1 :
                                          answer[j].id # answer[i].id /\ NoWorse(c, answer[j].score, answer[i].score)
  BY DEF QdrantAnswersFresh
<1> DEFINE c == collections[name]
<1>1. Linked(c)
  BY DEF LinkInv, CollectionsLinked
<1>2. ASSUME NEW q \in Vectors, NEW filter \in {None} \union Filters, NEW limit \in 1 .. 2,
             NEW found \in Found(c.index, FetchK(limit, filter # None)),
             NEW i \in DOMAIN QueryPoints(name, q, limit, filter, found)
      PROVE  LET answer == QueryPoints(name, q, limit, filter, found)
                 last == c.points[answer[i].id]
             IN  /\ answer[i].score = ScoreFromDistance(c, DistanceOf[<<q, last.vector>>])
                 /\ answer[i].payload = last.payload
                 /\ filter # None => PassesFilter(last.payload, filter)
                 /\ \A j \in 1 .. i - 1 :
                      answer[j].id # answer[i].id /\ NoWorse(c, answer[j].score, answer[i].score)
  <2> DEFINE Passes(hit) ==
               /\ hit.doc \in DOMAIN c.uid_to_id
               /\ c.uid_to_id[hit.doc] \in DOMAIN c.points
               /\ filter # None => PassesFilter(c.points[c.uid_to_id[hit.doc]].payload, filter)
             all == IndexSearch(c.index, q, found)
             S == {hit \in Range(all) : Passes(hit)}
             hits == Keep(all, S)
             point(hit) == [id |-> c.uid_to_id[hit.doc], score |-> ScoreFromDistance(c, hit.distance),
                            payload |-> c.points[c.uid_to_id[hit.doc]].payload]
             m == Min({Max({limit, 1}), Len(hits)})
             answer == QueryPoints(name, q, limit, filter, found)
  <2>1. answer = [k \in 1 .. m |-> point(hits[k])]
    BY DEF QueryPoints
  <2>2. \A hit \in S : filter # None => PassesFilter(c.points[c.uid_to_id[hit.doc]].payload, filter)
    OBVIOUS
  <2>3. found \in SUBSET c.index.graph
    BY DEF Found
  <2> HIDE DEF S, c, answer
  <2>4. /\ Len(hits) \in Nat /\ DOMAIN hits = 1 .. Len(hits)
        /\ \A k \in DOMAIN hits :
             LET id == c.uid_to_id[hits[k].doc]
             IN  /\ hits[k] \in S
                 /\ id \in DOMAIN c.points
                 /\ hits[k].distance = DistanceOf[<<q, c.points[id].vector>>]
                 /\ hits[k].distance \in Nat
        /\ \A j, k \in DOMAIN hits : j < k =>
             /\ c.uid_to_id[hits[j].doc] # c.uid_to_id[hits[k].doc]
             /\ hits[j].distance <= hits[k].distance
    BY <1>1, <2>3, HitsGive
  <2> HIDE DEF hits
  <2>5. m \in Nat /\ m <= Len(hits)
    <3>1. limit \in Nat /\ 1 \in Nat
      OBVIOUS
    <3>2. Max({limit, 1}) \in Nat
      BY <3>1, MostOfTwo
    <3> QED
      BY <2>4, <3>2, LessOfTwo
  <2> HIDE DEF m
  <2>6. i \in 1 .. m /\ i \in DOMAIN hits /\ \A j \in 1 .. i - 1 : j \in 1 .. m /\ j \in DOMAIN hits /\ j < i
    <3>1. i \in 1 .. m
      BY <2>1 DEF answer
    <3> QED
      BY <2>4, <2>5, <3>1
  <2>7. ASSUME NEW k \in 1 .. m
        PROVE  /\ answer[k].id = c.uid_to_id[hits[k].doc]
               /\ answer[k].score = ScoreFromDistance(c, hits[k].distance)
               /\ answer[k].payload = c.points[c.uid_to_id[hits[k].doc]].payload
    BY <2>1
  <2>8. ASSUME NEW j \in 1 .. i - 1
        PROVE  answer[j].id # answer[i].id /\ NoWorse(c, answer[j].score, answer[i].score)
    <3>1. hits[j].distance \in Nat /\ hits[i].distance \in Nat /\ hits[j].distance <= hits[i].distance
      BY <2>4, <2>6
    <3>2. NoWorse(c, ScoreFromDistance(c, hits[j].distance), ScoreFromDistance(c, hits[i].distance))
      BY <3>1 DEF NoWorse, ScoreFromDistance
    <3> QED
      BY <2>4, <2>6, <2>7, <3>2
  <2> QED
    BY <2>2, <2>4, <2>6, <2>7, <2>8 DEF answer
<1>3. \A id \in DOMAIN c.points : c.uid_to_id[c.id_to_uid[id]] = id
  BY <1>1 DEF Linked, Held
<1> QED
  BY <1>1, <1>2, <1>3 DEF Linked, Sound

-----------------------------------------------------------------------------
(* The theorems about answers *)

\* Whatever the graph finds, the Qdrant service answers with points of the collection,
\* each once, as they were last put, nearest first (qdrant_api.rs:661).
THEOREM QdrantFresh == QdrantSpec => []QdrantAnswersFresh
<1>1. QdrantInit => LinkInv
  BY LinkInit
<1>2. LinkInv /\ [QdrantNext]_qdrant => LinkInv'
  BY LinkNext
<1>3. LinkInv => QdrantAnswersFresh
  BY LinkedAnswers
<1> QED
  BY <1>1, <1>2, <1>3, PTL DEF QdrantSpec

\* Nor does an answer of the REST and gRPC services tell a document that was deleted, or
\* twice, or with the distance of another vector (api.rs:318).
THEOREM ApiFresh == ApiInit /\ [][ApiNext]_indexes => []ApiAnswersFresh
<1>1. ApiInit => IndexesInv
  BY DEF ApiInit, IndexesInv
<1>2. IndexesInv /\ [ApiNext]_indexes => IndexesInv'
  BY ApiKeeps
<1>3. IndexesInv => ApiAnswersFresh
  BY SoundAnswers
<1> QED
  BY <1>1, <1>2, <1>3, PTL

\* Both, beside one another: no answer tells a point or a document that is not there, or
\* another vector than its last (api.rs:318, qdrant_api.rs:661).
THEOREM AnswersFresh == MCSpec => []FreshAnswers
<1>1. MCInit => IndexesInv /\ LinkInv
  <2> SUFFICES ASSUME MCInit
               PROVE  IndexesInv /\ LinkInv
    OBVIOUS
  <2>1. ApiInit /\ QdrantInit
    BY DEF MCInit
  <2>2. DOMAIN indexes = {}
    BY <2>1 DEF ApiInit
  <2> QED
    BY <2>1, <2>2, LinkInit DEF IndexesInv
<1>2. IndexesInv /\ LinkInv /\ [MCNext]_<<operands, gpu, indexes, qdrant, library, ft>>
      => IndexesInv' /\ LinkInv'
  <2> SUFFICES ASSUME IndexesInv, LinkInv, [MCNext]_<<operands, gpu, indexes, qdrant, library, ft>>
               PROVE  IndexesInv' /\ LinkInv'
    OBVIOUS
  <2>1. [ApiNext]_indexes /\ [QdrantNext]_qdrant
    BY DEF MCNext, MCArithmetic, MCApis, MCIndexes
  <2> QED
    BY <2>1, ApiKeeps, LinkNext
<1>3. IndexesInv /\ LinkInv => FreshAnswers
  BY SoundAnswers, LinkedAnswers DEF FreshAnswers
<1> QED
  BY <1>1, <1>2, <1>3, PTL DEF MCSpec

-----------------------------------------------------------------------------
(* The persistent index: its two ways to search, and its storage *)

ScanFields == {"dimension", "hnsw", "vectors", "nodes", "doc_of", "id_of", "next_id", "size"}

\* An index over vectors of its dimension, which a graph does not have any more
IsScan(i) ==
    /\ i = [field \in ScanFields |-> i[field]]
    /\ i.size \in Nat
    /\ i.hnsw \in BOOLEAN
    /\ i.hnsw => DOMAIN i.vectors = {}
    /\ IsFiniteSet(DOMAIN i.vectors)
    /\ \A doc \in DOMAIN i.vectors : i.vectors[doc] \in Vectors /\ Fits(i, i.vectors[doc])
    /\ IsFiniteSet(i.nodes)
    /\ \A node \in i.nodes : node.vector \in Vectors

\* An index starts empty.
LEMMA NewIsScan ==
    ASSUME NEW n
    PROVE  IsScan(NewVectorIndex(n)) /\ DOMAIN NewVectorIndex(n).vectors = {}
<1> DEFINE i == NewVectorIndex(n)
<1>1. /\ i = [field \in ScanFields |-> i[field]] /\ i.size = 0 /\ i.hnsw = FALSE
      /\ i.vectors = <<>> /\ i.nodes = {}
  BY DEF NewVectorIndex, ScanFields
<1> HIDE DEF i
<1>2. DOMAIN i.vectors = {} /\ IsFiniteSet({})
  BY <1>1, FS_EmptySet
<1>3. i.hnsw \in BOOLEAN /\ ~ i.hnsw /\ i.size \in Nat /\ i.nodes = {}
  <2>1. i.hnsw = FALSE /\ i.size = 0 /\ i.nodes = {}
    BY <1>1
  <2>2. i.hnsw \in BOOLEAN /\ ~ i.hnsw
    BY <2>1, Zenon
  <2> QED
    BY <2>1, <2>2
<1>4. i = [field \in ScanFields |-> i[field]]
  BY <1>1
<1> QED
  BY <1>2, <1>3, <1>4 DEF IsScan, i

\* The migration leaves the vectors behind.
LEMMA MigrateKeeps ==
    ASSUME NEW i, IsScan(i)
    PROVE  LET j == MigrateToHnsw(i)
           IN  IsScan(j) /\ j.dimension = i.dimension /\ j.hnsw = TRUE /\ DOMAIN j.vectors = {}
<1> DEFINE none == <<>>
           j == [i EXCEPT !.hnsw = TRUE, !.vectors = none]
<1>1. DOMAIN i = ScanFields
  BY DEF IsScan
<1>2. MigrateToHnsw(i) = j
  BY DEF MigrateToHnsw
<1>3. DOMAIN none = {}
  OBVIOUS
<1> HIDE DEF none
<1>4. /\ j = [field \in ScanFields |-> j[field]] /\ j.dimension = i.dimension
      /\ j.hnsw = TRUE /\ j.vectors = none /\ j.size = i.size /\ j.nodes = i.nodes
  BY <1>1 DEF ScanFields
<1> HIDE DEF j
<1>5. IsFiniteSet({})
  BY FS_EmptySet
<1> QED
  BY <1>2, <1>3, <1>4, <1>5 DEF IsScan

\* The graph takes a vector in.
LEMMA InsertKeeps ==
    ASSUME NEW i, IsScan(i), NEW doc, NEW v \in Vectors
    PROVE  LET j == HnswInsert(i, doc, v)
           IN  IsScan(j) /\ j.dimension = i.dimension /\ j.hnsw = i.hnsw /\ j.vectors = i.vectors
<1> DEFINE known == doc \in DOMAIN i.id_of
           id == IF known THEN i.id_of[doc] ELSE i.next_id
           node == [id |-> id, vector |-> v]
           nodes == i.nodes \union {node}
           ids == With(i.id_of, doc, id)
           docs == With(i.doc_of, id, doc)
           next == IF known THEN i.next_id ELSE i.next_id + 1
           j == [i EXCEPT !.nodes = nodes, !.id_of = ids, !.doc_of = docs, !.next_id = next]
<1>1. DOMAIN i = ScanFields
  BY DEF IsScan
<1>2. HnswInsert(i, doc, v) = j
  BY <1>1 DEF HnswInsert, ScanFields
<1>3. node.vector = v
  OBVIOUS
<1> HIDE DEF node, ids, docs, next
<1>4. IsFiniteSet(nodes) /\ \A n \in nodes : n.vector \in Vectors
  BY <1>3, FS_AddElement DEF IsScan
<1> HIDE DEF nodes
<1>5. /\ j = [field \in ScanFields |-> j[field]] /\ j.dimension = i.dimension
      /\ j.hnsw = i.hnsw /\ j.vectors = i.vectors /\ j.size = i.size /\ j.nodes = nodes
  BY <1>1 DEF ScanFields
<1> HIDE DEF j
<1> QED
  BY <1>2, <1>4, <1>5 DEF IsScan, Fits

\* The scan takes a vector in.
LEMMA LinearKeeps ==
    ASSUME NEW i, IsScan(i), ~ i.hnsw, NEW doc, NEW v \in Vectors, Fits(i, v)
    PROVE  LET j == LinearAdd(i, doc, v)
           IN  /\ IsScan(j) /\ j.dimension = i.dimension
               /\ DOMAIN j.vectors = DOMAIN i.vectors \union {doc} /\ j.vectors[doc] = v
               /\ \A d \in DOMAIN i.vectors : d # doc => j.vectors[d] = i.vectors[d]
<1> DEFINE f == With(i.vectors, doc, v)
           j == [i EXCEPT !.vectors = f]
<1>1. DOMAIN i = ScanFields
  BY DEF IsScan
<1>2. LinearAdd(i, doc, v) = j
  BY <1>1 DEF LinearAdd, ScanFields
<1>3. /\ DOMAIN f = DOMAIN i.vectors \union {doc} /\ f[doc] = v
      /\ \A d \in DOMAIN i.vectors : d # doc => f[d] = i.vectors[d]
  BY DEF With
<1> HIDE DEF f
<1>4. /\ j = [field \in ScanFields |-> j[field]] /\ j.dimension = i.dimension
      /\ j.hnsw = i.hnsw /\ j.vectors = f /\ j.size = i.size /\ j.nodes = i.nodes
  BY <1>1 DEF ScanFields
<1> HIDE DEF j
<1>5. IsFiniteSet(DOMAIN f)
  BY <1>3, FS_AddElement DEF IsScan
<1>6. \A d \in DOMAIN f : f[d] \in Vectors /\ DimensionOf[f[d]] = i.dimension
  BY <1>3 DEF IsScan, Fits
<1> QED
  BY <1>2, <1>3, <1>4, <1>5, <1>6 DEF IsScan, Fits

\* What a vector changes: the index has no other than it had, and this one if it fits.
AfterAdd(i, j, doc, v) ==
    /\ IsScan(j) /\ j.dimension = i.dimension
    /\ \A d \in DOMAIN j.vectors :
          \/ d = doc /\ j.vectors[d] = v /\ Fits(i, v)
          \/ d \in DOMAIN i.vectors /\ j.vectors[d] = i.vectors[d] /\ (Fits(i, v) => d # doc)

\* The index after a vector that may not fit, in a scan or a graph.
LEMMA AddVectorKeeps ==
    ASSUME NEW i, IsScan(i), NEW doc, NEW v \in Vectors
    PROVE  AfterAdd(i, AddVector(i, doc, v), doc, v)
<1> DEFINE h == IF i.size >= Threshold /\ ~i.hnsw THEN MigrateToHnsw(i) ELSE i
           a == IF h.hnsw THEN HnswInsert(h, doc, v) ELSE LinearAdd(h, doc, v)
           j == [a EXCEPT !.size = @ + 1]
<1>1. AddVector(i, doc, v) = IF Fits(h, v) THEN j ELSE h
  BY DEF AddVector
<1>2. /\ IsScan(h) /\ h.dimension = i.dimension
      /\ \A d \in DOMAIN h.vectors : d \in DOMAIN i.vectors /\ h.vectors[d] = i.vectors[d]
  BY MigrateKeeps
<1> HIDE DEF h
<1>3. CASE ~ Fits(h, v)
  <2>1. AddVector(i, doc, v) = h
    BY <1>1, <1>3
  <2> QED
    BY <1>2, <1>3, <2>1 DEF AfterAdd, Fits
<1>4. CASE Fits(h, v)
  <2>1. /\ IsScan(a) /\ a.dimension = h.dimension
        /\ \A d \in DOMAIN a.vectors :
              \/ d = doc /\ a.vectors[d] = v
              \/ d \in DOMAIN h.vectors /\ a.vectors[d] = h.vectors[d] /\ d # doc
    <3>1. CASE h.hnsw
      <4>1. a = HnswInsert(h, doc, v)
        BY <3>1
      <4>2. IsScan(a) /\ a.dimension = h.dimension /\ a.hnsw = h.hnsw
        BY <1>2, <4>1, InsertKeeps
      <4> HIDE DEF a
      <4>3. DOMAIN a.vectors = {}
        BY <3>1, <4>2 DEF IsScan
      <4> QED
        BY <4>2, <4>3
    <3>2. CASE ~ h.hnsw
      <4> DEFINE l == LinearAdd(h, doc, v)
      <4>1. a = l
        BY <3>2
      <4>2. /\ IsScan(l) /\ l.dimension = h.dimension
            /\ DOMAIN l.vectors = DOMAIN h.vectors \union {doc} /\ l.vectors[doc] = v
            /\ \A d \in DOMAIN h.vectors : d # doc => l.vectors[d] = h.vectors[d]
        BY <1>2, <1>4, <3>2, LinearKeeps
      <4> HIDE DEF a, l
      <4> QED
        BY <4>1, <4>2
    <3> QED
      BY <3>1, <3>2
  <2> HIDE DEF a
  <2>2. DOMAIN a = ScanFields
    BY <2>1 DEF IsScan
  <2>3. /\ j = [field \in ScanFields |-> j[field]] /\ j.dimension = a.dimension
        /\ j.hnsw = a.hnsw /\ j.vectors = a.vectors /\ j.size = a.size + 1 /\ j.nodes = a.nodes
    BY <2>2 DEF ScanFields
  <2> HIDE DEF j
  <2>4. AddVector(i, doc, v) = j
    BY <1>1, <1>4
  <2>5. IsScan(j)
    <3>1. j.size \in Nat /\ j.hnsw \in BOOLEAN
      BY <2>1, <2>3 DEF IsScan
    <3>2. IsFiniteSet(DOMAIN j.vectors) /\ IsFiniteSet(j.nodes)
      BY <2>1, <2>3 DEF IsScan
    <3>3. \A node \in j.nodes : node.vector \in Vectors
      BY <2>1, <2>3 DEF IsScan
    <3>4. \A d \in DOMAIN j.vectors : j.vectors[d] \in Vectors /\ DimensionOf[j.vectors[d]] = j.dimension
      BY <2>1, <2>3 DEF IsScan, Fits
    <3>5. j.hnsw => DOMAIN j.vectors = {}
      BY <2>1, <2>3 DEF IsScan
    <3>6. j = [field \in ScanFields |-> j[field]]
      BY <2>3
    <3> QED
      BY <3>1, <3>2, <3>3, <3>4, <3>5, <3>6 DEF IsScan, Fits
  <2>6. Fits(i, v)
    BY <1>2, <1>4 DEF Fits
  <2>7. \A d \in DOMAIN j.vectors :
           \/ d = doc /\ j.vectors[d] = v /\ Fits(i, v)
           \/ d \in DOMAIN i.vectors /\ j.vectors[d] = i.vectors[d] /\ (Fits(i, v) => d # doc)
    BY <1>2, <2>1, <2>3, <2>6
  <2> QED
    BY <1>2, <2>1, <2>3, <2>4, <2>5, <2>7 DEF AfterAdd
<1> QED
  BY <1>3, <1>4

\* The index after a document was removed has no vector that it did not have.
LEMMA RemoveVectorKeeps ==
    ASSUME NEW i, IsScan(i), NEW doc
    PROVE  LET j == RemoveVector(i, doc)
           IN  /\ IsScan(j) /\ j.dimension = i.dimension
               /\ \A d \in DOMAIN j.vectors : d \in DOMAIN i.vectors /\ j.vectors[d] = i.vectors[d]
<1> DEFINE f == IF i.hnsw THEN i.vectors ELSE Without(i.vectors, doc)
           ids == IF i.hnsw THEN Without(i.id_of, doc) ELSE i.id_of
           n == IF i.size = 0 THEN 0 ELSE i.size - 1
           j == [i EXCEPT !.vectors = f, !.id_of = ids, !.size = n]
<1>1. DOMAIN i = ScanFields
  BY DEF IsScan
<1>2. RemoveVector(i, doc) = j
  BY <1>1 DEF RemoveVector, ScanFields
<1>3. n \in Nat
  BY DEF IsScan
<1>4. DOMAIN f \in SUBSET DOMAIN i.vectors /\ \A d \in DOMAIN f : f[d] = i.vectors[d]
  <2> DEFINE g == Without(i.vectors, doc)
  <2>1. DOMAIN g = DOMAIN i.vectors \ {doc} /\ \A z \in DOMAIN i.vectors : z # doc => g[z] = i.vectors[z]
    BY WithoutChanges
  <2>2. f = i.vectors \/ f = g
    OBVIOUS
  <2> HIDE DEF f, g
  <2> QED
    BY <2>1, <2>2
<1> HIDE DEF f, ids, n
<1>5. /\ j = [field \in ScanFields |-> j[field]] /\ j.dimension = i.dimension
      /\ j.hnsw = i.hnsw /\ j.vectors = f /\ j.size = n /\ j.nodes = i.nodes
  BY <1>1 DEF ScanFields
<1> HIDE DEF j
<1>6. IsFiniteSet(DOMAIN f)
  BY <1>4, FS_Subset DEF IsScan
<1>7. i.hnsw => DOMAIN f = {}
  BY <1>4 DEF IsScan
<1>8. \A d \in DOMAIN f : f[d] \in Vectors /\ DimensionOf[f[d]] = i.dimension
  BY <1>4 DEF IsScan, Fits
<1> QED
  BY <1>2, <1>3, <1>4, <1>5, <1>6, <1>7, <1>8 DEF IsScan, Fits

-----------------------------------------------------------------------------
(* Searches of the persistent index *)

\* The first elements of a list.
LEMMA FirstOf ==
    ASSUME NEW S, NEW s \in Seq(S), NEW k \in Nat, NEW t, t = SubSeq(s, 1, Min({k, Len(s)}))
    PROVE  /\ t \in Seq(S) /\ Len(t) \in Nat /\ DOMAIN t = 1 .. Len(t) /\ Len(t) <= k
           /\ \A p \in DOMAIN t : p \in DOMAIN s /\ t[p] = s[p]
<1> DEFINE m == Min({k, Len(s)})
<1>1. Len(s) \in Nat /\ DOMAIN s = 1 .. Len(s) /\ \A p \in 1 .. Len(s) : s[p] \in S
  BY LenProperties, ElementOfSeq
<1>2. m \in Nat /\ m <= k /\ m <= Len(s)
  BY <1>1, LessOfTwo
<1> HIDE DEF m
<1>3. t = SubSeq(s, 1, m)
  BY DEF m
<1>4. \A p \in 1 .. m : s[p] \in S
  BY <1>1, <1>2
<1>5. /\ t \in Seq(S)
      /\ Len(t) = IF 1 <= m THEN m - 1 + 1 ELSE 0
      /\ \A p \in 1 .. m - 1 + 1 : t[p] = s[1 + p - 1]
  <2>1. m \in Int /\ 1 \in Int
    BY <1>2
  <2>2. SubSeq(s, 1, m) \in Seq(S) /\ Len(SubSeq(s, 1, m)) = IF 1 <= m THEN m - 1 + 1 ELSE 0
    BY <1>4, <2>1, SubSeqProperties
  <2>3. \A p \in 1 .. m - 1 + 1 : SubSeq(s, 1, m)[p] = s[1 + p - 1]
    BY <1>4, <2>1, SubSeqProperties
  <2> QED
    BY <1>3, <2>2, <2>3, Zenon
<1>6. Len(t) = m /\ m - 1 + 1 = m
  BY <1>2, <1>5
<1>7. DOMAIN t = 1 .. m
  BY <1>5, <1>6, LenProperties
<1>8. \A p \in 1 .. m : 1 + p - 1 = p /\ p \in 1 .. Len(s)
  BY <1>1, <1>2
<1> QED
  BY <1>1, <1>2, <1>5, <1>6, <1>7, <1>8

HitFields == {"doc", "vector", "distance"}
IsHit(hit) == hit = [field \in HitFields |-> hit[field]] /\ hit.distance \in Nat

\* What a hit is made of.
LEMMA HitMade ==
    ASSUME NEW doc, NEW q \in Vectors, NEW v \in Vectors
    PROVE  LET hit == Hit(doc, q, v)
           IN  IsHit(hit) /\ hit.doc = doc /\ hit.vector = v /\ hit.distance = DistanceOf[<<q, v>>]
<1> DEFINE hit == Hit(doc, q, v)
           n == DistanceOf[<<q, v>>]
<1>1. n \in Nat
  BY VectorsAssumption
<1> HIDE DEF n
<1>2. /\ hit = [field \in HitFields |-> hit[field]]
      /\ hit.doc = doc /\ hit.vector = v /\ hit.distance = n
  BY DEF Hit, HitFields, n
<1> HIDE DEF hit
<1> QED
  BY <1>1, <1>2 DEF IsHit, hit, n

\* The hit tells a vector of the scan.
Scanned(i, q, hit) ==
    /\ hit.doc \in DOMAIN i.vectors
    /\ hit.distance = DistanceOf[<<q, i.vectors[hit.doc]>>]

\* A scan gives vectors of the index, nearest first.
LEMMA LinearGives ==
    ASSUME NEW i, IsScan(i), NEW q \in Vectors, NEW k \in Nat, NEW t, t = LinearSearch(i, q, k)
    PROVE  /\ Len(t) \in Nat /\ DOMAIN t = 1 .. Len(t)
           /\ \A p \in DOMAIN t : IsHit(t[p]) /\ Scanned(i, q, t[p])
           /\ \A p, r \in DOMAIN t : p < r => t[p].distance <= t[r].distance
<1> DEFINE D == DOMAIN i.vectors
           f == [doc \in D |-> Hit(doc, q, i.vectors[doc])]
           H == {Hit(doc, q, i.vectors[doc]) : doc \in D}
           s == Nearest(H)
<1>1. IsFiniteSet(D) /\ \A doc \in D : i.vectors[doc] \in Vectors
  BY DEF IsScan
<1>2. IsFiniteSet(H)
  <2>1. H = {f[doc] : doc \in D} /\ DOMAIN f = D
    OBVIOUS
  <2> HIDE DEF H, f
  <2> QED
    BY <1>1, <2>1, ImageFinite
<1>3. t = SubSeq(s, 1, Min({k, Len(s)}))
  BY DEF LinearSearch
<1>4. ASSUME NEW h \in H
      PROVE  IsHit(h) /\ Scanned(i, q, h)
  <2>1. PICK doc \in D : h = Hit(doc, q, i.vectors[doc])
    OBVIOUS
  <2> DEFINE g == Hit(doc, q, i.vectors[doc])
  <2>2. i.vectors[doc] \in Vectors
    BY <1>1
  <2>3. IsHit(g) /\ g.doc = doc /\ g.distance = DistanceOf[<<q, i.vectors[doc]>>]
    BY <2>2, HitMade
  <2>4. h = g
    BY <2>1
  <2> HIDE DEF g, H
  <2> QED
    BY <2>3, <2>4 DEF Scanned
<1> HIDE DEF H
<1>5. s \in SetToSeqs(H) /\ \A p, r \in DOMAIN s : p < r => s[p].distance <= s[r].distance
  BY <1>2, <1>4, NearestSorts DEF IsHit
<1> HIDE DEF s
<1>6. s \in Seq(H) /\ \A p \in DOMAIN s : s[p] \in H
  <2>1. s \in Seq(H) /\ DOMAIN s = 1 .. Len(s)
    BY <1>2, <1>5, ListsOfSet
  <2> QED
    BY <2>1
<1>7. /\ Len(t) \in Nat /\ DOMAIN t = 1 .. Len(t)
      /\ \A p \in DOMAIN t : p \in DOMAIN s /\ t[p] = s[p]
  BY <1>3, <1>6, FirstOf
<1> QED
  BY <1>4, <1>5, <1>6, <1>7

\* A search of the index gives hits, and those of a scan tell its vectors.
LEMMA IndexGives ==
    ASSUME NEW i, IsScan(i), NEW q \in Vectors, NEW k \in Nat, NEW found \in SUBSET i.nodes,
           NEW t, t = SearchIndex(i, q, k, found)
    PROVE  /\ Len(t) \in Nat /\ DOMAIN t = 1 .. Len(t)
           /\ \A p \in DOMAIN t : IsHit(t[p]) /\ (~ i.hnsw => Scanned(i, q, t[p]))
           /\ ~ i.hnsw => \A p, r \in DOMAIN t : p < r => t[p].distance <= t[r].distance
<1>1. CASE ~ i.hnsw
  <2>1. t = LinearSearch(i, q, k)
    BY <1>1 DEF SearchIndex
  <2> QED
    BY <2>1, LinearGives
<1>2. CASE i.hnsw
  <2> DEFINE f == [node \in found |-> Hit(i.doc_of[node.id], q, node.vector)]
             H == {Hit(i.doc_of[node.id], q, node.vector) : node \in found}
  <2>1. IsFiniteSet(found) /\ \A node \in found : node.vector \in Vectors
    BY FS_Subset DEF IsScan
  <2>2. IsFiniteSet(H)
    <3>1. H = {f[node] : node \in found} /\ DOMAIN f = found
      OBVIOUS
    <3> HIDE DEF H, f
    <3> QED
      BY <2>1, <3>1, ImageFinite
  <2>3. t = Nearest(H)
    BY <1>2 DEF SearchIndex, HnswSearch
  <2>4. ASSUME NEW h \in H
        PROVE  IsHit(h)
    <3>1. PICK node \in found : h = Hit(i.doc_of[node.id], q, node.vector)
      OBVIOUS
    <3> DEFINE g == Hit(i.doc_of[node.id], q, node.vector)
    <3>2. IsHit(g)
      BY <2>1, HitMade
    <3>3. h = g
      BY <3>1
    <3> HIDE DEF g, H
    <3> QED
      BY <3>2, <3>3
  <2> HIDE DEF H
  <2>5. t \in SetToSeqs(H)
    BY <2>2, <2>3, <2>4, NearestSorts DEF IsHit
  <2>6. t \in Seq(H) /\ Len(t) = Cardinality(H) /\ DOMAIN t = 1 .. Len(t)
    BY <2>2, <2>5, ListsOfSet
  <2>7. Len(t) \in Nat /\ \A p \in DOMAIN t : t[p] \in H
    BY <2>6
  <2> QED
    BY <1>2, <2>4, <2>6, <2>7
<1> QED
  BY <1>1, <1>2

-----------------------------------------------------------------------------
(* The storage of the persistent index *)

StoreFields == {"index", "redb", "cache", "counter", "trained", "codes"}
RedbFields == {"vectors", "config"}
CacheEntries == [doc : DocIds, vector : Vectors]

IsRedb(r) ==
    /\ r = [field \in RedbFields |-> r[field]]
    /\ \A doc \in DOMAIN r.vectors : r.vectors[doc] \in Vectors
IsStore(x) ==
    /\ x = [field \in StoreFields |-> x[field]]
    /\ IsScan(x.index)
    /\ IsRedb(x.redb)
    /\ x.cache \in Seq(CacheEntries)

\* The file and the cache have v, and nothing else, for the document.
Agrees(x, doc, v) ==
    /\ doc \in DOMAIN x.redb.vectors /\ x.redb.vectors[doc] = v
    /\ \A p \in DOMAIN x.cache : x.cache[p].doc = doc => x.cache[p].vector = v


\* Some number is the least of a set that is not empty.
LEMMA MinIn ==
    ASSUME NEW S \in SUBSET Nat, S # {}
    PROVE  Min(S) \in S
<1>1. \E x \in S : \A y \in S : x <= y
  BY LeastNumber
<1> QED
  BY <1>1 DEF Min

\* What is read is the cached vector, or that of the file.
LEMMA GetGives ==
    ASSUME NEW x, IsStore(x), NEW doc
    PROVE  /\ GetVector(x, doc) \in Vectors \union {None}
           /\ \A v : Agrees(x, doc, v) => GetVector(x, doc) = v
<1> DEFINE cached == {p \in DOMAIN x.cache : x.cache[p].doc = doc}
<1>1. DOMAIN x.cache = 1 .. Len(x.cache) /\ \A p \in DOMAIN x.cache : x.cache[p] \in CacheEntries
  <2>1. x.cache \in Seq(CacheEntries)
    BY DEF IsStore
  <2> QED
    BY <2>1, LenProperties, ElementOfSeq
<1>2. CASE cached # {}
  <2>1. cached \in SUBSET Nat
    BY <1>1
  <2> HIDE DEF cached
  <2>2. Min(cached) \in cached
    BY <1>2, <2>1, MinIn
  <2>3. GetVector(x, doc) = x.cache[Min(cached)].vector
    BY <1>2 DEF GetVector, cached
  <2>4. Min(cached) \in DOMAIN x.cache /\ x.cache[Min(cached)].doc = doc
    BY <2>2 DEF cached
  <2>5. x.cache[Min(cached)].vector \in Vectors
    BY <1>1, <2>4 DEF CacheEntries
  <2> QED
    BY <2>3, <2>4, <2>5 DEF Agrees
<1>3. CASE cached = {}
  <2>1. GetVector(x, doc) = IF doc \in DOMAIN x.redb.vectors THEN x.redb.vectors[doc] ELSE None
    BY <1>3 DEF GetVector
  <2> QED
    BY <2>1 DEF IsStore, IsRedb, Agrees
<1> QED
  BY <1>2, <1>3

\* The cache has the new vector first, and no older one of the document.
LEMMA CachePutGives ==
    ASSUME NEW cache \in Seq(CacheEntries), NEW doc \in DocIds, NEW v \in Vectors,
           NEW t, t = CachePut(cache, doc, v)
    PROVE  /\ t \in Seq(CacheEntries)
           /\ \A p \in DOMAIN t : \/ t[p].doc = doc /\ t[p].vector = v
                                  \/ t[p].doc # doc /\ \E r \in DOMAIN cache : t[p] = cache[r]
<1> DEFINE S == {entry \in Range(cache) : entry.doc # doc}
           others == Keep(cache, S)
           e == [doc |-> doc, vector |-> v]
           n == Len(cache)
           first == <<e>>
           u == first \o others
<1>1. n \in Nat /\ DOMAIN cache = 1 .. n /\ \A p \in DOMAIN cache : cache[p] \in CacheEntries
  BY LenProperties, ElementOfSeq
<1>2. e \in CacheEntries /\ e.doc = doc /\ e.vector = v
  BY DEF CacheEntries
<1>3. \A x \in S : x.doc # doc
  OBVIOUS
<1>4. CachePut(cache, doc, v) = SubSeq(u, 1, Min({CacheSize, Len(others) + 1}))
  BY DEF CachePut
<1> HIDE DEF S, e, n
<1>5. /\ Len(others) \in Nat /\ DOMAIN others = 1 .. Len(others)
      /\ \A k \in DOMAIN others : others[k] \in S /\ \E j \in DOMAIN cache : others[k] = cache[j]
      /\ others = Keep(cache, S)
  <2>1. \A r : r = Keep(cache, S) =>
          /\ Len(r) \in Nat /\ DOMAIN r = 1 .. Len(r)
          /\ \A k \in DOMAIN r : r[k] \in S /\ \E j \in DOMAIN cache : r[k] = cache[j]
    BY <1>1, KeepGives
  <2> QED
    BY <2>1
<1>6. others \in Seq(CacheEntries)
  <2>1. IsKeep(cache, S, n, others)
    BY <1>1, KeepKeeps
  <2>2. others \in Seq({cache[i] : i \in DOMAIN cache})
    BY <2>1 DEF IsKeep, KeptAt
  <2> HIDE DEF others
  <2> QED
    BY <1>1, <1>5, <2>2
<1> HIDE DEF others
<1>7. first \in Seq(CacheEntries) /\ Len(first) = 1 /\ first[1] = e
  BY <1>2
<1> HIDE DEF first
<1>8. /\ u \in Seq(CacheEntries) /\ Len(u) = Len(others) + 1
      /\ \A p \in 1 .. Len(u) : u[p] = IF p <= 1 THEN first[p] ELSE others[p - 1]
  <2>1. u \in Seq(CacheEntries) /\ Len(u) = Len(first) + Len(others)
    BY <1>6, <1>7, ConcatProperties
  <2>2. \A p \in 1 .. Len(first) + Len(others) :
           u[p] = IF p <= Len(first) THEN first[p] ELSE others[p - Len(first)]
    BY <1>6, <1>7, ConcatProperties
  <2> HIDE DEF u
  <2> QED
    BY <1>5, <1>7, <2>1, <2>2
<1>9. DOMAIN u = 1 .. Len(u)
  BY <1>8, LenProperties
<1> HIDE DEF u
<1>10. t = SubSeq(u, 1, Min({CacheSize, Len(u)}))
  BY <1>4, <1>8
<1>11. /\ t \in Seq(CacheEntries)
       /\ \A p \in DOMAIN t : p \in DOMAIN u /\ t[p] = u[p]
  <2>1. CacheSize \in Nat /\ u \in Seq(CacheEntries)
    BY <1>8, StorageAssumption
  <2> QED
    BY <1>10, <2>1, FirstOf
<1>12. ASSUME NEW p \in DOMAIN u
       PROVE  \/ u[p].doc = doc /\ u[p].vector = v
              \/ u[p].doc # doc /\ \E r \in DOMAIN cache : u[p] = cache[r]
  <2>1. CASE p <= 1
    <3>1. p = 1
      BY <1>8, <1>9, <2>1
    <3> QED
      BY <1>2, <1>7, <1>8, <1>9, <3>1
  <2>2. CASE ~ (p <= 1)
    <3>1. p - 1 \in DOMAIN others /\ u[p] = others[p - 1]
      BY <1>5, <1>8, <1>9, <2>2
    <3> QED
      BY <1>3, <1>5, <3>1
  <2> QED
    BY <2>1, <2>2
<1> QED
  BY <1>11, <1>12

\* What store changes.
LEMMA StoreFieldsChanged ==
    ASSUME NEW x, IsStore(x), NEW doc, NEW v, NEW fails
    PROVE  LET y == StoreVector(x, doc, v, fails)
           IN  /\ y = [field \in StoreFields |-> y[field]]
               /\ y.index = x.index /\ y.trained = x.trained /\ y.codes = x.codes
               /\ y.cache = CachePut(x.cache, doc, v)
               /\ y.redb = [field \in RedbFields |-> y.redb[field]]
               /\ y.redb.vectors = IF fails # "store" THEN With(x.redb.vectors, doc, v) ELSE x.redb.vectors
<1> DEFINE cache == CachePut(x.cache, doc, v)
           f == IF fails # "store" THEN With(x.redb.vectors, doc, v) ELSE x.redb.vectors
           r == [x.redb EXCEPT !.vectors = f]
           y == [x EXCEPT !.cache = cache, !.redb = r]
<1>1. DOMAIN x = StoreFields /\ DOMAIN x.redb = RedbFields
  BY DEF IsStore, IsRedb
<1>2. StoreVector(x, doc, v, fails) = y
  BY <1>1 DEF StoreVector, StoreFields, RedbFields
<1> HIDE DEF cache, f
<1>3. r = [field \in RedbFields |-> r[field]] /\ r.vectors = f
  BY <1>1 DEF RedbFields
<1> HIDE DEF r
<1>4. /\ y = [field \in StoreFields |-> y[field]]
      /\ y.index = x.index /\ y.trained = x.trained /\ y.codes = x.codes
      /\ y.cache = cache /\ y.redb = r
  BY <1>1 DEF StoreFields
<1> HIDE DEF y
<1> QED
  BY <1>2, <1>3, <1>4 DEF cache, f

\* A vector that is stored is the one of its document, and the others stay.
LEMMA StoreKeeps ==
    ASSUME NEW x, IsStore(x), NEW doc \in DocIds, NEW v \in Vectors, NEW fails
    PROVE  LET y == StoreVector(x, doc, v, fails)
           IN  /\ IsStore(y) /\ y.index = x.index /\ y.trained = x.trained /\ y.codes = x.codes
               /\ \A d, w : d # doc /\ Agrees(x, d, w) => Agrees(y, d, w)
               /\ fails # "store" => Agrees(y, doc, v)
<1> DEFINE y == StoreVector(x, doc, v, fails)
           cache == CachePut(x.cache, doc, v)
           f == With(x.redb.vectors, doc, v)
<1>1. /\ y = [field \in StoreFields |-> y[field]]
      /\ y.index = x.index /\ y.trained = x.trained /\ y.codes = x.codes
      /\ y.cache = cache
      /\ y.redb = [field \in RedbFields |-> y.redb[field]]
      /\ y.redb.vectors = IF fails # "store" THEN f ELSE x.redb.vectors
  BY StoreFieldsChanged
<1> HIDE DEF y
<1>2. /\ DOMAIN f = DOMAIN x.redb.vectors \union {doc} /\ f[doc] = v
      /\ \A d \in DOMAIN x.redb.vectors : d # doc => f[d] = x.redb.vectors[d]
  BY DEF With
<1> HIDE DEF f
<1>3. /\ cache \in Seq(CacheEntries)
      /\ \A p \in DOMAIN cache :
            \/ cache[p].doc = doc /\ cache[p].vector = v
            \/ cache[p].doc # doc /\ \E r \in DOMAIN x.cache : cache[p] = x.cache[r]
  <2>1. x.cache \in Seq(CacheEntries) /\ cache = CachePut(x.cache, doc, v)
    BY DEF IsStore
  <2> HIDE DEF cache
  <2> QED
    BY <2>1, CachePutGives
<1> HIDE DEF cache
<1>4. IsRedb(y.redb)
  BY <1>1, <1>2 DEF IsRedb, IsStore
<1>5. IsStore(y)
  BY <1>1, <1>3, <1>4 DEF IsStore
<1>6. ASSUME NEW d, NEW w, d # doc, Agrees(x, d, w)
      PROVE  Agrees(y, d, w)
  <2>1. d \in DOMAIN y.redb.vectors /\ y.redb.vectors[d] = w
    BY <1>1, <1>2, <1>6 DEF Agrees
  <2>2. ASSUME NEW p \in DOMAIN y.cache, y.cache[p].doc = d
        PROVE  y.cache[p].vector = w
    <3>1. PICK r \in DOMAIN x.cache : cache[p] = x.cache[r]
      BY <1>1, <1>3, <1>6, <2>2
    <3> QED
      BY <1>1, <1>6, <2>2, <3>1 DEF Agrees
  <2> QED
    BY <2>1, <2>2 DEF Agrees
<1>7. ASSUME fails # "store"
      PROVE  Agrees(y, doc, v)
  BY <1>1, <1>2, <1>3, <1>7 DEF Agrees
<1> QED
  BY <1>1, <1>5, <1>6, <1>7 DEF y

\* A vector that is read is put in the cache, which agrees with what it did.
LEMMA ReadKeeps ==
    ASSUME NEW x, IsStore(x), NEW doc \in DocIds
    PROVE  LET y == ReadVector(x, doc)
           IN  /\ IsStore(y) /\ y.index = x.index /\ y.trained = x.trained /\ y.codes = x.codes
               /\ y.redb = x.redb
               /\ \A d, w : Agrees(x, d, w) => Agrees(y, d, w)
<1> DEFINE v == GetVector(x, doc)
           y == ReadVector(x, doc)
           cache == CachePut(x.cache, doc, v)
<1>1. CASE v = None
  BY <1>1 DEF ReadVector
<1>2. CASE v # None
  <2>1. v \in Vectors /\ \A w : Agrees(x, doc, w) => v = w
    BY <1>2, GetGives
  <2> HIDE DEF v
  <2>2. DOMAIN x = StoreFields
    BY DEF IsStore
  <2> DEFINE z == [x EXCEPT !.cache = cache]
  <2>3. y = z
    BY <1>2 DEF ReadVector, v
  <2>4. /\ cache \in Seq(CacheEntries)
        /\ \A p \in DOMAIN cache :
              \/ cache[p].doc = doc /\ cache[p].vector = v
              \/ cache[p].doc # doc /\ \E r \in DOMAIN x.cache : cache[p] = x.cache[r]
    <3>1. x.cache \in Seq(CacheEntries) /\ cache = CachePut(x.cache, doc, v)
      BY DEF IsStore, v
    <3> HIDE DEF cache
    <3> QED
      BY <2>1, <3>1, CachePutGives
  <2> HIDE DEF cache
  <2>5. /\ z = [field \in StoreFields |-> z[field]]
        /\ z.index = x.index /\ z.trained = x.trained /\ z.codes = x.codes
        /\ z.cache = cache /\ z.redb = x.redb
    BY <2>2 DEF StoreFields
  <2> HIDE DEF y, z
  <2>6. IsStore(z)
    BY <2>4, <2>5 DEF IsStore
  <2>7. ASSUME NEW d, NEW w, Agrees(x, d, w)
        PROVE  Agrees(z, d, w)
    <3>1. d = doc => v = w
      BY <2>1, <2>7
    <3>2. ASSUME NEW p \in DOMAIN z.cache, z.cache[p].doc = d
          PROVE  z.cache[p].vector = w
      BY <2>4, <2>5, <2>7, <3>1, <3>2 DEF Agrees
    <3> QED
      BY <2>5, <2>7, <3>2 DEF Agrees
  <2> QED
    BY <2>3, <2>5, <2>6, <2>7 DEF y
<1> QED
  BY <1>1, <1>2

-----------------------------------------------------------------------------
(* The steps of the persistent index *)

\* Codes are made after training only.
CodesInv(x) == x.trained \/ DOMAIN x.codes = {}

\* The code and the scan tell v, and nothing else, of the document; and so does the storage.
Told(x, doc, v) ==
    /\ doc \in DOMAIN x.codes => x.codes[doc] = v
    /\ doc \in DOMAIN x.index.vectors => x.index.vectors[doc] = v
Holds(x, doc, v) == Agrees(x, doc, v) /\ Told(x, doc, v)

\* An index that is opened has the vectors of its file, and none of its own.
LEMMA OpenGives ==
    ASSUME NEW r, IsRedb(r), NEW n
    PROVE  LET x == OpenIndex(r, n)
           IN  /\ IsStore(x) /\ CodesInv(x) /\ ~ x.trained
               /\ DOMAIN x.codes = {} /\ DOMAIN x.index.vectors = {} /\ x.redb = r /\ x.cache = <<>>
<1> DEFINE i == NewVectorIndex(IF r.config = None THEN n ELSE r.config.dimension)
           none == <<>>
           x == [index |-> i, redb |-> r, cache |-> none, counter |-> 0, trained |-> FALSE, codes |-> none]
<1>1. OpenIndex(r, n) = x
  BY DEF OpenIndex
<1>2. IsScan(i) /\ DOMAIN i.vectors = {}
  BY NewIsScan
<1>3. none \in Seq(CacheEntries) /\ DOMAIN none = {} /\ none = <<>>
  OBVIOUS
<1> HIDE DEF i, none
<1>4. /\ x = [field \in StoreFields |-> x[field]]
      /\ x.index = i /\ x.redb = r /\ x.cache = none /\ x.trained = FALSE /\ x.codes = none
  BY DEF StoreFields
<1> HIDE DEF x
<1> QED
  BY <1>1, <1>2, <1>3, <1>4 DEF IsStore, CodesInv

\* A vector goes to the index, and nowhere else.
LEMMA IndexKeeps ==
    ASSUME NEW x, IsStore(x), NEW p \in Points
    PROVE  LET y == Index(x, p)
           IN  /\ IsStore(y) /\ y.redb = x.redb /\ y.cache = x.cache
               /\ y.trained = x.trained /\ y.codes = x.codes
               /\ AfterAdd(x.index, y.index, p.id, p.vector)
<1> DEFINE i == AddVector(x.index, p.id, p.vector)
           y == [x EXCEPT !.index = i]
<1>1. DOMAIN x = StoreFields /\ p.vector \in Vectors
  BY VectorsAssumption DEF IsStore
<1>2. Index(x, p) = y
  BY <1>1 DEF Index, StoreFields
<1>3. AfterAdd(x.index, i, p.id, p.vector)
  BY <1>1, AddVectorKeeps DEF IsStore
<1> HIDE DEF i
<1>4. /\ y = [field \in StoreFields |-> y[field]]
      /\ y.index = i /\ y.redb = x.redb /\ y.cache = x.cache
      /\ y.trained = x.trained /\ y.codes = x.codes
  BY <1>1 DEF StoreFields
<1> HIDE DEF y
<1> QED
  BY <1>2, <1>3, <1>4 DEF IsStore, AfterAdd

\* A code is of the vector, if there are codes.
LEMMA EncodeKeeps ==
    ASSUME NEW x, IsStore(x), NEW p
    PROVE  LET y == EncodePoint(x, p)
           IN  /\ IsStore(y) /\ y.redb = x.redb /\ y.cache = x.cache
               /\ y.trained = x.trained /\ y.index = x.index
               /\ x.trained => p.id \in DOMAIN y.codes /\ y.codes[p.id] = p.vector
               /\ ~ x.trained => y.codes = x.codes
               /\ \A d \in DOMAIN y.codes : d # p.id => d \in DOMAIN x.codes /\ y.codes[d] = x.codes[d]
<1> DEFINE f == With(x.codes, p.id, p.vector)
           codes == IF x.trained THEN f ELSE x.codes
           y == [x EXCEPT !.codes = codes]
<1>1. DOMAIN x = StoreFields
  BY DEF IsStore
<1>2. EncodePoint(x, p) = y
  BY <1>1 DEF EncodePoint, StoreFields
<1>3. /\ DOMAIN f = DOMAIN x.codes \union {p.id} /\ f[p.id] = p.vector
      /\ \A d \in DOMAIN x.codes : d # p.id => f[d] = x.codes[d]
  BY DEF With
<1> HIDE DEF f
<1>4. /\ x.trained => p.id \in DOMAIN codes /\ codes[p.id] = p.vector
      /\ ~ x.trained => codes = x.codes
      /\ \A d \in DOMAIN codes : d # p.id => d \in DOMAIN x.codes /\ codes[d] = x.codes[d]
  BY <1>3
<1> HIDE DEF codes
<1>5. /\ y = [field \in StoreFields |-> y[field]]
      /\ y.index = x.index /\ y.redb = x.redb /\ y.cache = x.cache
      /\ y.trained = x.trained /\ y.codes = codes
  BY <1>1 DEF StoreFields
<1> HIDE DEF y
<1> QED
  BY <1>2, <1>4, <1>5 DEF IsStore

\* A snapshot writes the metadata.
LEMMA SnapshotKeeps ==
    ASSUME NEW x, IsStore(x)
    PROVE  LET y == SnapshotIndex(x)
           IN  /\ IsStore(y) /\ y.redb.vectors = x.redb.vectors /\ y.cache = x.cache
               /\ y.trained = x.trained /\ y.codes = x.codes /\ y.index = x.index
<1> DEFINE config == [dimension |-> x.index.dimension]
           r == [x.redb EXCEPT !.config = config]
           y == [x EXCEPT !.redb = r]
<1>1. DOMAIN x = StoreFields /\ DOMAIN x.redb = RedbFields
  BY DEF IsStore, IsRedb
<1>2. SnapshotIndex(x) = y
  BY <1>1 DEF SnapshotIndex, StoreFields, RedbFields
<1> HIDE DEF config
<1>3. r = [field \in RedbFields |-> r[field]] /\ r.vectors = x.redb.vectors
  BY <1>1 DEF RedbFields
<1> HIDE DEF r
<1>4. /\ y = [field \in StoreFields |-> y[field]]
      /\ y.index = x.index /\ y.redb = r /\ y.cache = x.cache
      /\ y.trained = x.trained /\ y.codes = x.codes
  BY <1>1 DEF StoreFields
<1> HIDE DEF y
<1> QED
  BY <1>2, <1>3, <1>4 DEF IsStore, IsRedb

\* Counting may bring about a snapshot.
LEMMA CountKeeps ==
    ASSUME NEW x, IsStore(x), NEW n, NEW fails
    PROVE  LET y == CountAdded(x, n, fails)
           IN  /\ IsStore(y) /\ y.redb.vectors = x.redb.vectors /\ y.cache = x.cache
               /\ y.trained = x.trained /\ y.codes = x.codes /\ y.index = x.index
<1> DEFINE m == x.counter + n
           y == [x EXCEPT !.counter = m]
           z == SnapshotIndex(y)
           u == [z EXCEPT !.counter = 0]
<1>1. DOMAIN x = StoreFields
  BY DEF IsStore
<1>2. CountAdded(x, n, fails) = y \/ CountAdded(x, n, fails) = u
  BY <1>1 DEF CountAdded, StoreFields
<1> HIDE DEF m
<1>3. /\ y = [field \in StoreFields |-> y[field]]
      /\ y.index = x.index /\ y.redb = x.redb /\ y.cache = x.cache
      /\ y.trained = x.trained /\ y.codes = x.codes
  BY <1>1 DEF StoreFields
<1> HIDE DEF y
<1>4. IsStore(y)
  BY <1>3 DEF IsStore
<1>5. /\ IsStore(z) /\ z.redb.vectors = y.redb.vectors /\ z.cache = y.cache
      /\ z.trained = y.trained /\ z.codes = y.codes /\ z.index = y.index
  BY <1>4, SnapshotKeeps
<1> HIDE DEF z
<1>6. DOMAIN z = StoreFields
  BY <1>5 DEF IsStore
<1>7. /\ u = [field \in StoreFields |-> u[field]]
      /\ u.index = z.index /\ u.redb = z.redb /\ u.cache = z.cache
      /\ u.trained = z.trained /\ u.codes = z.codes
  BY <1>6 DEF StoreFields
<1> HIDE DEF u
<1>8. IsStore(u)
  BY <1>5, <1>7 DEF IsStore
<1> QED
  BY <1>2, <1>3, <1>4, <1>5, <1>7, <1>8

\* What a point changes: it takes the place of what was held of its document.
AfterPoint(x, y, p) ==
    /\ IsStore(y) /\ CodesInv(y) /\ y.index.dimension = x.index.dimension /\ y.trained = x.trained
    /\ \A d \in DOMAIN y.index.vectors : d \in DOMAIN x.index.vectors \/ (d = p.id /\ Fits(x.index, p.vector))
    /\ \A d, w : Holds(x, d, w) /\ (d = p.id => ~ Fits(x.index, p.vector)) => Holds(y, d, w)


\* add indexes, stores and encodes a point, and counts it.
LEMMA AddPointKeeps ==
    ASSUME NEW x, IsStore(x), CodesInv(x), NEW p \in Points, NEW fails
    PROVE  /\ AfterPoint(x, AddPoint(x, p, fails), p)
           /\ Fits(x.index, p.vector) /\ fails # "store" => Holds(AddPoint(x, p, fails), p.id, p.vector)
<1> DEFINE a == Index(x, p)
           b == StoreVector(a, p.id, p.vector, fails)
           c == EncodePoint(b, p)
           e == CountAdded(c, 1, fails)
           y == AddPoint(x, p, fails)
<1>1. p.id \in DocIds /\ p.vector \in Vectors
  BY VectorsAssumption
<1>2. y = IF ~Fits(x.index, p.vector) THEN a ELSE IF fails = "store" THEN b ELSE e
  BY DEF AddPoint
<1> HIDE DEF y
<1>3. /\ IsStore(a) /\ a.redb = x.redb /\ a.cache = x.cache /\ a.trained = x.trained /\ a.codes = x.codes
      /\ AfterAdd(x.index, a.index, p.id, p.vector)
  BY IndexKeeps
<1> HIDE DEF a
<1>4. /\ a.index.dimension = x.index.dimension
      /\ \A d \in DOMAIN a.index.vectors :
            \/ d = p.id /\ a.index.vectors[d] = p.vector /\ Fits(x.index, p.vector)
            \/ d \in DOMAIN x.index.vectors /\ a.index.vectors[d] = x.index.vectors[d]
               /\ (Fits(x.index, p.vector) => d # p.id)
  BY <1>3 DEF AfterAdd
<1>5. \A d, w : Agrees(x, d, w) => Agrees(a, d, w)
  BY <1>3 DEF Agrees
<1>6. CASE ~ Fits(x.index, p.vector)
  <2>1. y = a
    BY <1>2, <1>6
  <2>2. \A d, w : Holds(x, d, w) => Holds(a, d, w)
    BY <1>3, <1>4, <1>5, <1>6 DEF Holds, Told
  <2>3. CodesInv(a)
    BY <1>3 DEF CodesInv
  <2> QED
    BY <1>3, <1>4, <1>6, <2>1, <2>2, <2>3 DEF AfterPoint, y
<1>7. CASE Fits(x.index, p.vector)
  <2>1. /\ IsStore(b) /\ b.index = a.index /\ b.trained = a.trained /\ b.codes = a.codes
        /\ \A d, w : d # p.id /\ Agrees(a, d, w) => Agrees(b, d, w)
        /\ fails # "store" => Agrees(b, p.id, p.vector)
    BY <1>1, <1>3, StoreKeeps
  <2> HIDE DEF b
  <2>2. /\ IsStore(c) /\ c.redb = b.redb /\ c.cache = b.cache /\ c.trained = b.trained /\ c.index = b.index
        /\ b.trained => p.id \in DOMAIN c.codes /\ c.codes[p.id] = p.vector
        /\ ~ b.trained => c.codes = b.codes
        /\ \A d \in DOMAIN c.codes : d # p.id => d \in DOMAIN b.codes /\ c.codes[d] = b.codes[d]
    BY <2>1, EncodeKeeps
  <2> HIDE DEF c
  <2>3. /\ IsStore(e) /\ e.redb.vectors = c.redb.vectors /\ e.cache = c.cache
        /\ e.trained = c.trained /\ e.codes = c.codes /\ e.index = c.index
    BY <2>2, CountKeeps
  <2> HIDE DEF e
  <2>4. \A d, w : Agrees(b, d, w) => Agrees(e, d, w)
    BY <2>2, <2>3 DEF Agrees
  <2>5. CASE fails = "store"
    <3>1. y = b
      BY <1>2, <1>7, <2>5
    <3>2. \A d, w : Holds(x, d, w) /\ d # p.id => Holds(b, d, w)
      BY <1>3, <1>4, <1>5, <2>1 DEF Holds, Told
    <3>3. CodesInv(b)
      BY <1>3, <2>1 DEF CodesInv
    <3> QED
      BY <1>3, <1>4, <1>7, <2>1, <2>5, <3>1, <3>2, <3>3 DEF AfterPoint, y
  <2>6. CASE fails # "store"
    <3>1. y = e
      BY <1>2, <1>7, <2>6
    <3>2. \A d, w : Holds(x, d, w) /\ d # p.id => Holds(e, d, w)
      BY <1>3, <1>4, <1>5, <2>1, <2>2, <2>3, <2>4 DEF Holds, Told
    <3>3. CodesInv(e)
      BY <1>3, <2>1, <2>2, <2>3 DEF CodesInv
    <3>4. Holds(e, p.id, p.vector)
      <4>1. Agrees(e, p.id, p.vector)
        BY <2>1, <2>4, <2>6
      <4>2. p.id \in DOMAIN e.codes => e.codes[p.id] = p.vector
        BY <1>3, <2>1, <2>2, <2>3 DEF CodesInv
      <4>3. p.id \in DOMAIN e.index.vectors => e.index.vectors[p.id] = p.vector
        BY <1>4, <1>7, <2>1, <2>2, <2>3
      <4> QED
        BY <4>1, <4>2, <4>3 DEF Holds, Told
    <3> QED
      BY <1>3, <1>4, <1>7, <2>1, <2>2, <2>3, <3>1, <3>2, <3>3, <3>4 DEF AfterPoint, y
  <2> QED
    BY <2>5, <2>6
<1> QED
  BY <1>6, <1>7

-----------------------------------------------------------------------------
(* A batch of two points *)

\* What the folds over one or two elements need to know of their indices.
LEMMA OneAndTwo ==
    /\ Max({1}) = 1 /\ Max({2}) = 2 /\ Max({1, 2}) = 2
    /\ {1} \ {1} = {} /\ {2} \ {2} = {} /\ {1, 2} \ {2} = {1} /\ {1} # {2} /\ {1, 2} # {1} /\ {1, 2} # {2}
    /\ 1 .. 1 = {1} /\ 1 .. 2 = {1, 2}
    /\ \A y \in SUBSET {1, 2} : y \in {{}, {1}, {2}, {1, 2}}
<1>1. Max({1}) = 1
  BY MaxTop, 1 .. 0 + 1 = {1}, 0 \in Nat, 0 + 1 = 1
<1>2. Max({2}) = 2 /\ Max({1, 2}) = 2
  <2>1. 1 \in Nat /\ 1 + 1 = 2 /\ {2} \in SUBSET (1 .. 1 + 1) /\ {1, 2} \in SUBSET (1 .. 1 + 1)
    OBVIOUS
  <2> QED
    BY <2>1, MaxTop
<1>3. \A y \in SUBSET {1, 2} : y \in {{}, {1}, {2}, {1, 2}}
  <2> SUFFICES ASSUME NEW y \in SUBSET {1, 2}
               PROVE  y = {} \/ y = {1} \/ y = {2} \/ y = {1, 2}
    OBVIOUS
  <2>1. CASE 1 \in y /\ 2 \in y
    BY <2>1
  <2>2. CASE 1 \in y /\ 2 \notin y
    BY <2>2
  <2>3. CASE 1 \notin y /\ 2 \in y
    BY <2>3
  <2>4. CASE 1 \notin y /\ 2 \notin y
    BY <2>4
  <2> QED
    BY <2>1, <2>2, <2>3, <2>4
<1> QED
  BY <1>1, <1>2, <1>3

\* How a batch indexes a point, and the recursive function by which it does so for a list.
PutIn(i, x, z) == IF Fits(i, z.vector) THEN EncodePoint(Index(x, z), z) ELSE Index(x, z)
Puts(f, i, x, s, D) ==
    f = [y \in SUBSET D |-> IF y = {} THEN x ELSE PutIn(i, f[y \ {Max(y)}], s[Max(y)])]
PutAll(i, x, s) == (CHOOSE f : Puts(f, i, x, s, DOMAIN s))[DOMAIN s]

\* A list of one point.
LEMMA PutOne ==
    ASSUME NEW i, NEW x, NEW p
    PROVE  PutAll(i, x, <<p>>) = PutIn(i, x, p)
<1> DEFINE s == <<p>>
           a == PutIn(i, x, p)
           g == [y \in SUBSET {1} |-> IF y = {} THEN x ELSE a]
<1>1. DOMAIN s = {1} /\ s[1] = p
  BY OneAndTwo
<1>2. \A y \in SUBSET {1} : y = {} \/ y = {1}
  OBVIOUS
<1> HIDE DEF s
<1>3. g[{}] = x /\ g[{1}] = a
  OBVIOUS
<1>4. g = [y \in SUBSET {1} |-> g[y]]
  OBVIOUS
<1> HIDE DEF g
<1>5. \A y \in SUBSET {1} : g[y] = IF y = {} THEN x ELSE PutIn(i, g[y \ {Max(y)}], s[Max(y)])
  <2> SUFFICES ASSUME NEW y \in SUBSET {1}
               PROVE  g[y] = IF y = {} THEN x ELSE PutIn(i, g[y \ {Max(y)}], s[Max(y)])
    OBVIOUS
  <2>1. CASE y = {}
    BY <1>3, <2>1
  <2>2. CASE y = {1}
    BY <1>1, <1>3, <2>2, OneAndTwo
  <2> QED
    BY <1>2, <2>1, <2>2
<1>6. Puts(g, i, x, s, {1})
  BY <1>4, <1>5 DEF Puts
<1> DEFINE f == CHOOSE h : Puts(h, i, x, s, {1})
<1>7. Puts(f, i, x, s, {1})
  BY <1>6
<1>8. PutAll(i, x, s) = f[{1}]
  BY <1>1 DEF PutAll
<1> HIDE DEF f
<1>9. {} \in SUBSET {1} /\ {1} \in SUBSET {1} /\ {1} # {}
  OBVIOUS
<1>10. f[{}] = x
  BY <1>7, <1>9 DEF Puts
<1>11. f[{1}] = PutIn(i, f[{1} \ {Max({1})}], s[Max({1})])
  BY <1>7, <1>9 DEF Puts
<1> QED
  BY <1>1, <1>8, <1>10, <1>11, OneAndTwo DEF s

\* A list of two points.
LEMMA PutTwo ==
    ASSUME NEW i, NEW x, NEW p, NEW r
    PROVE  PutAll(i, x, <<p, r>>) = PutIn(i, PutIn(i, x, p), r)
<1> DEFINE s == <<p, r>>
           a == PutIn(i, x, p)
           b == PutIn(i, x, r)
           c == PutIn(i, a, r)
           D == {1, 2}
           g == [y \in SUBSET D |-> IF y = {} THEN x ELSE IF y = {1} THEN a ELSE IF y = {2} THEN b ELSE c]
<1>1. DOMAIN s = D /\ s[1] = p /\ s[2] = r
  BY OneAndTwo
<1>2. \A y \in SUBSET D : y = {} \/ y = {1} \/ y = {2} \/ y = D
  BY OneAndTwo
<1>3. {} \in SUBSET D /\ {1} \in SUBSET D /\ {2} \in SUBSET D /\ D \in SUBSET D /\ {1} # {} /\ D # {}
  OBVIOUS
<1> HIDE DEF s
<1>4. g[{}] = x /\ g[{1}] = a /\ g[{2}] = b /\ g[D] = c
  BY <1>3, OneAndTwo
<1>5. g = [y \in SUBSET D |-> g[y]]
  OBVIOUS
<1> HIDE DEF g
<1>6. \A y \in SUBSET D : g[y] = IF y = {} THEN x ELSE PutIn(i, g[y \ {Max(y)}], s[Max(y)])
  <2> SUFFICES ASSUME NEW y \in SUBSET D
               PROVE  g[y] = IF y = {} THEN x ELSE PutIn(i, g[y \ {Max(y)}], s[Max(y)])
    OBVIOUS
  <2>1. CASE y = {}
    BY <1>4, <2>1
  <2>2. CASE y = {1}
    BY <1>1, <1>4, <2>2, OneAndTwo
  <2>3. CASE y = {2}
    BY <1>1, <1>4, <2>3, OneAndTwo
  <2>4. CASE y = D
    BY <1>1, <1>3, <1>4, <2>4, OneAndTwo
  <2> QED
    BY <1>2, <2>1, <2>2, <2>3, <2>4
<1>7. Puts(g, i, x, s, D)
  BY <1>5, <1>6 DEF Puts
<1> DEFINE f == CHOOSE h : Puts(h, i, x, s, D)
<1>8. Puts(f, i, x, s, D)
  BY <1>7
<1>9. PutAll(i, x, s) = f[D]
  BY <1>1 DEF PutAll
<1> HIDE DEF f
<1>10. f[{}] = x
  BY <1>3, <1>8 DEF Puts
<1>11. f[{1}] = PutIn(i, f[{1} \ {Max({1})}], s[Max({1})]) /\ f[D] = PutIn(i, f[D \ {Max(D)}], s[Max(D)])
  BY <1>3, <1>8 DEF Puts
<1> QED
  BY <1>1, <1>9, <1>10, <1>11, OneAndTwo DEF s

\* The recursive function by which a list of points is stored.
StoreIn(x, z, fails) == StoreVector(x, z.id, z.vector, fails)
StoresIn(f, x, s, fails, D) ==
    f = [y \in SUBSET D |-> IF y = {} THEN x ELSE StoreIn(f[y \ {Max(y)}], s[Max(y)], fails)]
StoredAll(x, s, fails) == (CHOOSE f : StoresIn(f, x, s, fails, DOMAIN s))[DOMAIN s]

\* A list of two points.
LEMMA StoreTwo ==
    ASSUME NEW x, NEW p, NEW r, NEW fails
    PROVE  StoreBatch(x, <<p, r>>, fails) = StoreIn(StoreIn(x, p, fails), r, fails)
<1> DEFINE s == <<p, r>>
           a == StoreIn(x, p, fails)
           b == StoreIn(x, r, fails)
           c == StoreIn(a, r, fails)
           D == {1, 2}
           g == [y \in SUBSET D |-> IF y = {} THEN x ELSE IF y = {1} THEN a ELSE IF y = {2} THEN b ELSE c]
<1>0. StoreBatch(x, s, fails) = StoredAll(x, s, fails)
  BY DEF StoreBatch, FoldLeft, MapThenFoldSet, StoredAll, StoresIn, StoreIn
<1>1. DOMAIN s = D /\ s[1] = p /\ s[2] = r
  BY OneAndTwo
<1>2. \A y \in SUBSET D : y = {} \/ y = {1} \/ y = {2} \/ y = D
  BY OneAndTwo
<1>3. {} \in SUBSET D /\ {1} \in SUBSET D /\ {2} \in SUBSET D /\ D \in SUBSET D /\ {1} # {} /\ D # {}
  OBVIOUS
<1> HIDE DEF s
<1>4. g[{}] = x /\ g[{1}] = a /\ g[{2}] = b /\ g[D] = c
  BY <1>3, OneAndTwo
<1>5. g = [y \in SUBSET D |-> g[y]]
  OBVIOUS
<1> HIDE DEF g
<1>6. \A y \in SUBSET D : g[y] = IF y = {} THEN x ELSE StoreIn(g[y \ {Max(y)}], s[Max(y)], fails)
  <2> SUFFICES ASSUME NEW y \in SUBSET D
               PROVE  g[y] = IF y = {} THEN x ELSE StoreIn(g[y \ {Max(y)}], s[Max(y)], fails)
    OBVIOUS
  <2>1. CASE y = {}
    BY <1>4, <2>1
  <2>2. CASE y = {1}
    BY <1>1, <1>4, <2>2, OneAndTwo
  <2>3. CASE y = {2}
    BY <1>1, <1>4, <2>3, OneAndTwo
  <2>4. CASE y = D
    BY <1>1, <1>3, <1>4, <2>4, OneAndTwo
  <2> QED
    BY <1>2, <2>1, <2>2, <2>3, <2>4
<1>7. StoresIn(g, x, s, fails, D)
  BY <1>5, <1>6 DEF StoresIn
<1> DEFINE f == CHOOSE h : StoresIn(h, x, s, fails, D)
<1>8. StoresIn(f, x, s, fails, D)
  BY <1>7
<1>9. StoredAll(x, s, fails) = f[D]
  BY <1>1 DEF StoredAll
<1> HIDE DEF f
<1>10. f[{}] = x
  BY <1>3, <1>8 DEF StoresIn
<1>11. f[{1}] = StoreIn(f[{1} \ {Max({1})}], s[Max({1})], fails) /\ f[D] = StoreIn(f[D \ {Max(D)}], s[Max(D)], fails)
  BY <1>3, <1>8 DEF StoresIn
<1> QED
  BY <1>0, <1>1, <1>9, <1>10, <1>11, OneAndTwo DEF s

\* One point of a batch: what was held of other documents is held, and of this one
\* the code and the scan tell the vector, if it fits.
LEMMA PutInKeeps ==
    ASSUME NEW x, IsStore(x), CodesInv(x), NEW i, i.dimension = x.index.dimension, NEW p \in Points
    PROVE  LET y == PutIn(i, x, p)
           IN  /\ AfterPoint(x, y, p) /\ y.redb = x.redb /\ y.cache = x.cache
               /\ \A d, w : Told(x, d, w) /\ (d = p.id => ~ Fits(i, p.vector)) => Told(y, d, w)
               /\ Fits(i, p.vector) => Told(y, p.id, p.vector)
<1> DEFINE a == Index(x, p)
           b == EncodePoint(a, p)
           y == PutIn(i, x, p)
<1>1. y = IF Fits(x.index, p.vector) THEN b ELSE a
  BY DEF PutIn, Fits
<1>2. Fits(i, p.vector) <=> Fits(x.index, p.vector)
  BY DEF Fits
<1> HIDE DEF y
<1>3. /\ IsStore(a) /\ a.redb = x.redb /\ a.cache = x.cache /\ a.trained = x.trained /\ a.codes = x.codes
      /\ AfterAdd(x.index, a.index, p.id, p.vector)
  BY IndexKeeps
<1> HIDE DEF a
<1>4. /\ a.index.dimension = x.index.dimension
      /\ \A d \in DOMAIN a.index.vectors :
            \/ d = p.id /\ a.index.vectors[d] = p.vector /\ Fits(x.index, p.vector)
            \/ d \in DOMAIN x.index.vectors /\ a.index.vectors[d] = x.index.vectors[d]
               /\ (Fits(x.index, p.vector) => d # p.id)
  BY <1>3 DEF AfterAdd
<1>5. CASE ~ Fits(x.index, p.vector)
  <2>1. y = a
    BY <1>1, <1>5
  <2>2. \A d, w : (Holds(x, d, w) => Holds(a, d, w)) /\ (Told(x, d, w) => Told(a, d, w))
    BY <1>3, <1>4, <1>5 DEF Holds, Told, Agrees
  <2>3. CodesInv(a)
    BY <1>3 DEF CodesInv
  <2> QED
    BY <1>2, <1>3, <1>4, <1>5, <2>1, <2>2, <2>3 DEF AfterPoint, y
<1>6. CASE Fits(x.index, p.vector)
  <2>1. y = b
    BY <1>1, <1>6
  <2>2. /\ IsStore(b) /\ b.redb = a.redb /\ b.cache = a.cache /\ b.trained = a.trained /\ b.index = a.index
        /\ a.trained => p.id \in DOMAIN b.codes /\ b.codes[p.id] = p.vector
        /\ ~ a.trained => b.codes = a.codes
        /\ \A d \in DOMAIN b.codes : d # p.id => d \in DOMAIN a.codes /\ b.codes[d] = a.codes[d]
    BY <1>3, EncodeKeeps
  <2> HIDE DEF b
  <2>3. \A d, w : d # p.id => (Holds(x, d, w) => Holds(b, d, w)) /\ (Told(x, d, w) => Told(b, d, w))
    BY <1>3, <1>4, <2>2 DEF Holds, Told, Agrees
  <2>4. CodesInv(b)
    BY <1>3, <2>2 DEF CodesInv
  <2>5. p.id \in DOMAIN b.codes => b.codes[p.id] = p.vector
    BY <1>3, <2>2 DEF CodesInv
  <2>6. p.id \in DOMAIN b.index.vectors => b.index.vectors[p.id] = p.vector
    BY <1>4, <1>6, <2>2
  <2>7. AfterPoint(x, b, p)
    BY <1>3, <1>4, <1>6, <2>2, <2>3, <2>4 DEF AfterPoint
  <2> QED
    BY <1>2, <1>3, <1>6, <2>1, <2>2, <2>3, <2>5, <2>6, <2>7 DEF Told, y
<1> QED
  BY <1>5, <1>6

\* The storage of the index is one whose vectors are those that calls said are stored.
PindexInv ==
    /\ IsStore(pindex) /\ CodesInv(pindex)
    /\ \A doc \in DOMAIN stored : Holds(pindex, doc, stored[doc])

\* add of one point.
LEMMA AddHolds ==
    ASSUME PindexInv, NEW p \in Points, NEW fails, Add(p, fails)
    PROVE  PindexInv'
<1> DEFINE y == AddPoint(pindex, p, fails)
           f == With(stored, p.id, p.vector)
           g == Without(stored, p.id)
<1>1. /\ pindex' = y
      /\ stored' = IF ~Fits(pindex.index, p.vector) THEN stored ELSE IF fails # "store" THEN f ELSE g
  BY DEF Add
<1>2. /\ AfterPoint(pindex, y, p)
      /\ Fits(pindex.index, p.vector) /\ fails # "store" => Holds(y, p.id, p.vector)
  BY AddPointKeeps DEF PindexInv
<1> HIDE DEF y
<1>3. IsStore(y) /\ CodesInv(y)
      /\ \A d, w : Holds(pindex, d, w) /\ (d = p.id => ~ Fits(pindex.index, p.vector)) => Holds(y, d, w)
  BY <1>2 DEF AfterPoint
<1>4. /\ DOMAIN f = DOMAIN stored \union {p.id} /\ f[p.id] = p.vector
      /\ \A d \in DOMAIN stored : d # p.id => f[d] = stored[d]
  BY DEF With
<1>5. DOMAIN g = DOMAIN stored \ {p.id} /\ \A d \in DOMAIN stored : d # p.id => g[d] = stored[d]
  BY WithoutChanges
<1> HIDE DEF f, g
<1>6. ASSUME NEW doc \in DOMAIN stored'
      PROVE  Holds(y, doc, stored'[doc])
  <2>1. CASE ~ Fits(pindex.index, p.vector)
    BY <1>1, <1>3, <2>1 DEF PindexInv
  <2>2. CASE Fits(pindex.index, p.vector) /\ fails # "store"
    <3>1. stored' = f
      BY <1>1, <2>2
    <3>2. CASE doc = p.id
      BY <1>2, <1>4, <2>2, <3>1, <3>2
    <3>3. CASE doc # p.id
      BY <1>3, <1>4, <3>1, <3>3 DEF PindexInv
    <3> QED
      BY <3>2, <3>3
  <2>3. CASE Fits(pindex.index, p.vector) /\ fails = "store"
    <3>1. stored' = g
      BY <1>1, <2>3
    <3>2. doc \in DOMAIN stored /\ doc # p.id /\ stored'[doc] = stored[doc]
      BY <1>5, <3>1
    <3> QED
      BY <1>3, <3>2 DEF PindexInv
  <2> QED
    BY <2>1, <2>2, <2>3
<1> QED
  BY <1>1, <1>3, <1>6 DEF PindexInv

\* A point of a batch that is stored after all were indexed.
LEMMA StoreInKeeps ==
    ASSUME NEW x, IsStore(x), CodesInv(x), NEW p \in Points, NEW fails
    PROVE  LET y == StoreIn(x, p, fails)
           IN  /\ IsStore(y) /\ CodesInv(y)
               /\ \A d, w : Told(x, d, w) => Told(y, d, w)
               /\ \A d, w : d # p.id /\ Agrees(x, d, w) => Agrees(y, d, w)
               /\ fails # "store" => Agrees(y, p.id, p.vector)
<1> DEFINE y == StoreIn(x, p, fails)
<1>1. p.id \in DocIds /\ p.vector \in Vectors /\ y = StoreVector(x, p.id, p.vector, fails)
  BY VectorsAssumption DEF StoreIn
<1>2. /\ IsStore(y) /\ y.index = x.index /\ y.trained = x.trained /\ y.codes = x.codes
      /\ \A d, w : d # p.id /\ Agrees(x, d, w) => Agrees(y, d, w)
      /\ fails # "store" => Agrees(y, p.id, p.vector)
  BY <1>1, StoreKeeps
<1> HIDE DEF y
<1>3. CodesInv(y) /\ \A d, w : Told(x, d, w) => Told(y, d, w)
  BY <1>2 DEF CodesInv, Told
<1> QED
  BY <1>2, <1>3 DEF y

\* add_batch: of two points of one document the second is what is held of it.
LEMMA AddBatchHolds ==
    ASSUME PindexInv, NEW p \in Points, NEW r \in Points, NEW fails, AddBatch(p, r, fails)
    PROVE  PindexInv'
<1> DEFINE i == pindex.index
           one == Fits(i, p.vector)
           two == Fits(i, r.vector)
           a == PutIn(i, pindex, p)
           b == PutIn(i, a, r)
           c == StoreIn(b, p, fails)
           e == StoreIn(c, r, fails)
           y == CountAdded(e, 2, fails)
           reached == IF one THEN <<p, r>> ELSE <<p>>
           batched == IF one /\ two THEN StoreBatch(PutAll(i, pindex, reached), <<p, r>>, fails)
                      ELSE PutAll(i, pindex, reached)
           f == With(stored, p.id, p.vector)
           g == With(f, r.id, r.vector)
           left == DOMAIN stored \ {z.id : z \in {u \in Range(reached) : Fits(i, u.vector)}}
           h == Restrict(stored, left)
<1>1. IF one /\ two /\ fails # "store"
      THEN pindex' = CountAdded(batched, 2, fails) /\ stored' = g
      ELSE pindex' = batched /\ stored' = h
  BY DEF AddBatch, FoldLeft, MapThenFoldSet, PutAll, Puts, PutIn
<1>2. batched = IF one THEN IF two THEN e ELSE b ELSE a
  <2>1. PutAll(i, pindex, <<p>>) = a /\ PutAll(i, pindex, <<p, r>>) = b
    BY PutOne, PutTwo
  <2>2. StoreBatch(b, <<p, r>>, fails) = e
    BY StoreTwo
  <2> HIDE DEF a, b, e
  <2> QED
    BY <2>1, <2>2
<1>3. /\ DOMAIN h = left /\ \A d \in left : h[d] = stored[d]
      /\ left \subseteq DOMAIN stored /\ (one => p.id \notin left) /\ (one /\ two => r.id \notin left)
  <2>1. DOMAIN h = left /\ \A d \in left : h[d] = stored[d]
    BY DEF Restrict
  <2>2. one => p \in Range(reached) /\ r \in Range(reached)
    <3>1. ASSUME one
          PROVE  DOMAIN reached = {1, 2} /\ reached[1] = p /\ reached[2] = r
      BY <3>1, OneAndTwo
    <3> HIDE DEF reached
    <3> QED
      BY <3>1 DEF Range
  <2> HIDE DEF reached, h
  <2> QED
    BY <2>1, <2>2
<1>4. /\ DOMAIN g = DOMAIN stored \union {p.id, r.id} /\ g[r.id] = r.vector
      /\ p.id # r.id => g[p.id] = p.vector
      /\ \A d \in DOMAIN stored : d # p.id /\ d # r.id => g[d] = stored[d]
  <2>1. /\ DOMAIN f = DOMAIN stored \union {p.id} /\ f[p.id] = p.vector
        /\ \A d \in DOMAIN stored : d # p.id => f[d] = stored[d]
    BY DEF With
  <2> HIDE DEF f
  <2>2. /\ DOMAIN g = DOMAIN f \union {r.id} /\ g[r.id] = r.vector
        /\ \A d \in DOMAIN f : d # r.id => g[d] = f[d]
    BY DEF With
  <2> HIDE DEF g
  <2> QED
    BY <2>1, <2>2
<1> HIDE DEF g, h, left, reached, batched
<1>5. /\ IsStore(a) /\ CodesInv(a) /\ a.index.dimension = i.dimension
      /\ \A d, w : Holds(pindex, d, w) /\ (d = p.id => ~ one) => Holds(a, d, w)
      /\ one => Told(a, p.id, p.vector)
  BY PutInKeeps DEF PindexInv, AfterPoint
<1> HIDE DEF a
<1>6. /\ IsStore(b) /\ CodesInv(b)
      /\ \A d, w : Holds(a, d, w) /\ (d = r.id => ~ two) => Holds(b, d, w)
      /\ \A d, w : Told(a, d, w) /\ (d = r.id => ~ two) => Told(b, d, w)
      /\ two => Told(b, r.id, r.vector)
  <2>1. \A v : Fits(i, v) <=> Fits(a.index, v)
    BY <1>5 DEF Fits
  <2>2. /\ AfterPoint(a, b, r)
        /\ \A d, w : Told(a, d, w) /\ (d = r.id => ~ two) => Told(b, d, w)
        /\ two => Told(b, r.id, r.vector)
    BY <1>5, PutInKeeps
  <2> QED
    BY <2>1, <2>2 DEF AfterPoint
<1> HIDE DEF b
<1>7. /\ IsStore(c) /\ CodesInv(c)
      /\ \A d, w : Told(b, d, w) => Told(c, d, w)
      /\ \A d, w : d # p.id /\ Agrees(b, d, w) => Agrees(c, d, w)
      /\ fails # "store" => Agrees(c, p.id, p.vector)
  BY <1>6, StoreInKeeps
<1> HIDE DEF c
<1>8. /\ IsStore(e) /\ CodesInv(e)
      /\ \A d, w : Told(c, d, w) => Told(e, d, w)
      /\ \A d, w : d # r.id /\ Agrees(c, d, w) => Agrees(e, d, w)
      /\ fails # "store" => Agrees(e, r.id, r.vector)
  BY <1>7, StoreInKeeps
<1> HIDE DEF e
<1>9. /\ IsStore(y) /\ CodesInv(y)
      /\ \A d, w : Holds(e, d, w) => Holds(y, d, w)
  <2>1. /\ IsStore(y) /\ y.redb.vectors = e.redb.vectors /\ y.cache = e.cache
        /\ y.trained = e.trained /\ y.codes = e.codes /\ y.index = e.index
    BY <1>8, CountKeeps
  <2> HIDE DEF y
  <2> QED
    BY <1>8, <2>1 DEF CodesInv, Holds, Told, Agrees
<1> HIDE DEF y
<1>10. /\ IsStore(pindex) /\ CodesInv(pindex)
       /\ \A doc \in DOMAIN stored : Holds(pindex, doc, stored[doc])
  BY DEF PindexInv
<1>11. CASE ~ one
  <2>1. pindex' = a /\ stored' = h
    BY <1>1, <1>2, <1>11
  <2>2. \A d \in DOMAIN h : Holds(a, d, h[d])
    BY <1>3, <1>5, <1>10, <1>11
  <2> QED
    BY <1>5, <2>1, <2>2 DEF PindexInv
<1>12. CASE one /\ ~ two
  <2>1. pindex' = b /\ stored' = h
    BY <1>1, <1>2, <1>12
  <2>2. \A d \in DOMAIN h : Holds(a, d, h[d])
    BY <1>3, <1>5, <1>10, <1>12
  <2>3. \A d \in DOMAIN h : Holds(b, d, h[d])
    BY <1>6, <1>12, <2>2
  <2> QED
    BY <1>6, <2>1, <2>3 DEF PindexInv
<1>13. CASE one /\ two /\ fails = "store"
  <2>1. pindex' = e /\ stored' = h
    BY <1>1, <1>2, <1>13
  <2>2. ASSUME NEW d \in DOMAIN h
        PROVE  Holds(e, d, h[d])
    <3>1. Holds(pindex, d, h[d]) /\ d # p.id /\ d # r.id
      BY <1>3, <1>10, <1>13
    <3>2. Holds(b, d, h[d])
      BY <1>5, <1>6, <3>1
    <3> QED
      BY <1>7, <1>8, <3>1, <3>2 DEF Holds
  <2> QED
    BY <1>8, <2>1, <2>2 DEF PindexInv
<1>14. CASE one /\ two /\ fails # "store"
  <2>1. pindex' = y /\ stored' = g
    BY <1>1, <1>2, <1>14 DEF y
  <2>2. ASSUME NEW d \in DOMAIN g
        PROVE  Holds(e, d, g[d])
    <3>1. CASE d = r.id
      BY <1>4, <1>6, <1>7, <1>8, <1>14, <3>1 DEF Holds
    <3>2. CASE d = p.id /\ d # r.id
      BY <1>4, <1>5, <1>6, <1>7, <1>8, <1>14, <3>2 DEF Holds
    <3>3. CASE d # p.id /\ d # r.id
      <4>1. Holds(pindex, d, g[d])
        BY <1>4, <1>10, <3>3
      <4>2. Holds(b, d, g[d])
        BY <1>5, <1>6, <3>3, <4>1
      <4> QED
        BY <1>7, <1>8, <3>3, <4>2 DEF Holds
    <3> QED
      BY <3>1, <3>2, <3>3
  <2>3. \A d \in DOMAIN g : Holds(y, d, g[d])
    BY <1>9, <2>2
  <2> QED
    BY <1>9, <2>1, <2>3 DEF PindexInv
<1> QED
  BY <1>11, <1>12, <1>13, <1>14

\* Removing, reading, snapshots and opening again change nothing that is held.
LEMMA RemoveDocHolds ==
    ASSUME PindexInv, NEW doc, RemoveDoc(doc)
    PROVE  PindexInv'
<1> DEFINE i == RemoveVector(pindex.index, doc)
           y == [pindex EXCEPT !.index = i]
<1>1. /\ IsStore(pindex) /\ CodesInv(pindex)
      /\ \A d \in DOMAIN stored : Holds(pindex, d, stored[d])
      /\ DOMAIN pindex = StoreFields
  BY DEF PindexInv, IsStore
<1>2. pindex' = y /\ stored' = stored
  BY <1>1 DEF RemoveDoc, StoreFields
<1>3. /\ IsScan(i)
      /\ \A d \in DOMAIN i.vectors : d \in DOMAIN pindex.index.vectors /\ i.vectors[d] = pindex.index.vectors[d]
  BY <1>1, RemoveVectorKeeps DEF IsStore
<1> HIDE DEF i
<1>4. /\ y = [field \in StoreFields |-> y[field]]
      /\ y.index = i /\ y.redb = pindex.redb /\ y.cache = pindex.cache
      /\ y.trained = pindex.trained /\ y.codes = pindex.codes
  BY <1>1 DEF StoreFields
<1> HIDE DEF y
<1>5. IsStore(y) /\ CodesInv(y)
  BY <1>1, <1>3, <1>4 DEF IsStore, CodesInv
<1>6. \A d, w : Holds(pindex, d, w) => Holds(y, d, w)
  BY <1>3, <1>4 DEF Holds, Told, Agrees
<1> QED
  BY <1>1, <1>2, <1>5, <1>6 DEF PindexInv

\* A reader of the storage.
LEMMA GetHolds ==
    ASSUME PindexInv, NEW doc \in DocIds, Get(doc)
    PROVE  PindexInv'
<1> DEFINE y == ReadVector(pindex, doc)
<1>1. /\ IsStore(pindex) /\ CodesInv(pindex)
      /\ \A d \in DOMAIN stored : Holds(pindex, d, stored[d])
      /\ pindex' = y /\ stored' = stored
  BY DEF PindexInv, Get
<1>2. /\ IsStore(y) /\ y.index = pindex.index /\ y.trained = pindex.trained /\ y.codes = pindex.codes
      /\ \A d, w : Agrees(pindex, d, w) => Agrees(y, d, w)
  BY <1>1, ReadKeeps
<1> HIDE DEF y
<1>3. CodesInv(y) /\ \A d, w : Holds(pindex, d, w) => Holds(y, d, w)
  BY <1>1, <1>2 DEF CodesInv, Holds, Told
<1> QED
  BY <1>1, <1>2, <1>3 DEF PindexInv

\* A snapshot.
LEMMA SnapshotHolds ==
    ASSUME PindexInv, Snapshot
    PROVE  PindexInv'
<1> DEFINE y == SnapshotIndex(pindex)
<1>1. /\ IsStore(pindex) /\ CodesInv(pindex)
      /\ \A d \in DOMAIN stored : Holds(pindex, d, stored[d])
      /\ pindex' = y /\ stored' = stored
  BY DEF PindexInv, Snapshot
<1>2. /\ IsStore(y) /\ y.redb.vectors = pindex.redb.vectors /\ y.cache = pindex.cache
      /\ y.trained = pindex.trained /\ y.codes = pindex.codes /\ y.index = pindex.index
  BY <1>1, SnapshotKeeps
<1> HIDE DEF y
<1>3. CodesInv(y) /\ \A d, w : Holds(pindex, d, w) => Holds(y, d, w)
  BY <1>1, <1>2 DEF CodesInv, Holds, Told, Agrees
<1> QED
  BY <1>1, <1>2, <1>3 DEF PindexInv

\* What the file has is what is held after the index is opened again.
LEMMA ReopenHolds ==
    ASSUME PindexInv, NEW n, Reopen(n)
    PROVE  PindexInv'
<1> DEFINE y == OpenIndex(pindex.redb, n)
<1>1. /\ IsRedb(pindex.redb)
      /\ \A d \in DOMAIN stored : Holds(pindex, d, stored[d])
      /\ pindex' = y /\ stored' = stored
  BY DEF PindexInv, Reopen, IsStore
<1>2. /\ IsStore(y) /\ CodesInv(y)
      /\ DOMAIN y.codes = {} /\ DOMAIN y.index.vectors = {} /\ y.redb = pindex.redb /\ y.cache = <<>>
  BY <1>1, OpenGives
<1> HIDE DEF y
<1>3. DOMAIN y.cache = {}
  BY <1>2
<1>4. \A d, w : Holds(pindex, d, w) => Holds(y, d, w)
  BY <1>2, <1>3 DEF Holds, Told, Agrees
<1> QED
  BY <1>1, <1>2, <1>4 DEF PindexInv

-----------------------------------------------------------------------------
(* Training *)

\* f is the recursive function by which the documents s are read into the cache of x.
Reads(f, x, s, D) ==
    f = [y \in SUBSET D |-> IF y = {} THEN x ELSE ReadVector(f[y \ {Max(y)}], s[Max(y)])]
AllRead(x, s) == (CHOOSE f : Reads(f, x, s, DOMAIN s))[DOMAIN s]

\* The recursion defines a function, for lists of every length.
LEMMA ReadsExists ==
    ASSUME NEW x, NEW s, NEW n \in Nat
    PROVE  \E f : Reads(f, x, s, 1 .. n)
<1> DEFINE T == {m \in Nat : ~ \E f : Reads(f, x, s, 1 .. m)}
<1> SUFFICES ASSUME T # {}
             PROVE  FALSE
  OBVIOUS
<1>1. PICK m \in T : \A k \in T : m <= k
  BY LeastNumber
<1>2. ~ \E f : Reads(f, x, s, 1 .. m)
  OBVIOUS
<1>3. CASE m = 0
  <2> DEFINE f == [y \in SUBSET (1 .. m) |-> x]
  <2>1. \A y \in SUBSET (1 .. m) : y = {}
    BY <1>3
  <2>2. Reads(f, x, s, 1 .. m)
    BY <2>1 DEF Reads
  <2> QED
    BY <1>2, <2>2
<1>4. CASE m # 0
  <2>1. m - 1 \in Nat /\ m - 1 \notin T
    BY <1>1, <1>4
  <2>2. PICK g : Reads(g, x, s, 1 .. m - 1)
    BY <2>1
  <2> DEFINE f == [y \in SUBSET (1 .. m) |-> IF m \in y THEN ReadVector(g[y \ {m}], s[m]) ELSE g[y]]
  <2>3. ASSUME NEW y \in SUBSET (1 .. m)
        PROVE  f[y] = IF y = {} THEN x ELSE ReadVector(f[y \ {Max(y)}], s[Max(y)])
    <3>1. y \ {m} \in SUBSET (1 .. m - 1) /\ y \ {m} \in SUBSET (1 .. m) /\ m \notin y \ {m}
      OBVIOUS
    <3>2. CASE m \in y
      <4>1. Max(y) = m
        BY <2>1, <3>2, MaxTop, m = (m - 1) + 1
      <4>2. f[y \ {m}] = g[y \ {m}]
        BY <3>1
      <4> HIDE DEF f
      <4>3. f[y] = ReadVector(g[y \ {m}], s[m])
        BY <3>2 DEF f
      <4> QED
        BY <3>2, <4>1, <4>2, <4>3
    <3>3. CASE m \notin y
      <4>1. y \in SUBSET (1 .. m - 1) /\ y \ {Max(y)} \in SUBSET (1 .. m - 1)
        BY <3>1, <3>3
      <4>2. g[y] = IF y = {} THEN x ELSE ReadVector(g[y \ {Max(y)}], s[Max(y)])
        BY <2>2, <4>1 DEF Reads
      <4>3. f[y] = g[y] /\ f[y \ {Max(y)}] = g[y \ {Max(y)}]
        BY <3>3
      <4> QED
        BY <4>2, <4>3
    <3> QED
      BY <3>2, <3>3
  <2>4. f = [y \in SUBSET (1 .. m) |-> f[y]]
    OBVIOUS
  <2> HIDE DEF f
  <2>5. Reads(f, x, s, 1 .. m)
    BY <2>3, <2>4 DEF Reads
  <2> QED
    BY <1>2, <2>5
<1> QED
  BY <1>3, <1>4

\* What reading changes: the cache, which agrees with what it did.
AfterReads(x, y) ==
    /\ IsStore(y) /\ y.index = x.index /\ y.trained = x.trained /\ y.codes = x.codes
    /\ \A d, w : Agrees(x, d, w) => Agrees(y, d, w)

\* A storage of which a list of documents was read.
LEMMA AllReadKeeps ==
    ASSUME NEW x, IsStore(x), NEW s, NEW n \in Nat, DOMAIN s = 1 .. n,
           \A k \in 1 .. n : s[k] \in DocIds
    PROVE  AfterReads(x, AllRead(x, s))
<1> DEFINE f == CHOOSE g : Reads(g, x, s, DOMAIN s)
           T == {m \in Nat : m <= n /\ ~ AfterReads(x, f[1 .. m])}
<1>1. Reads(f, x, s, 1 .. n)
  BY ReadsExists
<1>2. AllRead(x, s) = f[1 .. n]
  BY DEF AllRead
<1> HIDE DEF f
<1>3. SUFFICES ASSUME T # {}
               PROVE  FALSE
  <2>1. n \notin T
    BY <1>3
  <2> QED
    BY <1>2, <2>1
<1>4. PICK m \in T : \A k \in T : m <= k
  <2>1. T \in SUBSET Nat
    OBVIOUS
  <2> HIDE DEF T
  <2> QED
    BY <1>3, <2>1, LeastNumber
<1>5. 1 .. m \in SUBSET (1 .. n)
  OBVIOUS
<1>6. f[1 .. m] = IF 1 .. m = {} THEN x
                  ELSE ReadVector(f[(1 .. m) \ {Max(1 .. m)}], s[Max(1 .. m)])
  BY <1>1, <1>5 DEF Reads
<1>7. CASE m = 0
  <2>1. f[1 .. m] = x
    BY <1>6, <1>7
  <2> QED
    BY <2>1 DEF AfterReads
<1>8. CASE m # 0
  <2>1. m - 1 \in Nat /\ m - 1 \notin T /\ m - 1 <= n /\ (m - 1) + 1 = m /\ m \in 1 .. n
    BY <1>4, <1>8
  <2>2. Max(1 .. m) = m
    <3>1. 1 .. m \in SUBSET (1 .. (m - 1) + 1) /\ m \in 1 .. m
      BY <1>8
    <3> QED
      BY <2>1, <3>1, MaxTop
  <2>3. 1 .. m # {} /\ (1 .. m) \ {m} = 1 .. m - 1
    <3>1. m \in Nat /\ 1 <= m
      BY <1>8
    <3> HIDE DEF T
    <3>2. 1 \in 1 .. m
      BY <3>1
    <3>3. (1 .. m) \ {m} = 1 .. m - 1
      BY <3>1
    <3> QED
      BY <3>2, <3>3
  <2> DEFINE a == f[1 .. m - 1]
             b == f[1 .. m]
  <2>4. AfterReads(x, a)
    BY <2>1
  <2>5. b = ReadVector(a, s[m]) /\ s[m] \in DocIds
    BY <1>6, <2>1, <2>2, <2>3
  <2>6. ~ AfterReads(x, b)
    OBVIOUS
  <2> HIDE DEF a, b, T
  <2>7. AfterReads(x, b)
    <3>1. IsStore(a)
      BY <2>4 DEF AfterReads
    <3>2. /\ IsStore(b) /\ b.index = a.index /\ b.trained = a.trained /\ b.codes = a.codes
          /\ \A d, w : Agrees(a, d, w) => Agrees(b, d, w)
      BY <2>5, <3>1, ReadKeeps
    <3> QED
      BY <2>4, <3>2 DEF AfterReads
  <2> QED
    BY <2>6, <2>7
<1> QED
  BY <1>7, <1>8

\* A finite set of numbers is listed in order.
LEMMA NumbersInOrder ==
    ASSUME NEW S \in SUBSET Nat, IsFiniteSet(S)
    PROVE  InOrder(S, <) \in SetToSeqs(S)
<1> DEFINE R == {p \in S \X S : p[1] <= p[2]}
           Sorted(s) == \A i, j \in DOMAIN s : i < j => ~ (s[j] < s[i])
<1>1. \A x, y : <<x, y>> \in R <=> x \in S /\ y \in S /\ x <= y
  OBVIOUS
<1> HIDE DEF R
<1>2. Ranks(R, S)
  BY <1>1 DEF Ranks
<1>3. PICK s \in SetToSeqs(S) : \A i, j \in DOMAIN s : i < j => <<s[i], s[j]>> \in R
  BY <1>2, RankedList
<1>4. Sorted(s)
  <2> SUFFICES ASSUME NEW i \in DOMAIN s, NEW j \in DOMAIN s, i < j
               PROVE  ~ (s[j] < s[i])
    OBVIOUS
  <2>1. s[i] \in Nat /\ s[j] \in Nat /\ s[i] <= s[j]
    BY <1>1, <1>3
  <2> QED
    BY <2>1
<1>5. InOrder(S, <) = CHOOSE t \in SetToSeqs(S) : Sorted(t)
  BY DEF InOrder
<1> HIDE DEF Sorted
<1> QED
  BY <1>4, <1>5

\* Training reads vectors and makes a code of each that it read.
LEMMA TrainHolds ==
    ASSUME PindexInv, TrainQuantizer
    PROVE  PindexInv'
<1> DEFINE ids == {doc \in DocIds : doc < pindex.index.size /\ GetVector(pindex, doc) # None}
           list == InOrder(ids, <)
           x == AllRead(pindex, list)
           v(doc) == GetVector(pindex, doc)
           codes == [doc \in DOMAIN x.codes \union ids |-> IF doc \in ids THEN v(doc) ELSE x.codes[doc]]
           y == [x EXCEPT !.trained = TRUE, !.codes = codes]
<1>1. /\ IsStore(pindex) /\ CodesInv(pindex) /\ pindex.index.size \in Nat
      /\ \A d \in DOMAIN stored : Holds(pindex, d, stored[d])
  BY DEF PindexInv, IsStore, IsScan
<1>2. pindex' = [x EXCEPT !.trained = TRUE,
                          !.codes = [doc \in DOMAIN @ \union ids |->
                                       IF doc \in ids THEN GetVector(pindex, doc) ELSE @[doc]]]
      /\ stored' = stored
  BY DEF TrainQuantizer, FoldLeft, MapThenFoldSet, AllRead, Reads
<1>3. ids \in SUBSET Nat /\ ids \in SUBSET DocIds /\ IsFiniteSet(ids)
  <2>1. ids \in SUBSET (0 .. pindex.index.size) /\ ids \in SUBSET Nat
    <3>1. \A doc \in ids : doc \in Nat /\ doc < pindex.index.size
      BY StorageAssumption
    <3> HIDE DEF ids
    <3>2. \A doc \in ids : doc \in 0 .. pindex.index.size
      BY <1>1, <3>1
    <3> QED
      BY <3>1, <3>2
  <2>2. \A n \in Nat : IsFiniteSet(0 .. n)
    BY FS_Interval
  <2>3. IsFiniteSet(0 .. pindex.index.size)
    BY <1>1, <2>2
  <2> QED
    BY <2>1, <2>3, FS_Subset
<1>4. \A d \in ids : \A w : Agrees(pindex, d, w) => v(d) = w
  BY <1>1, GetGives
<1> HIDE DEF ids
<1>5. list \in Seq(ids) /\ Len(list) \in Nat /\ DOMAIN list = 1 .. Len(list)
  <2>1. list \in SetToSeqs(ids)
    BY <1>3, NumbersInOrder
  <2> HIDE DEF list
  <2>2. list \in Seq(ids) /\ DOMAIN list = 1 .. Len(list)
    BY <1>3, <2>1, ListsOfSet
  <2> QED
    BY <2>2, LenProperties
<1> HIDE DEF list
<1>6. AfterReads(pindex, x)
  <2> DEFINE n == Len(list)
  <2>1. n \in Nat /\ DOMAIN list = 1 .. n
    BY <1>5
  <2>2. \A k \in 1 .. n : list[k] \in DocIds
    BY <1>3, <1>5, ElementOfSeq
  <2> HIDE DEF n
  <2> QED
    BY <1>1, <2>1, <2>2, AllReadKeeps
<1> HIDE DEF x
<1>7. /\ IsStore(x) /\ x.index = pindex.index /\ x.trained = pindex.trained /\ x.codes = pindex.codes
      /\ \A d, w : Agrees(pindex, d, w) => Agrees(x, d, w)
      /\ DOMAIN x = StoreFields
  BY <1>6 DEF AfterReads, IsStore
<1>8. pindex' = y
  BY <1>2, <1>7 DEF StoreFields
<1>9. /\ \A d \in ids : d \in DOMAIN codes /\ codes[d] = v(d)
      /\ \A d \in DOMAIN codes : d \notin ids => d \in DOMAIN x.codes /\ codes[d] = x.codes[d]
  OBVIOUS
<1> HIDE DEF v, codes
<1>10. /\ y = [field \in StoreFields |-> y[field]]
       /\ y.index = x.index /\ y.redb = x.redb /\ y.cache = x.cache
       /\ y.trained = TRUE /\ y.codes = codes
  BY <1>7 DEF StoreFields
<1> HIDE DEF y
<1>11. IsStore(y) /\ CodesInv(y)
  BY <1>7, <1>10 DEF IsStore, CodesInv
<1>12. ASSUME NEW d, NEW w, Holds(pindex, d, w)
       PROVE  Holds(y, d, w)
  <2>1. Agrees(x, d, w) /\ Agrees(pindex, d, w) /\ Told(pindex, d, w)
    BY <1>7, <1>12 DEF Holds
  <2>2. Agrees(y, d, w)
    BY <1>10, <2>1 DEF Agrees
  <2>3. Told(y, d, w)
    BY <1>4, <1>7, <1>9, <1>10, <2>1 DEF Told
  <2> QED
    BY <2>2, <2>3 DEF Holds
<1>13. \A d \in DOMAIN stored : Holds(y, d, stored[d])
  BY <1>1, <1>12
<1>14. pindex' = y /\ stored' = stored
  BY <1>2, <1>8
<1> QED
  BY <1>11, <1>13, <1>14 DEF PindexInv

\* Every step of the persistent index keeps what calls said is stored.
LEMMA PindexNextHolds ==
    ASSUME PindexInv, [PindexNext]_library
    PROVE  PindexInv'
<1>1. CASE PindexNext
  BY <1>1, AddHolds, AddBatchHolds, RemoveDocHolds, GetHolds, TrainHolds, SnapshotHolds, ReopenHolds
     DEF PindexNext
<1>2. CASE UNCHANGED library
  BY <1>2 DEF library, PindexInv
<1> QED
  BY <1>1, <1>2

-----------------------------------------------------------------------------
(* What calls said is stored *)

\* Indices can be listed by what r says of them, and among equals by their order.
LEMMA IndicesInOrder ==
    ASSUME NEW D \in SUBSET Nat, IsFiniteSet(D), NEW r, \A i \in D : r[i].distance \in Nat
    PROVE  \E s \in SetToSeqs(D) : \A i, j \in DOMAIN s :
              i < j => ~ (\/ r[s[j]].distance < r[s[i]].distance
                          \/ r[s[j]].distance = r[s[i]].distance /\ s[j] < s[i])
<1> DEFINE After(i, j) == r[i].distance < r[j].distance \/ (r[i].distance = r[j].distance /\ i <= j)
           R == {p \in D \X D : After(p[1], p[2])}
<1>1. \A i, j : <<i, j>> \in R <=> i \in D /\ j \in D /\ After(i, j)
  OBVIOUS
<1> HIDE DEF R
<1>2. Ranks(R, D)
  BY <1>1 DEF Ranks
<1>3. PICK s \in SetToSeqs(D) : \A i, j \in DOMAIN s : i < j => <<s[i], s[j]>> \in R
  BY <1>2, RankedList
<1>4. ASSUME NEW a \in D, NEW b \in D, After(a, b)
      PROVE  ~ (r[b].distance < r[a].distance \/ (r[b].distance = r[a].distance /\ b < a))
  <2>1. a \in Nat /\ b \in Nat /\ r[a].distance \in Nat /\ r[b].distance \in Nat
    OBVIOUS
  <2> QED
    BY <1>4, <2>1
<1>5. \A i, j \in DOMAIN s : i < j => s[i] \in D /\ s[j] \in D /\ After(s[i], s[j])
  BY <1>1, <1>3
<1> HIDE DEF After
<1> QED
  BY <1>4, <1>5

\* A search with a quantizer tells the distances of what the storage gives.
LEMMA RankedAgain ==
    ASSUME NEW x, IsStore(x), x.trained, NEW q \in Vectors, NEW k \in Nat,
           NEW found \in SUBSET x.index.nodes, NEW t, t = SearchPersistent(x, q, k, found)
    PROVE  \A p \in DOMAIN t : t[p].distance = DistanceOf[<<q, GetVector(x, t[p].doc)>>]
<1> DEFINE Again(hit) == [hit EXCEPT !.vector = GetVector(x, hit.doc),
                                      !.distance = DistanceOf[<<q, GetVector(x, hit.doc)>>]]
           hits == SearchIndex(x.index, q, 5 * k, found)
           S == {hit \in Range(hits) : GetVector(x, hit.doc) # None}
           candidates == Keep(hits, S)
           ranked == [i \in DOMAIN candidates |-> Again(candidates[i])]
           After(i, j) == \/ ranked[i].distance < ranked[j].distance
                          \/ ranked[i].distance = ranked[j].distance /\ i < j
           order == InOrder(DOMAIN ranked, After)
           Sorted(s) == \A i, j \in DOMAIN s : i < j => ~ After(s[j], s[i])
           top == Min({k, Len(ranked)})
<1>1. t = [p \in 1 .. top |-> ranked[order[p]]]
  BY DEF SearchPersistent
<1>2. /\ Len(hits) \in Nat /\ DOMAIN hits = 1 .. Len(hits)
      /\ \A p \in DOMAIN hits : IsHit(hits[p])
  <2>1. 5 * k \in Nat /\ IsScan(x.index)
    BY DEF IsStore
  <2> DEFINE n == 5 * k
  <2>2. hits = SearchIndex(x.index, q, n, found)
    OBVIOUS
  <2> HIDE DEF n, hits
  <2> QED
    BY <2>1, <2>2, IndexGives DEF n
<1>3. \A h \in S : GetVector(x, h.doc) # None
  OBVIOUS
<1> HIDE DEF hits, S
<1>4. /\ Len(candidates) \in Nat /\ DOMAIN candidates = 1 .. Len(candidates)
      /\ \A i \in DOMAIN candidates : candidates[i] \in S /\ IsHit(candidates[i])
  <2> DEFINE n == Len(hits)
             c == candidates
  <2>1. n \in Nat /\ DOMAIN hits = 1 .. n /\ c = Keep(hits, S)
    BY <1>2
  <2> HIDE DEF n, c
  <2>2. /\ Len(c) \in Nat /\ DOMAIN c = 1 .. Len(c)
        /\ \A i \in DOMAIN c : c[i] \in S /\ \E j \in DOMAIN hits : c[i] = hits[j]
    BY <2>1, KeepGives
  <2> QED
    BY <1>2, <2>2 DEF c
<1> HIDE DEF candidates
<1>5. ASSUME NEW i \in DOMAIN candidates
      PROVE  /\ ranked[i].distance = DistanceOf[<<q, GetVector(x, ranked[i].doc)>>]
             /\ ranked[i].distance \in Nat
  <2> DEFINE hit == candidates[i]
             v == GetVector(x, hit.doc)
             w == DistanceOf[<<q, v>>]
             r == [hit EXCEPT !.vector = v, !.distance = w]
  <2>1. v \in Vectors
    BY <1>3, <1>4, GetGives
  <2>2. w \in Nat
    <3> HIDE DEF v
    <3> QED
      BY <2>1, VectorsAssumption
  <2>3. DOMAIN hit = HitFields
    BY <1>4 DEF IsHit
  <2>4. ranked[i] = r
    OBVIOUS
  <2> HIDE DEF v, w, hit, ranked
  <2>5. r.doc = hit.doc /\ r.distance = w
    BY <2>3 DEF HitFields
  <2> HIDE DEF r
  <2> QED
    BY <2>2, <2>4, <2>5 DEF v, w
<1>6. DOMAIN ranked = 1 .. Len(ranked) /\ Len(ranked) \in Nat /\ DOMAIN ranked = DOMAIN candidates
  <2> DEFINE m == Len(candidates)
             r == [i \in 1 .. m |-> Again(candidates[i])]
             V == {Again(candidates[i]) : i \in 1 .. m}
  <2>1. m \in Nat /\ DOMAIN candidates = 1 .. m
    BY <1>4
  <2>2. ranked = r
    BY <2>1
  <2>3. r \in [1 .. m -> V]
    OBVIOUS
  <2> HIDE DEF m, r, V, ranked
  <2>4. r \in Seq(V)
    BY <2>1, <2>3
  <2>5. Len(r) = m /\ DOMAIN r = 1 .. m
    BY <2>1, <2>3
  <2> QED
    BY <2>1, <2>2, <2>5
<1> HIDE DEF ranked
<1>7. order \in SetToSeqs(DOMAIN ranked) /\ IsFiniteSet(DOMAIN ranked)
  <2>1. DOMAIN ranked \in SUBSET Nat /\ IsFiniteSet(DOMAIN ranked)
    BY <1>6, FS_Interval
  <2>2. \A i \in DOMAIN ranked : ranked[i].distance \in Nat
    BY <1>5, <1>6
  <2>3. \E s \in SetToSeqs(DOMAIN ranked) : Sorted(s)
    BY <2>1, <2>2, IndicesInOrder
  <2>4. order = CHOOSE s \in SetToSeqs(DOMAIN ranked) : Sorted(s)
    BY DEF InOrder
  <2> HIDE DEF Sorted, order
  <2> QED
    BY <2>1, <2>3, <2>4
<1> HIDE DEF order
<1>8. \A p \in 1 .. top : order[p] \in DOMAIN ranked
  <2>1. order \in Seq(DOMAIN ranked) /\ Len(order) = Len(ranked)
    <3>1. order \in Seq(DOMAIN ranked) /\ Len(order) = Cardinality(DOMAIN ranked)
      BY <1>7, ListsOfSet
    <3>2. Cardinality(DOMAIN ranked) = Len(ranked)
      <4> DEFINE n == Len(ranked)
      <4>1. n \in Nat /\ DOMAIN ranked = 1 .. n
        BY <1>6
      <4> HIDE DEF n
      <4>2. 0 \in Nat /\ 1 \in Int /\ n \in Int
        BY <4>1
      <4>3. Cardinality(1 .. n) = IF 1 > n THEN 0 ELSE n - 1 + 1
        BY <4>2, FS_Interval
      <4>4. Cardinality(1 .. n) = n
        BY <4>1, <4>3
      <4> QED
        BY <4>1, <4>4 DEF n
    <3> QED
      BY <3>1, <3>2
  <2>2. top \in Nat /\ top <= Len(ranked)
    BY <1>6, LessOfTwo
  <2> HIDE DEF top
  <2>3. \A p \in 1 .. top : p \in 1 .. Len(order)
    BY <1>6, <2>1, <2>2
  <2> QED
    BY <2>1, <2>3, ElementOfSeq
<1> HIDE DEF top
<1>9. DOMAIN t = 1 .. top /\ \A p \in 1 .. top : t[p] = ranked[order[p]]
  BY <1>1
<1>10. ASSUME NEW p \in DOMAIN t
       PROVE  t[p].distance = DistanceOf[<<q, GetVector(x, t[p].doc)>>]
  <2> DEFINE i == order[p]
  <2>1. i \in DOMAIN candidates /\ t[p] = ranked[i]
    BY <1>6, <1>8, <1>9
  <2> HIDE DEF i
  <2> QED
    BY <1>5, <2>1
<1> QED
  BY <1>10

\* The storage, the codes, and the searches that scan or that rank again tell what
\* was said to be stored.
LEMMA StoredIsTold ==
    ASSUME PindexInv
    PROVE  StoredWhenAnswered
<1> DEFINE x == pindex
<1> SUFFICES ASSUME NEW doc \in DOMAIN stored
             PROVE  /\ GetVector(x, doc) = stored[doc]
                    /\ doc \in DOMAIN x.codes => x.codes[doc] = stored[doc]
                    /\ x.trained \/ ~x.index.hnsw =>
                         \A q \in Vectors : Fits(x.index, q) =>
                           \A found \in FoundBy(x.index, 5) :
                             \A hit \in Range(SearchPersistent(x, q, 1, found)) :
                               hit.doc = doc => hit.distance = DistanceOf[<<q, stored[doc]>>]
  BY DEF StoredWhenAnswered
<1>1. IsStore(x) /\ Holds(x, doc, stored[doc])
  BY DEF PindexInv
<1> HIDE DEF x
<1>2. GetVector(x, doc) = stored[doc] /\ (doc \in DOMAIN x.codes => x.codes[doc] = stored[doc])
  BY <1>1, GetGives DEF Holds, Told
<1>3. ASSUME x.trained \/ ~ x.index.hnsw,
             NEW q \in Vectors, NEW found \in FoundBy(x.index, 5),
             NEW hit \in Range(SearchPersistent(x, q, 1, found)), hit.doc = doc
      PROVE  hit.distance = DistanceOf[<<q, stored[doc]>>]
  <2> DEFINE t == SearchPersistent(x, q, 1, found)
  <2>1. found \in SUBSET x.index.nodes /\ 1 \in Nat
    BY DEF FoundBy
  <2>2. PICK p \in DOMAIN t : hit = t[p]
    BY DEF Range
  <2> HIDE DEF t
  <2>3. CASE x.trained
    <3>1. t[p].distance = DistanceOf[<<q, GetVector(x, t[p].doc)>>]
      BY <1>1, <2>1, <2>3, RankedAgain DEF t
    <3> QED
      BY <1>2, <1>3, <2>2, <3>1
  <2>4. CASE ~ x.trained
    <3>1. t = SearchIndex(x.index, q, 1, found) /\ IsScan(x.index)
      BY <1>1, <2>4 DEF t, SearchPersistent, IsStore
    <3>2. Scanned(x.index, q, t[p])
      BY <1>3, <2>1, <2>4, <3>1, IndexGives
    <3> QED
      BY <1>1, <1>3, <2>2, <3>2 DEF Scanned, Holds, Told
  <2> QED
    BY <2>3, <2>4
<1> QED
  BY <1>2, <1>3

-----------------------------------------------------------------------------
(* The indexes of the FT commands *)

\* The storage has every vector of the scan, and there is no quantizer.
ScanStored(x) ==
    /\ IsStore(x) /\ CodesInv(x) /\ ~ x.trained
    /\ \A doc \in DOMAIN x.index.vectors : Agrees(x, doc, x.index.vectors[doc])

FtInv ==
    /\ \A name \in DOMAIN INDEX_STORAGE : ScanStored(INDEX_STORAGE[name])
    /\ \A name \in DOMAIN redb_files : IsRedb(redb_files[name])

\* A new file.
LEMMA EmptyIsRedb == IsRedb(EmptyRedb)
<1> DEFINE none == <<>>
           r == [vectors |-> none, config |-> None]
<1>1. DOMAIN none = {} /\ EmptyRedb = r
  BY DEF EmptyRedb
<1> HIDE DEF none
<1>2. r = [field \in RedbFields |-> r[field]] /\ r.vectors = none
  BY DEF RedbFields
<1> HIDE DEF r
<1> QED
  BY <1>1, <1>2 DEF IsRedb

\* An index that is opened scans nothing.
LEMMA OpenedIsStored ==
    ASSUME FtInv, NEW name, NEW n
    PROVE  ScanStored(Opened(name, n))
<1> DEFINE r == IF OnDisk /\ name \in DOMAIN redb_files THEN redb_files[name] ELSE EmptyRedb
           x == OpenIndex(r, n)
<1>1. IsRedb(r)
  BY EmptyIsRedb DEF FtInv
<1>2. Opened(name, n) = x
  BY DEF Opened
<1> HIDE DEF r
<1>3. IsStore(x) /\ CodesInv(x) /\ ~ x.trained /\ DOMAIN x.index.vectors = {}
  BY <1>1, OpenGives
<1> HIDE DEF x
<1> QED
  BY <1>2, <1>3 DEF ScanStored

\* A document that is added is stored as it is scanned.
LEMMA AddedIsStored ==
    ASSUME NEW x, ScanStored(x), NEW p \in Points
    PROVE  ScanStored(AddPoint(x, p, "none"))
<1> DEFINE y == AddPoint(x, p, "none")
<1>1. IsStore(x) /\ CodesInv(x) /\ ~ x.trained
      /\ \A doc \in DOMAIN x.index.vectors : Agrees(x, doc, x.index.vectors[doc])
  BY DEF ScanStored
<1>2. /\ IsStore(y) /\ CodesInv(y) /\ y.trained = x.trained
      /\ \A d \in DOMAIN y.index.vectors : d \in DOMAIN x.index.vectors \/ (d = p.id /\ Fits(x.index, p.vector))
      /\ \A d, w : Holds(x, d, w) /\ (d = p.id => ~ Fits(x.index, p.vector)) => Holds(y, d, w)
      /\ Fits(x.index, p.vector) => Holds(y, p.id, p.vector)
  BY <1>1, AddPointKeeps DEF AfterPoint
<1> HIDE DEF y
<1>3. \A d \in DOMAIN x.index.vectors : Holds(x, d, x.index.vectors[d])
  BY <1>1 DEF Holds, Told, CodesInv
<1>4. ASSUME NEW d \in DOMAIN y.index.vectors
      PROVE  Agrees(y, d, y.index.vectors[d])
  <2>1. CASE d = p.id /\ Fits(x.index, p.vector)
    BY <1>2, <2>1 DEF Holds, Told
  <2>2. CASE ~ (d = p.id /\ Fits(x.index, p.vector))
    <3>1. Holds(y, d, x.index.vectors[d])
      BY <1>2, <1>3, <2>2
    <3> QED
      BY <3>1 DEF Holds, Told
  <2> QED
    BY <2>1, <2>2
<1> QED
  BY <1>1, <1>2, <1>4 DEF ScanStored, y

\* A document that is removed is not scanned any more.
LEMMA RemovedIsStored ==
    ASSUME NEW x, ScanStored(x), NEW doc
    PROVE  ScanStored([x EXCEPT !.index = RemoveVector(@, doc)])
<1> DEFINE i == RemoveVector(x.index, doc)
           y == [x EXCEPT !.index = i]
<1>1. DOMAIN x = StoreFields /\ IsScan(x.index)
  BY DEF ScanStored, IsStore
<1>2. /\ IsScan(i)
      /\ \A d \in DOMAIN i.vectors : d \in DOMAIN x.index.vectors /\ i.vectors[d] = x.index.vectors[d]
  BY <1>1, RemoveVectorKeeps
<1>3. [x EXCEPT !.index = RemoveVector(@, doc)] = y
  BY <1>1 DEF StoreFields
<1> HIDE DEF i
<1>4. /\ y = [field \in StoreFields |-> y[field]]
      /\ y.index = i /\ y.redb = x.redb /\ y.cache = x.cache
      /\ y.trained = x.trained /\ y.codes = x.codes
  BY <1>1 DEF StoreFields
<1> HIDE DEF y
<1>5. IsStore(y)
  BY <1>2, <1>4 DEF ScanStored, IsStore
<1>6. \A d \in DOMAIN y.index.vectors : Agrees(y, d, y.index.vectors[d])
  BY <1>2, <1>4 DEF ScanStored, Agrees
<1>7. ScanStored(y)
  BY <1>4, <1>5, <1>6 DEF ScanStored, CodesInv
<1> QED
  BY <1>3, <1>7

\* The files of indexes that are closed.
LEMMA ClosedAreRedb ==
    ASSUME FtInv, NEW names \in SUBSET DOMAIN INDEX_STORAGE
    PROVE  \A name \in DOMAIN FilesClosed(names) : IsRedb(FilesClosed(names)[name])
<1> DEFINE f == [g \in DOMAIN redb_files \union names |->
                   IF g \in names THEN INDEX_STORAGE[g].redb ELSE redb_files[g]]
<1>1. \A g \in names : IsRedb(INDEX_STORAGE[g].redb)
  BY DEF FtInv, ScanStored, IsStore
<1>2. \A g \in DOMAIN redb_files : IsRedb(redb_files[g])
  BY DEF FtInv
<1>3. \A g \in DOMAIN f : IsRedb(f[g])
  BY <1>1, <1>2
<1>4. FilesClosed(names) = redb_files \/ FilesClosed(names) = f
  BY DEF FilesClosed
<1> HIDE DEF f
<1> QED
  BY <1>2, <1>3, <1>4

\* An index takes the place of one of its name, or there is one fewer; of files, one fewer.
LEMMA OneMoreStored ==
    ASSUME FtInv, NEW name, NEW x, ScanStored(x)
    PROVE  \A k \in DOMAIN With(INDEX_STORAGE, name, x) : ScanStored(With(INDEX_STORAGE, name, x)[k])
  BY DEF With, FtInv
LEMMA OneFewer ==
    ASSUME FtInv, NEW name
    PROVE  /\ \A k \in DOMAIN Without(INDEX_STORAGE, name) : ScanStored(Without(INDEX_STORAGE, name)[k])
           /\ \A k \in DOMAIN Without(redb_files, name) : IsRedb(Without(redb_files, name)[k])
<1>1. /\ \A k \in DOMAIN Without(INDEX_STORAGE, name) :
            k \in DOMAIN INDEX_STORAGE /\ Without(INDEX_STORAGE, name)[k] = INDEX_STORAGE[k]
      /\ \A k \in DOMAIN Without(redb_files, name) :
            k \in DOMAIN redb_files /\ Without(redb_files, name)[k] = redb_files[k]
  BY WithoutChanges
<1> QED
  BY <1>1 DEF FtInv

\* Every step of the FT commands keeps the storages and the files.
LEMMA FtNextStored ==
    ASSUME FtInv, [FtNext]_ft
    PROVE  FtInv'
<1>1. ASSUME NEW name, NEW n, NEW vector, FtCreate(name, n, vector)
      PROVE  FtInv'
  <2> DEFINE x == Opened(name, n)
             s == With(INDEX_STORAGE, name, x)
             f == Without(redb_files, name)
  <2>1. ScanStored(x)
    BY OpenedIsStored
  <2> HIDE DEF x
  <2>2. /\ \A k \in DOMAIN s : ScanStored(s[k])
        /\ \A k \in DOMAIN f : IsRedb(f[k])
    BY <2>1, OneMoreStored, OneFewer
  <2>3. /\ INDEX_STORAGE' = INDEX_STORAGE \/ INDEX_STORAGE' = s
        /\ redb_files' = redb_files \/ redb_files' = f
    BY <1>1 DEF FtCreate, x
  <2> HIDE DEF s, f
  <2> QED
    BY <2>2, <2>3 DEF FtInv
<1>2. ASSUME NEW name, FtDrop(name)
      PROVE  FtInv'
  <2> DEFINE s == Without(INDEX_STORAGE, name)
             f == FilesClosed({name} \intersect DOMAIN INDEX_STORAGE)
  <2>1. INDEX_STORAGE' = s /\ redb_files' = f
    BY <1>2 DEF FtDrop
  <2>2. \A k \in DOMAIN s : ScanStored(s[k])
    BY OneFewer
  <2>3. \A k \in DOMAIN f : IsRedb(f[k])
    BY ClosedAreRedb
  <2> HIDE DEF s, f
  <2> QED
    BY <2>1, <2>2, <2>3 DEF FtInv
<1>3. ASSUME NEW name, NEW p \in Points, FtAdd(name, p)
      PROVE  FtInv'
  <2> DEFINE missing == name \notin DOMAIN INDEX_STORAGE
             x == IF missing THEN Opened(name, DimensionOf[p.vector]) ELSE INDEX_STORAGE[name]
             y == AddPoint(x, p, "none")
             s == With(INDEX_STORAGE, name, y)
             f == Without(redb_files, name)
  <2>1. ScanStored(x)
    BY OpenedIsStored DEF FtInv
  <2>2. INDEX_STORAGE' = s /\ (redb_files' = f \/ redb_files' = redb_files)
    BY <1>3 DEF FtAdd
  <2> HIDE DEF x
  <2>3. ScanStored(y)
    BY <2>1, AddedIsStored
  <2> HIDE DEF y
  <2>4. /\ \A k \in DOMAIN s : ScanStored(s[k])
        /\ \A k \in DOMAIN f : IsRedb(f[k])
    BY <2>3, OneMoreStored, OneFewer
  <2> HIDE DEF s, f
  <2> QED
    BY <2>2, <2>4 DEF FtInv
<1>4. ASSUME NEW name, NEW doc, FtDel(name, doc)
      PROVE  FtInv'
  <2> DEFINE x == INDEX_STORAGE[name]
             y == [x EXCEPT !.index = RemoveVector(@, doc)]
  <2>1. ScanStored(x)
    BY <1>4 DEF FtInv, FtDel
  <2>2. INDEX_STORAGE' = [INDEX_STORAGE EXCEPT ![name] = y] /\ redb_files' = redb_files
    BY <1>4 DEF FtDel
  <2> HIDE DEF x
  <2>3. ScanStored(y)
    BY <2>1, RemovedIsStored
  <2> HIDE DEF y
  <2> QED
    BY <2>2, <2>3 DEF FtInv
<1>5. ASSUME INDEX_STORAGE' = INDEX_STORAGE, redb_files' = redb_files
      PROVE  FtInv'
  BY <1>5 DEF FtInv
<1>6. ASSUME RestartServer
      PROVE  FtInv'
  <2> DEFINE f == FilesClosed(DOMAIN INDEX_STORAGE)
             none == <<>>
  <2>1. INDEX_STORAGE' = none /\ redb_files' = f /\ DOMAIN none = {}
    BY <1>6 DEF RestartServer
  <2>2. \A k \in DOMAIN f : IsRedb(f[k])
    BY ClosedAreRedb
  <2> HIDE DEF f, none
  <2> QED
    BY <2>1, <2>2 DEF FtInv
<1> QED
  BY <1>1, <1>2, <1>3, <1>4, <1>5, <1>6 DEF FtNext, DelMeta, SetMeta, ft

\* Scans of stored vectors tell what the storage gives.
LEMMA ScansTellStored ==
    ASSUME FtInv
    PROVE  SearchTellsStored
<1> SUFFICES ASSUME NEW name \in DOMAIN INDEX_STORAGE
             PROVE  LET x == INDEX_STORAGE[name]
                    IN  /\ \A doc \in DOMAIN x.index.vectors : Fits(x.index, x.index.vectors[doc])
                        /\ ~x.index.hnsw =>
                             \A q \in Vectors : LET answer == FtSearch(name, q, {}) IN
                               \A i \in DOMAIN answer :
                                 /\ answer[i].distance = DistanceOf[<<q, GetVector(x, answer[i].doc)>>]
                                 /\ \A j \in 1 .. i - 1 : answer[j].distance <= answer[i].distance
  BY DEF SearchTellsStored
<1> DEFINE x == INDEX_STORAGE[name]
<1>1. ScanStored(x)
  BY DEF FtInv
<1>2. \A q : FtSearch(name, q, {}) = IF Fits(x.index, q) THEN SearchPersistent(x, q, 10, {}) ELSE <<>>
  BY DEF FtSearch
<1> HIDE DEF x
<1>3. IsScan(x.index) /\ IsStore(x) /\ ~ x.trained
      /\ \A doc \in DOMAIN x.index.vectors : Agrees(x, doc, x.index.vectors[doc])
  BY <1>1 DEF ScanStored, IsStore
<1>4. \A doc \in DOMAIN x.index.vectors : Fits(x.index, x.index.vectors[doc])
  BY <1>3 DEF IsScan
<1>5. ASSUME ~ x.index.hnsw, NEW q \in Vectors, NEW i \in DOMAIN FtSearch(name, q, {})
      PROVE  LET answer == FtSearch(name, q, {})
             IN  /\ answer[i].distance = DistanceOf[<<q, GetVector(x, answer[i].doc)>>]
                 /\ \A j \in 1 .. i - 1 : answer[j].distance <= answer[i].distance
  <2> DEFINE t == SearchPersistent(x, q, 10, {})
             none == <<>>
  <2>1. FtSearch(name, q, {}) = t
    <3>1. DOMAIN none = {}
      OBVIOUS
    <3> QED
      BY <1>2, <3>1
  <2>2. t = LinearSearch(x.index, q, 10)
    BY <1>3, <1>5 DEF SearchPersistent, SearchIndex
  <2> HIDE DEF t
  <2>3. /\ Len(t) \in Nat /\ DOMAIN t = 1 .. Len(t)
        /\ \A p \in DOMAIN t : Scanned(x.index, q, t[p])
        /\ \A p, r \in DOMAIN t : p < r => t[p].distance <= t[r].distance
    <3>1. 10 \in Nat
      OBVIOUS
    <3> QED
      BY <1>3, <2>2, <3>1, LinearGives
  <2>4. i \in DOMAIN t
    BY <2>1
  <2>5. t[i].distance = DistanceOf[<<q, GetVector(x, t[i].doc)>>]
    <3> DEFINE doc == t[i].doc
    <3>1. doc \in DOMAIN x.index.vectors /\ t[i].distance = DistanceOf[<<q, x.index.vectors[doc]>>]
      BY <2>3, <2>4 DEF Scanned
    <3> HIDE DEF doc
    <3>2. GetVector(x, doc) = x.index.vectors[doc]
      BY <1>3, <3>1, GetGives
    <3> QED
      BY <3>1, <3>2 DEF doc
  <2>6. \A j \in 1 .. i - 1 : t[j].distance <= t[i].distance
    <3>1. \A j \in 1 .. i - 1 : j \in DOMAIN t /\ j < i
      BY <2>3, <2>4
    <3> QED
      BY <2>3, <2>4, <3>1
  <2> QED
    BY <2>1, <2>5, <2>6
<1> QED
  BY <1>4, <1>5 DEF x

-----------------------------------------------------------------------------
(* Both *)

\* Neither the storage of an index nor those of the server tell other vectors than
\* were stored, initially and after every step of either.
LEMMA StorageInit ==
    ASSUME MCInit
    PROVE  PindexInv /\ FtInv
<1>1. \E n : pindex = OpenIndex(EmptyRedb, n)
  BY DEF MCInit, PindexRest, PindexInit
<1>2. stored = <<>> /\ INDEX_STORAGE = <<>> /\ redb_files = <<>>
  BY DEF MCInit, PindexRest, PindexInit, FtRest, FtInit
<1>3. DOMAIN stored = {} /\ DOMAIN INDEX_STORAGE = {} /\ DOMAIN redb_files = {}
  BY <1>2
<1>4. IsStore(pindex) /\ CodesInv(pindex)
  BY <1>1, EmptyIsRedb, OpenGives
<1> QED
  BY <1>3, <1>4 DEF PindexInv, FtInv

\* What the storage of a persistent index returns is what calls said it stored
\* (persistent_index.rs:70), whatever was evicted from the cache, failed, removed, or
\* opened again, and searches tell the distances of it.
THEOREM IndexTold == PindexInit /\ [][PindexNext]_library => []StoredWhenAnswered
<1>1. PindexInit => PindexInv
  BY EmptyIsRedb, OpenGives DEF PindexInit, PindexInv
<1>2. PindexInv /\ [PindexNext]_library => PindexInv'
  BY PindexNextHolds
<1>3. PindexInv => StoredWhenAnswered
  BY StoredIsTold
<1> QED
  BY <1>1, <1>2, <1>3, PTL

\* FT.SEARCH tells what the storage of its index holds, nearest first (ft_commands.rs:185),
\* as long as the index scans.
THEOREM FtTold == FtInit /\ [][FtNext]_ft => []SearchTellsStored
<1>1. FtInit => FtInv
  BY DEF FtInit, FtInv
<1>2. FtInv /\ [FtNext]_ft => FtInv'
  BY FtNextStored
<1>3. FtInv => SearchTellsStored
  BY ScansTellStored
<1> QED
  BY <1>1, <1>2, <1>3, PTL

\* Both, beside one another (persistent_index.rs:70, ft_commands.rs:185).
THEOREM StorageTold == MCSpec => []StorageAnswers
<1>1. MCInit => PindexInv /\ FtInv
  BY StorageInit
<1>2. (PindexInv /\ FtInv) /\ [MCNext]_<<operands, gpu, indexes, qdrant, library, ft>> => (PindexInv /\ FtInv)'
  <2> SUFFICES ASSUME PindexInv, FtInv, [MCNext]_<<operands, gpu, indexes, qdrant, library, ft>>
               PROVE  PindexInv' /\ FtInv'
    OBVIOUS
  <2>1. [PindexNext]_library /\ [FtNext]_ft
    BY DEF MCNext, MCArithmetic, MCApis, MCIndexes
  <2> QED
    BY <2>1, PindexNextHolds, FtNextStored
<1>3. PindexInv /\ FtInv => StorageAnswers
  BY StoredIsTold, ScansTellStored DEF StorageAnswers
<1> QED
  BY <1>1, <1>2, <1>3, PTL DEF MCSpec

=============================================================================
