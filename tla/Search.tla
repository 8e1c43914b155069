------------------------------- MODULE Search -------------------------------
(***************************************************************************)
(* The FT commands: an index is a key "ft:meta:<name>" of the database,    *)
(* which any command may remove or set, and an entry of INDEX_STORAGE,     *)
(* which lives as long as the process, with a redb file in disk mode.      *)
(* A handler runs under the lock of the database.                          *)
(***************************************************************************)
EXTENDS VectorIndex

VARIABLES
    storage_mode,
    meta,           \* the indexes whose key is there
    INDEX_STORAGE,  \* [name -> index]
    redb_files,     \* the files that no index has open
    panicked        \* a handler panicked, with the database locked

ft == <<storage_mode, meta, INDEX_STORAGE, redb_files, panicked>>

FtInit ==
    /\ storage_mode \in {"in-memory", "disk"}
    /\ meta = {}
    /\ INDEX_STORAGE = <<>>
    /\ redb_files = <<>>
    /\ panicked = FALSE

OnDisk == storage_mode = "disk"
Opened(name, n) ==
    OpenIndex(IF OnDisk /\ name \in DOMAIN redb_files THEN redb_files[name] ELSE EmptyRedb, n)
\* redb refuses to open a file twice
CanOpen(name) == ~OnDisk \/ name \notin DOMAIN INDEX_STORAGE
FilesClosed(names) ==
    IF ~OnDisk THEN redb_files
    ELSE [f \in DOMAIN redb_files \union names |->
            IF f \in names THEN INDEX_STORAGE[f].redb ELSE redb_files[f]]

Alive == ~panicked
Serving(name) == Alive /\ name \in meta
Same == UNCHANGED <<storage_mode, panicked>>

\* A schema with a vector makes an index.  The key says whether there is one
\* already, so that the entry of a key that was deleted is opened again.
FtCreate(name, n, vector) ==
    /\ Alive /\ name \notin meta
    /\ UNCHANGED storage_mode
    /\ IF vector /\ ~CanOpen(name)
       THEN panicked' = TRUE /\ UNCHANGED <<meta, INDEX_STORAGE, redb_files>>
       ELSE /\ meta' = meta \union {name}
            /\ INDEX_STORAGE' = IF vector THEN With(INDEX_STORAGE, name, Opened(name, n)) ELSE INDEX_STORAGE
            /\ redb_files' = IF vector THEN Without(redb_files, name) ELSE redb_files
            /\ UNCHANGED panicked

\* The file stays
FtDrop(name) ==
    /\ Serving(name)
    /\ meta' = meta \ {name}
    /\ INDEX_STORAGE' = Without(INDEX_STORAGE, name)
    /\ redb_files' = FilesClosed({name} \intersect DOMAIN INDEX_STORAGE)
    /\ Same

\* An index that is missing is made with the dimension of the vector.  The id
\* of the document is a hash of its name.
FtAdd(name, p) ==
    /\ Serving(name)
    /\ LET missing == name \notin DOMAIN INDEX_STORAGE
           x == IF missing THEN Opened(name, DimensionOf[p.vector]) ELSE INDEX_STORAGE[name]
       IN  /\ x.index.next_id + x.index.size < MaxNodes
           /\ INDEX_STORAGE' = With(INDEX_STORAGE, name, AddPoint(x, p, "none"))
           /\ redb_files' = IF missing THEN Without(redb_files, name) ELSE redb_files
    /\ UNCHANGED meta /\ Same

FtDel(name, doc) ==
    /\ Serving(name) /\ name \in DOMAIN INDEX_STORAGE
    /\ INDEX_STORAGE' = [INDEX_STORAGE EXCEPT ![name].index = RemoveVector(@, doc)]
    /\ UNCHANGED <<meta, redb_files>> /\ Same

\* 10 results; a query of another dimension gives none
FtSearch(name, q, found) ==
    IF name \in DOMAIN INDEX_STORAGE /\ Fits(INDEX_STORAGE[name].index, q)
    THEN SearchPersistent(INDEX_STORAGE[name], q, 10, found) ELSE <<>>

\* DEL and SET of the key
DelMeta(name) == Serving(name) /\ meta' = meta \ {name} /\ UNCHANGED <<INDEX_STORAGE, redb_files>> /\ Same
SetMeta(name) == Alive /\ meta' = meta \union {name} /\ UNCHANGED <<INDEX_STORAGE, redb_files>> /\ Same

\* Without an append only file, the keys are gone
RestartServer ==
    /\ meta' = {}
    /\ INDEX_STORAGE' = <<>>
    /\ redb_files' = FilesClosed(DOMAIN INDEX_STORAGE)
    /\ panicked' = FALSE
    /\ UNCHANGED storage_mode

FtNext ==
    \/ \E name \in Names :
          \/ \E n \in Dimensions, vector \in BOOLEAN : FtCreate(name, n, vector)
          \/ FtDrop(name) \/ DelMeta(name) \/ SetMeta(name)
          \/ \E p \in Points : FtAdd(name, p)
          \/ \E doc \in DocIds : FtDel(name, doc)
    \/ RestartServer

\* What FT.SEARCH tells of an index that still scans (ft_commands.rs:185) is
\* what its storage holds, nearest first; and the vectors of an index have one
\* dimension, whatever its file held before.
SearchTellsStored ==
    \A name \in DOMAIN INDEX_STORAGE :
        LET x == INDEX_STORAGE[name]
        IN  /\ \A doc \in DOMAIN x.index.vectors : Fits(x.index, x.index.vectors[doc])
            /\ ~x.index.hnsw =>
                 \A q \in Vectors : LET answer == FtSearch(name, q, {}) IN
                   \A i \in DOMAIN answer :
                     /\ answer[i].distance = DistanceOf[<<q, GetVector(x, answer[i].doc)>>]
                     /\ \A j \in 1 .. i - 1 : answer[j].distance <= answer[i].distance
=============================================================================
