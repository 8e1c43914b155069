----------------------------- MODULE TieredStore -----------------------------
(***************************************************************************)
(* Three tiers of segments: rvf2/tiered_store.rs with the LocalFsStore of  *)
(* rvf2/object_store.rs.  A segment is a hot file, an entry of the LRU     *)
(* cache (in memory, over a file of its own), or an object of the store.   *)
(*                                                                         *)
(* Tasks run the calls; every await and every file system call is a step,  *)
(* between which other tasks run.  tokio::fs::write, also in the put of    *)
(* the store, truncates a file when it opens it and then writes from its   *)
(* start: behind fewer bytes stays what another task wrote meanwhile.  A   *)
(* mapped file shows what the file holds: a mapping is whole as long as    *)
(* the file holds what was mapped.                                         *)
(***************************************************************************)
EXTENDS Naturals, FiniteSets, SequencesExt

CONSTANTS Tasks, Segs, Versions,
          Stored,     \* the version of each segment in the store at the start, or NoFile
          Requests,   \* the calls tasks make, records of op, seg and bytes
          Size(_),    \* the bytes of a version, a number
          MaxBytes,   \* cache_max_bytes
          MaxSpoiled, \* bound on the segments of which a copy is cut off
          MaxCounted, \* bound on what the cache counts, which may grow for ever
          NoSeg, Failed,
          Torn,       \* bytes that are no version: a part of one, or parts of two
          NoFile,     \* there is no such file
          Empty       \* a file that was truncated and not written yet

VARIABLES file,       \* the contents of hot, cache and object store files
          cache,      \* LruSegmentCache
          call,       \* what every task is doing
          published, spoiled, alone, answer     \* (history) see SegmentService

vars == <<file, cache, call, published, spoiled, alone, answer>>

\* Calls are about segments, an upload brings a version, and no marker is one
ASSUME StoreAssumption ==
    /\ NoSeg \notin Segs
    /\ {NoFile, Empty, Torn, Failed} \cap Versions = {}
    /\ NoFile # Empty /\ NoFile # Torn /\ Empty # Torn /\ Failed \notin {NoFile, Empty, Torn}
    /\ Stored \in [Segs -> Versions \cup {NoFile}]
    /\ Requests \subseteq [op : {"get", "pin", "unpin", "upload"}, seg : Segs,
                           bytes : Versions \cup {NoFile}]
    /\ \A r \in Requests : r.op = "upload" => r.bytes # NoFile

\* And what the cache counts are lengths, in bytes
ASSUME SizeAssumption ==
    /\ MaxBytes \in Nat
    /\ \A v \in Versions \cup {Empty, Torn} : Size(v) \in Nat

\* A step that nobody outside can tell
Quiet == answer' = {} /\ UNCHANGED <<published, spoiled, alone>>

-----------------------------------------------------------------------------
(* LruSegmentCache *)

NewCache == [segments |-> <<>>, order |-> <<>>, current |-> 0]

Entry(mapped, size) == [mapped |-> mapped, size |-> size]

\* order.retain: all but s, as they were ordered
Retained(order, s) ==
    LET kept[i \in 0 .. Len(order)] ==
          IF i = 0 THEN <<>>
          ELSE IF order[i] = s THEN kept[i - 1] ELSE Append(kept[i - 1], order[i])
    IN kept[Len(order)]

\* get: move to the end of the order
LruGet(s) == [cache EXCEPT !.order = Append(Retained(@, s), s)]

\* What the entries of some segments were counted with
SizeOf(k, segs) == FoldSet(LAMBDA s, sum : sum + k.segments[s].size, 0, segs \cap DOMAIN k.segments)

\* put's loop takes n segments off the head of the order, with their entries
Evicted(n) ==
    LET gone == {cache.order[i] : i \in 1 .. n}
    IN [segments |-> [x \in DOMAIN cache.segments \ gone |-> cache.segments[x]],
        order |-> SubSeq(cache.order, n + 1, Len(cache.order)),
        current |-> cache.current - SizeOf(cache, gone)]

\* Fault: what the entry that is replaced counted is taken for the new one's
LruPutRecount(s, mapped, size) ==
    LET k == cache
    IN [segments |-> [x \in DOMAIN k.segments \cup {s} |->
                        IF x = s THEN Entry(mapped, size) ELSE k.segments[x]],
        order |-> Append(k.order, s),
        current |-> IF s \in DOMAIN k.segments THEN k.current ELSE k.current + size]

\* put: evict until there is room or nothing is left, then insert.  An entry that is
\* replaced is not subtracted, and has its place in the order twice.
LruPut(s, mapped, size) ==
    LET rounds == {n \in 0 .. Len(cache.order) :
                     Evicted(n).current + size <= MaxBytes \/ n = Len(cache.order)}
        k == Evicted(Min(rounds))
    IN [segments |-> [x \in DOMAIN k.segments \cup {s} |->
                        IF x = s THEN Entry(mapped, size) ELSE k.segments[x]],
        order |-> Append(k.order, s),
        current |-> k.current + size]

-----------------------------------------------------------------------------
(* Steps of the calls *)

Idle == [op |-> "none", seg |-> NoSeg, pc |-> "idle", bytes |-> NoFile, mapped |-> NoFile]

\* The files that get, pin and upload write, and where each call begins
Kind(op) == IF op = "get" THEN "cache" ELSE IF op = "pin" THEN "hot" ELSE "cold"
Start(op) == IF op = "upload" THEN "truncate" ELSE "check"

Init ==
    /\ file = [kind \in {"hot", "cache", "cold"} |->
                 IF kind = "cold" THEN Stored ELSE [s \in Segs |-> NoFile]]
    /\ cache = NewCache
    /\ call = [t \in Tasks |-> Idle]
    /\ published = [s \in Segs |-> {Stored[s]} \ {NoFile}]
    /\ spoiled = {}
    /\ alone = [t \in Tasks |-> FALSE]
    /\ answer = {}

Call(t, r) ==
    /\ call[t] = Idle
    /\ call' = [call EXCEPT ![t] = [op |-> r.op, seg |-> r.seg, pc |-> Start(r.op),
                                   bytes |-> r.bytes, mapped |-> NoFile]]
    /\ alone' = [u \in Tasks |->
                   IF u = t THEN \A w \in Tasks \ {t} : call[w].seg # r.seg
                   ELSE alone[u] /\ call[u].seg # r.seg]
    /\ answer' = {}
    /\ UNCHANGED <<file, cache, published, spoiled>>

At(t, pc) == call[t].pc = pc
Goto(t, pc) == call' = [call EXCEPT ![t].pc = pc]

Done(t) ==
    /\ call' = [call EXCEPT ![t] = Idle]
    /\ alone' = [alone EXCEPT ![t] = FALSE]

\* A call that reads returns a, the others nothing but an error
Answer(t, a) ==
    /\ Done(t)
    /\ answer' = IF call[t].op = "get" THEN {<<t, a>>} ELSE {}
    /\ UNCHANGED <<published, spoiled>>

\* Fault: get maps the hot file without asking whether there is one
CheckHotAlways(t) ==
    /\ At(t, "check")
    /\ call[t].op = "get"
    /\ Goto(t, "maphot") /\ Quiet
    /\ UNCHANGED <<file, cache>>

\* hot_path.exists(): get goes on to map the file, pin is done, unpin removes it
CheckHot(t) ==
    /\ At(t, "check")
    /\ LET exists == file["hot"][call[t].seg] # NoFile
           op == call[t].op
       IN CASE op = "get" -> Goto(t, IF exists THEN "maphot" ELSE "warm") /\ Quiet
            [] op = "pin" /\ ~exists -> Goto(t, "fetch") /\ Quiet
            [] op = "unpin" /\ exists -> Goto(t, "remove") /\ Quiet
            [] (op = "pin" /\ exists) \/ (op = "unpin" /\ ~exists) -> Answer(t, Failed)
    /\ UNCHANGED <<file, cache>>

\* Segment::mmap: a file that is missing or shorter than a header is an error
Mapped(content) == IF content \in {NoFile, Empty} THEN Failed ELSE content

MapHot(t) ==
    /\ At(t, "maphot")
    /\ Answer(t, Mapped(file["hot"][call[t].seg]))
    /\ UNCHANGED <<file, cache>>

\* What a mapping shows: the version it was made of, while the file still holds it
Shown(mapped, s) == IF file["cache"][s] = mapped THEN mapped ELSE Torn

LookWarm(t) ==
    LET s == call[t].seg
    IN /\ At(t, "warm")
       /\ IF s \in DOMAIN cache.segments
          THEN /\ Answer(t, Shown(cache.segments[s].mapped, s))
               /\ cache' = LruGet(s)
          ELSE Goto(t, "fetch") /\ UNCHANGED cache /\ Quiet
       /\ UNCHANGED file

\* What there is after the first bytes are those of v, where c was: behind them is what
\* c has more.  How long torn bytes are is open.
Spliced(v, c) ==
    IF v = Empty THEN {c}
    ELSE IF Torn \in {v, c} THEN {v, Torn}
    ELSE IF c \in Versions /\ Size(c) > Size(v) THEN {Torn} ELSE {v}

\* t gets bytes, which spoil the segment if they are no version
Received(t, pc, bytes) ==
    /\ call' = [call EXCEPT ![t].pc = pc, ![t].bytes = bytes]
    /\ spoiled' = IF bytes \in {Empty, Torn} THEN spoiled \cup {call[t].seg} ELSE spoiled
    /\ answer' = {}
    /\ UNCHANGED <<file, cache, published, alone>>

\* object_store.get, which finds an object in the middle of a put truncated
Fetch(t) ==
    LET bytes == file["cold"][call[t].seg]
    IN /\ At(t, "fetch")
       /\ CASE bytes = NoFile -> Answer(t, Failed) /\ UNCHANGED <<file, cache>>
            [] bytes = Empty -> Received(t, "truncate", bytes)
            [] bytes \notin {NoFile, Empty} -> Received(t, "read", bytes)

\* And reads on to the end of the object, which may have been put anew
FetchRest(t) ==
    /\ At(t, "read")
    /\ \E bytes \in Spliced(call[t].bytes, file["cold"][call[t].seg]) : Received(t, "truncate", bytes)

Truncate(t) ==
    /\ At(t, "truncate")
    /\ file' = [file EXCEPT ![Kind(call[t].op)][call[t].seg] = Empty]
    /\ Goto(t, "write")
    /\ UNCHANGED cache /\ Quiet

Write(t) ==
    LET op == call[t].op
        s == call[t].seg
    IN /\ At(t, "write")
       /\ \E content \in Spliced(call[t].bytes, file[Kind(op)][s]) :
             /\ file' = [file EXCEPT ![Kind(op)][s] = content]
             /\ spoiled' = IF content = Torn THEN spoiled \cup {s} ELSE spoiled
       /\ IF op = "get" THEN Goto(t, "map") /\ UNCHANGED <<published, alone>>
          ELSE /\ Done(t)
               /\ published' = IF op = "upload" THEN [published EXCEPT ![s] = @ \cup {call[t].bytes}]
                               ELSE published
       /\ answer' = {}
       /\ UNCHANGED cache

\* A full disk: some of the bytes get into the file, or none, and the call fails
WriteFails(t) ==
    /\ At(t, "write")
    /\ \E kept \in BOOLEAN :
          file' = [file EXCEPT ![Kind(call[t].op)][call[t].seg] = IF kept THEN @ ELSE Torn]
    /\ Done(t)
    /\ spoiled' = spoiled \cup {call[t].seg}
    /\ Cardinality(spoiled') <= MaxSpoiled
    /\ answer' = IF call[t].op = "get" THEN {<<t, Failed>>} ELSE {}
    /\ UNCHANGED <<cache, published>>

\* The first mapping of the cache file, which get_segment returns in the end
MapCached(t) ==
    LET mapped == Mapped(file["cache"][call[t].seg])
    IN /\ At(t, "map")
       /\ IF mapped = Failed THEN Answer(t, Failed)
          ELSE /\ call' = [call EXCEPT ![t].pc = "put", ![t].mapped = mapped]
               /\ Quiet
       /\ UNCHANGED <<file, cache>>

\* With the cache locked the file is mapped again, for the cache
PutCached(t) ==
    LET s == call[t].seg
        mapped == Mapped(file["cache"][s])
    IN /\ At(t, "put")
       /\ IF mapped = Failed THEN Answer(t, Failed) /\ UNCHANGED cache
          ELSE /\ cache' = LruPut(s, mapped, Size(call[t].bytes))
               /\ cache'.current <= MaxCounted
               /\ Answer(t, Shown(call[t].mapped, s))
       /\ UNCHANGED file

\* unpin: remove_file, an error if another unpin was faster.  Mappings outlive it, and
\* so does the file that a pin has open, without its name.
RemoveHot(t) ==
    LET s == call[t].seg
        pinning == {u \in Tasks : At(u, "write") /\ call[u].op = "pin" /\ call[u].seg = s}
    IN /\ At(t, "remove")
       /\ file' = [file EXCEPT !["hot"][s] = NoFile]
       /\ call' = [u \in Tasks |-> IF u = t THEN Idle
                                  ELSE IF u \in pinning THEN [call[u] EXCEPT !.pc = "orphan"]
                                  ELSE call[u]]
       /\ alone' = [alone EXCEPT ![t] = FALSE]
       /\ answer' = {}
       /\ UNCHANGED <<cache, published, spoiled>>

\* A pin that fills a file which has been removed
WriteOrphan(t) ==
    /\ At(t, "orphan")
    /\ Answer(t, Failed)
    /\ UNCHANGED <<file, cache>>

\* clear_cache
Clear ==
    /\ cache' = NewCache
    /\ UNCHANGED <<file, call>> /\ Quiet

\* The process dies: a file that was being written may have some of its bytes
Crash ==
    LET cut == {<<Kind(call[t].op), call[t].seg>> : t \in {u \in Tasks : At(u, "write")}}
    IN /\ \E partly \in SUBSET cut :
             file' = [kind \in DOMAIN file |-> [s \in Segs |->
                        IF <<kind, s>> \in partly THEN Torn ELSE file[kind][s]]]
       /\ cache' = NewCache
       /\ call' = [t \in Tasks |-> Idle]
       /\ alone' = [t \in Tasks |-> FALSE]
       /\ answer' = {}
       /\ spoiled' = spoiled \cup {k[2] : k \in cut}
       /\ Cardinality(spoiled') <= MaxSpoiled
       /\ UNCHANGED published

Step(t) ==
    \/ CheckHot(t) \/ MapHot(t) \/ LookWarm(t) \/ Fetch(t) \/ FetchRest(t) \/ Truncate(t)
    \/ Write(t) \/ WriteFails(t) \/ MapCached(t) \/ PutCached(t) \/ RemoveHot(t) \/ WriteOrphan(t)

Next ==
    \/ \E t \in Tasks, r \in Requests : Call(t, r)
    \/ \E t \in Tasks : Step(t)
    \/ Clear
    \/ Crash

Spec == Init /\ [][Next]_vars

-----------------------------------------------------------------------------
(* Properties *)

\* What the cache counts covers what it holds, so that no eviction subtracts more than
\* was added and the segments in memory stay within cache_max_bytes (or are one that is
\* larger); and everything cached can be evicted.  It may count more: an entry that two
\* tasks fetched at once is counted twice for good.
CacheAccounts ==
    /\ SizeOf(cache, Segs) <= cache.current
    /\ SizeOf(cache, Segs) <= MaxBytes \/ Cardinality(DOMAIN cache.segments) = 1
    /\ DOMAIN cache.segments \subseteq ToSet(cache.order)

\* The store is a SegmentService: a read that no other call about the segment
\* disturbs answers a whole uploaded version, whatever was pinned, evicted, cleared,
\* uploaded or lost before, unless a file of the segment was cut off by a failed write
\* or a crash, an object was read while it was written, or two calls that overlapped
\* had different versions.
Service ==
    INSTANCE SegmentService WITH
        asked <- [t \in Tasks |-> call[t].seg]
IsSegmentService == Service!Spec
=============================================================================
