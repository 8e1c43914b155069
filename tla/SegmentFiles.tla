---------------------------- MODULE SegmentFiles ----------------------------
(***************************************************************************)
(* The files of an rvf2 index as data: segments of document records        *)
(* (rvf2/segment.rs), the manifest that lists them (rvf2/manifest.rs), the *)
(* document index that points into them (rvf2/doc_index.rs), and how       *)
(* rvf2/prefetch.rs cuts documents out of ranges it fetched.               *)
(*                                                                         *)
(* A record is [doc, pooled, patches, scales], the last three the lengths  *)
(* of its parts; a byte of a segment is <<record, k>>, the k-th byte of    *)
(* that record.  Checksums, codecs and times are left out.                 *)
(***************************************************************************)
EXTENDS Integers, FiniteSets, SortedLists

CONSTANTS Records,       \* the records a writer may add
          FetchRequests, \* the requests a prefetch may be made of
          MaxDocs,       \* bound on the records that are added
          MaxFetched,    \* bound on the requests of a prefetch
          U32,           \* stands for 2^32: offsets and lengths are u32
          SegmentHeader, \* SegmentHeader::SIZE
          HeaderSize     \* DocRecordHeader::SIZE

\* A request is for a record, which has a header
ASSUME SegmentFilesAssumption ==
    /\ {U32, SegmentHeader, HeaderSize} \subseteq Nat \ {0}
    /\ MaxDocs \in Nat
    /\ Records \subseteq [doc : Nat, pooled : Nat, patches : Nat, scales : Nat]
    /\ FetchRequests \subseteq [doc : Nat, segment : Nat, offset : Nat, len : Nat \ {0}]

NotFound == [found |-> FALSE]

-----------------------------------------------------------------------------
(* Segments *)

PayloadSize(r) == r.pooled + r.patches + r.scales
TotalSize(r) == HeaderSize + PayloadSize(r)

NewSegment(id) ==
    [id |-> id, data |-> [k \in 1 .. SegmentHeader |-> <<"header", k>>],
     offsets |-> <<>>, doc_count |-> 0]

\* Fault: the offset is taken when the header is written already
AddRecordLate(b, r) ==
    [b EXCEPT !.data = @ \o [k \in 1 .. TotalSize(r) |-> <<r, k>>],
              !.offsets = Append(@, <<r.doc, (Len(b.data) + HeaderSize) % U32, TotalSize(r)>>),
              !.doc_count = @ + 1]

\* add_record: the offset is cut to 32 bits
AddRecord(b, r) ==
    [b EXCEPT !.data = @ \o [k \in 1 .. TotalSize(r) |-> <<r, k>>],
              !.offsets = Append(@, <<r.doc, Len(b.data) % U32, TotalSize(r)>>),
              !.doc_count = @ + 1]

\* get_record: what is at offset is taken for a header; its sizes must add up to len
GetRecord(data, offset, len) ==
    LET at == data[offset + 1]
        r == at[1]
        part(from, n) == SubSeq(data, offset + from + 1, offset + from + n)
    IN IF offset + len > Len(data) \/ len < HeaderSize THEN NotFound
       ELSE IF at[2] # 1 \/ TotalSize(r) # len THEN NotFound
       ELSE [found |-> TRUE, doc |-> r.doc,
             pooled |-> part(HeaderSize, r.pooled),
             patches |-> part(HeaderSize + r.pooled, r.patches),
             scales |-> part(HeaderSize + r.pooled + r.patches, r.scales)]

-----------------------------------------------------------------------------
(* The manifest: a sequence of SegmentMeta *)

Least(S) == CHOOSE x \in S : \A y \in S : x <= y
Greatest(S) == CHOOSE x \in S : \A y \in S : y <= x

NewManifest == [segments |-> <<>>, total_docs |-> 0]

\* update_doc_range of every document, from the range of none
MetaOf(b) ==
    LET docs == {b.offsets[i][1] : i \in DOMAIN b.offsets}
    IN [segment_id |-> b.id, doc_count |-> b.doc_count,
        min_doc_id |-> IF docs = {} THEN U32 ELSE Least(docs),
        max_doc_id |-> IF docs = {} THEN 0 ELSE Greatest(docs)]

AddSegment(manifest, meta) ==
    [segments |-> Append(manifest.segments, meta),
     total_docs |-> manifest.total_docs + meta.doc_count]

NextSegmentId(manifest) ==
    IF manifest.segments = <<>> THEN 0
    ELSE (Greatest({manifest.segments[i].segment_id : i \in DOMAIN manifest.segments}) + 1) % U32

\* find_segment: the first whose range has the document
FindSegment(manifest, doc) ==
    LET at == {i \in DOMAIN manifest.segments :
                 doc \in manifest.segments[i].min_doc_id .. manifest.segments[i].max_doc_id}
    IN IF at = {} THEN NotFound
       ELSE [found |-> TRUE, segment_id |-> manifest.segments[Least(at)].segment_id]

-----------------------------------------------------------------------------
(* The document index *)

DocEntry(doc, segment, offset, len, dead) ==
    [doc |-> doc, segment |-> segment, offset |-> offset, len |-> len, tombstone |-> dead]

\* DocIndexBuilder::build sorts by key doc_id
BuildIndex(entries) ==
    LET order == StableOrder([i \in DOMAIN entries |-> entries[i].doc])
    IN [n \in DOMAIN entries |-> entries[order[n]]]

\* get: halve [left, right) until the document is met.  A tombstone is not found.
IndexGet(index, doc) ==
    LET bounds == (0 .. Len(index)) \X (0 .. Len(index))
        search[at \in bounds] ==
            LET left == at[1]
                right == at[2]
                mid == left + (right - left) \div 2
                entry == index[mid + 1]
            IN IF left >= right THEN NotFound
               ELSE IF entry.doc = doc
                    THEN IF entry.tombstone THEN NotFound ELSE [found |-> TRUE, entry |-> entry]
               ELSE IF entry.doc < doc THEN search[<<mid + 1, right>>] ELSE search[<<left, mid>>]
    IN search[<<0, Len(index)>>]

\* linear_scan
IndexScan(index, doc) ==
    LET live == {i \in DOMAIN index : index[i].doc = doc /\ ~index[i].tombstone}
    IN IF live = {} THEN NotFound ELSE [found |-> TRUE, entry |-> index[Least(live)]]

-----------------------------------------------------------------------------
(* Prefetch: a request is [doc, segment, offset, len]; byte i of segment s is <<s, i>> *)

\* The requests' places, sorted by key offset
ByOffset(rs) == StableOrder([i \in DOMAIN rs |-> rs[i].offset])

\* Fault: a range ends where the last request that joined it does
CoalesceShrinks(rs, threshold) ==
    LET step(acc, i) ==
            LET r == rs[i]
                last == acc[Len(acc)]
            IN IF acc # <<>> /\ r.offset < last.end + threshold
               THEN [acc EXCEPT ![Len(acc)].end = r.offset + r.len]
               ELSE Append(acc, [start |-> r.offset, end |-> r.offset + r.len])
    IN FoldLeft(step, <<>>, ByOffset(rs))

\* coalesce_ranges: in order of offset, a request joins the range before it if it begins
\* less than the threshold behind its end
Coalesce(rs, threshold) ==
    LET step(acc, i) ==
            LET r == rs[i]
                last == acc[Len(acc)]
            IN IF acc # <<>> /\ r.offset < last.end + threshold
               THEN [acc EXCEPT ![Len(acc)].end =
                        IF r.offset + r.len > @ THEN r.offset + r.len ELSE @]
               ELSE Append(acc, [start |-> r.offset, end |-> r.offset + r.len])
    IN FoldLeft(step, <<>>, ByOffset(rs))

\* What the fetch tasks of one prefetch bring: a range of a segment with its bytes
Fetched(rs, threshold) ==
    UNION {LET of == Keep(rs, {r \in ToSet(rs) : r.segment = s})
           IN {[start |-> x.start, data |-> [i \in 1 .. x.end - x.start |-> <<s, x.start + i - 1>>]] :
                  x \in ToSet(Coalesce(of, threshold))}
           : s \in {rs[i].segment : i \in DOMAIN rs}}

\* offset_to_data is a map from the start of a range: of several that begin at one
\* offset, in different segments, the last to be inserted stays
OffsetToData(fetched) ==
    LET starts == {x.start : x \in fetched}
    IN {m \in [starts -> fetched] : \A o \in starts : m[o].start = o}

\* What a request may get: a slice of some range, whichever the map's iterator meets
\* first; nothing if none has it
Served(m, r) ==
    LET over == {o \in DOMAIN m : r.offset >= o /\ r.offset + r.len <= o + Len(m[o].data)}
    IN {SubSeq(m[o].data, r.offset - o + 1, r.offset - o + r.len) : o \in over}

\* Every result a prefetch may give to its i-th request
PrefetchResults(rs, threshold, i) ==
    UNION {IF Served(m, rs[i]) = {} THEN {<<>>} ELSE Served(m, rs[i]) :
              m \in OffsetToData(Fetched(rs, threshold))}

-----------------------------------------------------------------------------
(* Writing an index, as the tests of the three files do: records go to the *)
(* segment builder, which is built and listed at any time, and entries of  *)
(* records may become tombstones; and the calls of prefetch.               *)

VARIABLES index,    \* [builder, segments, manifest, entries], all a writer has
          requests  \* the argument of a prefetch

writing == <<index, requests>>

WriterInit ==
    /\ index = [builder |-> NewSegment(NextSegmentId(NewManifest)), segments |-> <<>>,
                manifest |-> NewManifest, entries |-> <<>>]
    /\ requests = <<>>

AddDocument(r) ==
    /\ index.manifest.total_docs + index.builder.doc_count < MaxDocs
    /\ index' = [index EXCEPT !.builder = AddRecord(@, r)]
    /\ UNCHANGED requests

\* The segment is built, its metadata listed and its offsets given to the document index
SealSegment ==
    LET b == index.builder
        listed == AddSegment(index.manifest, MetaOf(b))
    IN /\ b.offsets # <<>>
       /\ index' = [builder |-> NewSegment(NextSegmentId(listed)),
                    segments |-> Append(index.segments, b),
                    manifest |-> listed,
                    entries |-> index.entries \o
                        [i \in DOMAIN b.offsets |->
                           DocEntry(b.offsets[i][1], b.id, b.offsets[i][2], b.offsets[i][3], FALSE)]]
       /\ UNCHANGED requests

MarkTombstone(i) ==
    /\ ~index.entries[i].tombstone
    /\ index' = [index EXCEPT !.entries[i].tombstone = TRUE]
    /\ UNCHANGED requests

Request(r) ==
    /\ Len(requests) < MaxFetched
    /\ requests' = Append(requests, r)
    /\ UNCHANGED index

WriterNext ==
    \/ \E r \in Records : AddDocument(r)
    \/ SealSegment
    \/ \E i \in DOMAIN index.entries : MarkTombstone(i)

\* Every document that is listed is found again, with its parts: the entry that get
\* finds names a segment and a place at which get_record reads a record of this document
\* as it was added, find_segment names that segment unless two segments' ranges
\* overlap, and the search by halves agrees with the scan; except that a document that
\* has both a tombstone and a live entry may be missed.  What is not listed, or has only
\* tombstones, is not found.  (rvf2/segment.rs, manifest.rs, doc_index.rs)
Overlapping(m) ==
    \E i, j \in DOMAIN m.segments :
        /\ i # j
        /\ m.segments[i].min_doc_id <= m.segments[j].max_doc_id
        /\ m.segments[j].min_doc_id <= m.segments[i].max_doc_id
DocumentsFound ==
    LET sorted == BuildIndex(index.entries)
        entries(doc) == {e \in ToSet(index.entries) : e.doc = doc}
        read(e) == GetRecord(index.segments[e.segment + 1].data, e.offset, e.len)
        part(r, from, n) == [k \in 1 .. n |-> <<r, from + k>>]
        whole(r) == [found |-> TRUE, doc |-> r.doc,
                     pooled |-> part(r, HeaderSize, r.pooled),
                     patches |-> part(r, HeaderSize + r.pooled, r.patches),
                     scales |-> part(r, HeaderSize + r.pooled + r.patches, r.scales)]
    IN /\ index.manifest.total_docs = Len(index.entries)
       /\ \A doc \in {r.doc : r \in Records} :
             LET got == IndexGet(sorted, doc)
                 live == {e \in entries(doc) : ~e.tombstone}
             IN /\ got.found => got.entry \in live
                /\ IndexScan(sorted, doc).found <=> live # {}
                /\ live = entries(doc) /\ live # {} =>
                     /\ got.found
                     /\ \E r \in Records : r.doc = doc /\ read(got.entry) = whole(r)
                     /\ \/ Overlapping(index.manifest)
                        \/ FindSegment(index.manifest, doc).segment_id = got.entry.segment

\* What a request is for
Wanted(r) == [i \in 1 .. r.len |-> <<r.segment, r.offset + i - 1>>]

\* A prefetch of documents of one segment gives every request exactly the bytes it
\* asked for, in whichever order the requests are and whatever ranges they are merged
\* to: ranges that overlap, nest, touch or lie within the threshold.  (rvf2/prefetch.rs)
Thresholds == {0, 2}
PrefetchServes ==
    Cardinality({requests[i].segment : i \in DOMAIN requests}) = 1 =>
        \A i \in DOMAIN requests, threshold \in Thresholds :
            PrefetchResults(requests, threshold, i) = {Wanted(requests[i])}

\* prefetch.rs:80 promises "Prefetch multiple documents, returning data for each": each
\* request gets its own bytes, also when the documents are in several segments.  They
\* do not: offset_to_data knows ranges by their offset alone.
PrefetchPerDocument ==
    \A i \in DOMAIN requests, threshold \in Thresholds :
        PrefetchResults(requests, threshold, i) = {Wanted(requests[i])}
=============================================================================
