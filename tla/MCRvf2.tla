------------------------------- MODULE MCRvf2 -------------------------------
(***************************************************************************)
(* A small instance of the rvf2 modules.  An index is written and closed,  *)
(* or a prefetch is made, and then its segments are served by a            *)
(* TieredStore: a segment that is uploaded twice and pinned, and one that  *)
(* competes with it for the cache.                                         *)
(***************************************************************************)
EXTENDS TieredStore, SegmentFiles, TLC

CONSTANTS s1, s2

SizeOfVersion(v) == IF v = Empty THEN 0 ELSE IF v = Torn THEN 1 ELSE v

Req(o, s, v) == [op |-> o, seg |-> s, bytes |-> v]
FirstStored == [s \in Segs |-> 1]
SomeRequests == {Req("upload", s1, 2), Req("get", s1, NoFile), Req("get", s2, NoFile),
                 Req("pin", s1, NoFile), Req("unpin", s1, NoFile)}

TaskSymmetry == Permutations(Tasks)

Rec(d, p, q, c) == [doc |-> d, pooled |-> p, patches |-> q, scales |-> c]
SmallRecords == {Rec(0, 1, 2, 1), Rec(0, 2, 0, 0), Rec(1, 1, 2, 0), Rec(2, 1, 0, 1)}
SomeFetches == [doc : {0}, segment : {0, 1}, offset : 0 .. 3, len : 1 .. 3]
FetchesOf(rs) == IF rs = <<>> THEN FetchRequests ELSE {r \in FetchRequests : r.segment = rs[1].segment}

\* No index is being written
Closed == index = [builder |-> NewSegment(0), segments |-> <<>>, manifest |-> NewManifest, entries |-> <<>>]

MCInit == Init /\ WriterInit
MCWrite ==
    /\ Init
    /\ \/ requests = <<>> /\ WriterNext
       \/ Closed /\ \E r \in FetchesOf(requests) : Request(r)
    /\ UNCHANGED vars
MCServe == Closed /\ requests = <<>> /\ Next /\ UNCHANGED writing
MCNext == MCWrite \/ MCServe
MCSpec == MCInit /\ [][MCNext]_<<vars, writing>>

\* Requests of several segments, and nothing else
PrefetchSpec ==
    /\ MCInit
    /\ [][\E r \in FetchRequests : Request(r) /\ UNCHANGED vars]_<<vars, writing>>
=============================================================================
