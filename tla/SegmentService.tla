--------------------------- MODULE SegmentService ---------------------------
(***************************************************************************)
(* What a tiered store of segments promises to its callers, whatever files *)
(* and caches are behind it: a read that nobody disturbs answers a whole   *)
(* version of the segment that somebody uploaded.  It does not promise     *)
(* this of a segment that is spoiled: by a call that failed or was cut     *)
(* off, by one that met another, or by two that overlapped and had         *)
(* different versions.  TieredStore implements this specification.         *)
(***************************************************************************)
EXTENDS FiniteSets

CONSTANTS Tasks, Segs, Versions,
          NoSeg,      \* no call in progress
          Failed,     \* the answer of a call that returned an error
          Torn        \* an answer that is no version anybody uploaded

VARIABLES asked,      \* the segment each task's call is about, or NoSeg
          alone,      \* no other call about that segment since this one began
          answer,     \* what the last step returned, and to which task, if it did
          published,  \* the versions of each segment that were uploaded
          spoiled     \* segments of which a copy may be no version

vars == <<asked, alone, answer, published, spoiled>>

Others(t) == {u \in Tasks \ {t} : asked[u] = asked[t] /\ asked[u] # NoSeg}

Init ==
    /\ asked = [t \in Tasks |-> NoSeg]
    /\ alone = [t \in Tasks |-> FALSE]
    /\ answer = {}
    /\ published \in [Segs -> SUBSET Versions]
    /\ spoiled = {}

Ask(t, s) ==
    /\ asked[t] = NoSeg
    /\ asked' = [asked EXCEPT ![t] = s]
    /\ alone' = [u \in Tasks |->
                   IF u = t THEN \A w \in Tasks \ {t} : asked[w] # s
                   ELSE alone[u] /\ asked[u] # s]
    /\ answer' = {}
    /\ UNCHANGED <<published, spoiled>>

\* A read that was alone, of a segment that is not spoiled, answers a version that was
\* uploaded, and fails only if there is none.  A write that fails fails its call.
Promised(t) ==
    IF alone[t] /\ asked[t] \notin spoiled
    THEN IF published[asked[t]] = {} THEN {Failed} ELSE published[asked[t]]
    ELSE Versions \cup {Failed, Torn}

Return(t) ==
    /\ asked[t] # NoSeg
    /\ \/ \E a \in Promised(t) : answer' = {<<t, a>>} /\ UNCHANGED spoiled
       \/ answer' = {<<t, Failed>>} /\ spoiled' = spoiled \cup {asked[t]}
    /\ asked' = [asked EXCEPT ![t] = NoSeg]
    /\ alone' = [alone EXCEPT ![t] = FALSE]
    /\ UNCHANGED published

\* Calls that do not read answer nothing.  One of them publishes what it uploads, and
\* spoils its segment only if it was not alone; one that fails may spoil it.
Finish(t) ==
    /\ asked[t] # NoSeg
    /\ asked' = [asked EXCEPT ![t] = NoSeg]
    /\ alone' = [alone EXCEPT ![t] = FALSE]
    /\ answer' = {}
    /\ \/ UNCHANGED <<published, spoiled>>
       \/ \E v \in Versions :
             /\ published' = [published EXCEPT ![asked[t]] = @ \cup {v}]
             /\ \/ UNCHANGED spoiled
                \/ ~alone[t] /\ spoiled' = spoiled \cup {asked[t]}
       \/ spoiled' = spoiled \cup {asked[t]} /\ UNCHANGED published

\* Two calls about one segment at once may spoil it, and one that was not alone, if
\* there are two versions that they may have had
Clash ==
    /\ \E t \in Tasks :
          /\ asked[t] # NoSeg
          /\ \/ Others(t) # {}
             \/ ~alone[t] /\ \E v, w \in published[asked[t]] : v # w
          /\ spoiled' = spoiled \cup {asked[t]}
    /\ answer' = {}
    /\ UNCHANGED <<asked, alone, published>>

\* A step that is not seen from outside
Quiet == answer' = {} /\ UNCHANGED <<asked, alone, published, spoiled>>

Crash ==
    /\ asked' = [t \in Tasks |-> NoSeg]
    /\ alone' = [t \in Tasks |-> FALSE]
    /\ answer' = {}
    /\ spoiled' \in SUBSET Segs
    /\ spoiled \subseteq spoiled'
    /\ spoiled' \ spoiled \subseteq {asked[t] : t \in Tasks}
    /\ UNCHANGED published

Next ==
    \/ \E t \in Tasks : (\E s \in Segs : Ask(t, s)) \/ Return(t) \/ Finish(t)
    \/ Clash
    \/ Quiet
    \/ Crash

Spec == Init /\ [][Next]_vars
=============================================================================
