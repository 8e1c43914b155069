----------------------------- MODULE Rvf2Proofs -----------------------------
(***************************************************************************)
(* TieredStore implements SegmentService, for any number of tasks and      *)
(* segments, any requests and any size of the cache; and an index that is  *)
(* written to segments has every document that is listed, and a prefetch   *)
(* in one segment gives what is asked for.                                 *)
(*                                                                         *)
(* The store.  The argument is about segments that are not spoiled.  Their *)
(* files hold uploaded versions, and one that was truncated has a task at  *)
(* work on it (Whole).  What the cache maps is what the cache file holds,  *)
(* until a task rewrites that file, which then puts its own mapping        *)
(* (Refilled).  So a call that was alone with its segment finds every file *)
(* whole, and the file it opened empty when it writes it: only calls that  *)
(* overlapped can leave the bytes of two versions in one (Mixed).          *)
(*                                                                         *)
(* The prefetch.  Requests are taken in order of their offsets, so the     *)
(* ranges are apart and none begins behind a request to come (JoinKeeps):  *)
(* each covers what joined it, and no two begin at one place.              *)
(*                                                                         *)
(* The index.  A segment has each record where its offset says             *)
(* (SoundSegment), the manifest lists the segments in order, and an entry  *)
(* is what a segment says of one of its records (Points).  The search by   *)
(* halves is right of every range by induction on its width                *)
(* (IndexGetGives).                                                        *)
(***************************************************************************)
EXTENDS MCRvf2, Induction, SequenceTheorems

-----------------------------------------------------------------------------
(* The invariant *)

Tiers == {"hot", "cache", "cold"}
Contents == Versions \cup {NoFile, Empty, Torn}
Seen == Versions \cup {Torn}

\* Where each call can be
Places(op) ==
    CASE op = "get" -> {"check", "maphot", "warm", "fetch", "read", "truncate", "write", "map", "put"}
      [] op = "pin" -> {"check", "fetch", "read", "truncate", "write", "orphan"}
      [] op = "unpin" -> {"check", "remove"}
      [] op = "upload" -> {"truncate", "write"}

Calls == [op : {"get", "pin", "unpin", "upload"}, seg : Segs,
          pc : {"check", "maphot", "warm", "fetch", "read", "truncate", "write", "map", "put",
                "remove", "orphan"},
          bytes : Contents, mapped : Contents]

StoreType ==
    /\ file \in [Tiers -> [Segs -> Contents]]
    /\ DOMAIN cache = {"segments", "order", "current"}
    /\ \A s \in DOMAIN cache.segments : s \in Segs /\ cache.segments[s].mapped \in Seen
    /\ call \in [Tasks -> Calls \cup {Idle}]
    /\ \A t \in Tasks : call[t] # Idle =>
          /\ call[t].pc \in Places(call[t].op)
          /\ call[t].op = "upload" => call[t].bytes \in Versions
          /\ At(t, "put") => call[t].mapped \in Seen
    /\ published \in [Segs -> SUBSET Versions]
    /\ spoiled \in SUBSET Segs
    /\ alone \in [Tasks -> BOOLEAN]

\* t is to fill the file of s in a tier, or to put its mapping of s in the cache
Filling(t, tier, s) == At(t, "write") /\ Kind(call[t].op) = tier /\ call[t].seg = s
Refilling(t, s) == call[t].op = "get" /\ call[t].seg = s /\ call[t].pc \in {"write", "map", "put"}

\* A file holds an uploaded version, or is empty while a task fills it
Whole ==
    \A tier \in Tiers : \A s \in Segs \ spoiled :
        /\ file[tier][s] \in published[s] \cup {NoFile, Empty}
        /\ file[tier][s] = Empty => \E t \in Tasks : Filling(t, tier, s)

\* What was uploaded stays in the store, and a file that a task is at work on stays there
Kept ==
    /\ \A s \in Segs : published[s] # {} => file["cold"][s] # NoFile
    /\ \A t \in Tasks, s \in Segs : Refilling(t, s) => file["cache"][s] # NoFile

\* What a task fetched is a version of its segment
Carried ==
    \A t \in Tasks :
        call[t].op \in {"get", "pin"} /\ call[t].pc \in {"read", "truncate", "write", "map", "put"} =>
            /\ call[t].bytes # NoFile
            /\ At(t, "read") => call[t].bytes # Empty
            /\ call[t].seg \notin spoiled => call[t].bytes \in published[call[t].seg]

\* The cache maps what its file holds, or a task is about to put a new mapping
Refilled ==
    \A s \in DOMAIN cache.segments \ spoiled :
        \/ cache.segments[s].mapped = file["cache"][s]
        \/ \E t \in Tasks : Refilling(t, s)

\* t finds its segment as it left it
Calm(t) ==
    /\ call[t] # Idle
    /\ \A u \in Tasks \ {t} : call[u].seg # call[t].seg
    /\ At(t, "maphot") => file["hot"][call[t].seg] # NoFile
    /\ At(t, "read") => file["cold"][call[t].seg] = call[t].bytes
    /\ At(t, "write") => file[Kind(call[t].op)][call[t].seg] = Empty
    /\ call[t].pc \in {"map", "put"} /\ call[t].seg \notin spoiled =>
          file["cache"][call[t].seg] = call[t].bytes
    /\ At(t, "put") /\ call[t].seg \notin spoiled => call[t].mapped = call[t].bytes

Undisturbed == \A t \in Tasks : alone[t] => Calm(t)

StoreInv == StoreType /\ Whole /\ Kept /\ Carried /\ Refilled /\ Undisturbed

-----------------------------------------------------------------------------
(* The invariant holds at the start and is kept *)

\* put keeps what it does not evict as it was
LEMMA PutKeeps ==
    ASSUME NEW s, NEW mapped, NEW size
    PROVE  LET k == LruPut(s, mapped, size) IN
           /\ DOMAIN k = {"segments", "order", "current"}
           /\ DOMAIN k.segments \subseteq DOMAIN cache.segments \cup {s}
           /\ s \in DOMAIN k.segments /\ k.segments[s].mapped = mapped
           /\ \A x \in DOMAIN k.segments \ {s} : k.segments[x] = cache.segments[x]
  BY DEF LruPut, Evicted, Entry

\* StoreInv holds of a new store, in which nothing is at work.
LEMMA InitInv == Init => StoreInv
<1> SUFFICES ASSUME Init PROVE StoreInv
  OBVIOUS
<1>1. StoreType
  BY StoreAssumption DEF Init, StoreType, Tiers, Contents, Seen, NewCache
<1>2. Whole /\ Kept /\ Carried /\ Refilled /\ Undisturbed
  BY StoreAssumption DEF Init, Whole, Kept, Carried, Refilled, Undisturbed, Calm, Refilling, Filling,
     Tiers, NewCache, Idle, At
<1> QED
  BY <1>1, <1>2 DEF StoreInv

\* What a step of a task leaves alone that is about itself only
Rest ==
    /\ UNCHANGED <<file, published, spoiled>>
    /\ cache'.segments = cache.segments /\ DOMAIN cache' = DOMAIN cache

\* t goes on to a place where it has no file to write and no mapping to keep
LEMMA MoveInv ==
    ASSUME StoreInv, NEW t \in Tasks, NEW pc \in Places(call[t].op), call[t] # Idle,
           pc \notin {"read", "truncate", "write", "map", "put"},
           call[t].pc \notin {"write", "map", "put"},
           pc = "maphot" => file["hot"][call[t].seg] # NoFile,
           Goto(t, pc), alone' = alone, Rest
    PROVE  StoreInv'
<1> USE DEF Rest
<1>1. /\ call[t] \in Calls /\ call'[t] = [call[t] EXCEPT !.pc = pc]
      /\ \A u \in Tasks \ {t} : call'[u] = call[u]
      /\ call' \in [Tasks -> Calls \cup {Idle}]
  <2>1. call[t] \in Calls
    BY DEF StoreInv, StoreType
  <2>2. call[t].op \in {"get", "pin", "unpin", "upload"}
    BY <2>1 DEF Calls
  <2>3. [call[t] EXCEPT !.pc = pc] \in Calls
    BY <2>1, <2>2 DEF Calls, Places
  <2> QED
    BY <2>1, <2>3 DEF Goto, StoreInv, StoreType
<1>2. /\ call'[t] \in Calls /\ call'[t] # Idle /\ call'[t].op = call[t].op /\ call'[t].seg = call[t].seg
      /\ call'[t].pc = pc /\ call'[t].bytes = call[t].bytes /\ call'[t].mapped = call[t].mapped
  BY <1>1 DEF Calls, Idle
<1>3. \A u \in Tasks :
         /\ call'[u].seg = call[u].seg /\ (call'[u] = Idle <=> call[u] = Idle)
         /\ \A s : Refilling(u, s)' <=> Refilling(u, s)
         /\ \A s, tier : Filling(u, tier, s)' <=> Filling(u, tier, s)
  BY <1>1, <1>2 DEF Refilling, Filling, At
<1>4. StoreType'
  BY ZenonT(30), <1>1, <1>2 DEF StoreInv, StoreType, At
<1>5. Whole' /\ Kept' /\ Refilled'
  BY <1>3 DEF StoreInv, Whole, Kept, Refilled
<1>6. Carried'
  BY <1>1, <1>2 DEF StoreInv, Carried, At
<1>7. Undisturbed'
  <2> SUFFICES ASSUME NEW u \in Tasks, alone[u]
               PROVE  Calm(u)'
    BY DEF Undisturbed
  <2>1. CASE u = t
    BY <1>2, <1>3, <2>1 DEF StoreInv, Undisturbed, Calm, At
  <2>2. CASE u # t
    BY <1>1, <1>3, <2>2 DEF StoreInv, Undisturbed, Calm, At
  <2> QED
    BY <2>1, <2>2
<1> QED
  BY <1>4, <1>5, <1>6, <1>7 DEF StoreInv

\* t returns, and writes nothing
LEMMA QuitInv ==
    ASSUME StoreInv, NEW t \in Tasks, call[t].pc # "write",
           \A s \in Segs : Refilling(t, s) => file["cache"][s] = Empty,
           Done(t), Rest
    PROVE  StoreInv'
<1> USE DEF Rest, StoreInv
<1>1. /\ call'[t] = Idle
      /\ \A u \in Tasks \ {t} : call'[u] = call[u]
      /\ call' \in [Tasks -> Calls \cup {Idle}]
      /\ alone' \in [Tasks -> BOOLEAN] /\ ~alone'[t] /\ \A u \in Tasks \ {t} : alone'[u] = alone[u]
  BY DEF Done, StoreType
<1>3. StoreType'
  BY <1>1 DEF StoreType, At
<1>4. Whole'
  BY <1>1 DEF Whole, Filling, At, Idle
<1>5. Kept' /\ Carried'
  BY <1>1 DEF Kept, Carried, Refilling, Idle, At
<1>6. Refilled'
  BY <1>1 DEF Refilled, Refilling, Idle, Whole, Filling, Tiers, Kind, At, StoreType
<1>7. Undisturbed'
  BY <1>1, StoreAssumption DEF Undisturbed, Calm, At, Idle, StoreType, Calls
<1> QED
  BY <1>3, <1>4, <1>5, <1>6, <1>7

\* The look for a hot file changes no file.
LEMMA CheckHotInv == ASSUME StoreInv, NEW t \in Tasks, CheckHot(t) PROVE StoreInv'
<1>1. call[t] \in Calls /\ call[t] # Idle /\ call[t].pc = "check"
  BY DEF StoreInv, StoreType, CheckHot, At, Idle
<1>2. call[t].op \in {"get", "pin", "unpin"}
  BY <1>1 DEF StoreInv, StoreType, Calls, Places
<1>3. Rest
  BY <1>2 DEF CheckHot, Rest, Quiet, Answer
<1>4. CASE call[t].op = "get" /\ file["hot"][call[t].seg] # NoFile
  <2>1. Goto(t, "maphot") /\ alone' = alone /\ "maphot" \in Places(call[t].op)
    BY <1>4 DEF CheckHot, Quiet, Places
  <2> QED
    BY <1>1, <1>3, <1>4, <2>1, MoveInv
<1>5. CASE call[t].op = "get" /\ file["hot"][call[t].seg] = NoFile
  <2>1. Goto(t, "warm") /\ alone' = alone /\ "warm" \in Places(call[t].op)
    BY <1>5 DEF CheckHot, Quiet, Places
  <2> QED
    BY <1>1, <1>3, <2>1, MoveInv
<1>6. CASE call[t].op = "pin" /\ file["hot"][call[t].seg] = NoFile
  <2>1. Goto(t, "fetch") /\ alone' = alone /\ "fetch" \in Places(call[t].op)
    BY <1>6 DEF CheckHot, Quiet, Places
  <2> QED
    BY <1>1, <1>3, <2>1, MoveInv
<1>7. CASE call[t].op = "unpin" /\ file["hot"][call[t].seg] # NoFile
  <2>1. Goto(t, "remove") /\ alone' = alone /\ "remove" \in Places(call[t].op)
    BY <1>7 DEF CheckHot, Quiet, Places
  <2> QED
    BY <1>1, <1>3, <2>1, MoveInv
<1>8. CASE \/ call[t].op = "pin" /\ file["hot"][call[t].seg] # NoFile
           \/ call[t].op = "unpin" /\ file["hot"][call[t].seg] = NoFile
  <2>1. Done(t)
    BY <1>8 DEF CheckHot, Answer
  <2> QED
    BY <1>1, <1>3, <2>1, QuitInv DEF Refilling
<1> QED
  BY <1>2, <1>4, <1>5, <1>6, <1>7, <1>8

\* A hot file that is mapped is mapped as it is.
LEMMA MapHotInv == ASSUME StoreInv, NEW t \in Tasks, MapHot(t) PROVE StoreInv'
  BY QuitInv DEF MapHot, At, Answer, Refilling, Rest

\* The cache answers with what its file holds.
LEMMA LookWarmInv == ASSUME StoreInv, NEW t \in Tasks, LookWarm(t) PROVE StoreInv'
<1>1. call[t] \in Calls /\ call[t] # Idle /\ call[t].pc = "warm"
  BY DEF StoreInv, StoreType, LookWarm, At, Idle
<1>2. "fetch" \in Places(call[t].op)
  BY <1>1 DEF StoreInv, StoreType, Calls, Places
<1>3. Rest
  BY DEF LookWarm, LruGet, Rest, Quiet, Answer, StoreInv, StoreType
<1>4. CASE call[t].seg \in DOMAIN cache.segments
  BY <1>1, <1>3, <1>4, QuitInv DEF LookWarm, Answer, Refilling
<1>5. CASE call[t].seg \notin DOMAIN cache.segments
  BY <1>1, <1>2, <1>3, <1>5, MoveInv DEF LookWarm, Quiet
<1> QED
  BY <1>4, <1>5

\* What t receives of the object was uploaded, or spoils its segment
LEMMA ReceivedInv ==
    ASSUME StoreInv, NEW t \in Tasks, NEW pc \in {"read", "truncate"}, NEW bytes \in Contents,
           call[t].pc \in {"fetch", "read"}, bytes # NoFile, pc = "read" => bytes # Empty,
           call[t].seg \notin spoiled => bytes \in published[call[t].seg] \cup {Empty, Torn},
           pc = "read" => bytes = file["cold"][call[t].seg],
           Received(t, pc, bytes)
    PROVE  StoreInv'
<1>1. call[t] \in Calls /\ call[t] # Idle /\ call[t].op \in {"get", "pin"}
  <2>1. call[t] \in Calls /\ call[t] # Idle
    BY DEF StoreInv, StoreType, Idle
  <2> QED
    BY <2>1 DEF StoreInv, StoreType, Calls, Places
<1>2. /\ call' = [call EXCEPT ![t].pc = pc, ![t].bytes = bytes]
      /\ spoiled' = IF bytes \in {Empty, Torn} THEN spoiled \cup {call[t].seg} ELSE spoiled
      /\ UNCHANGED <<file, cache, published, alone>>
  BY DEF Received
<1>3. call[t].seg \in Segs
  BY <1>1 DEF Calls
<1>4. /\ call'[t] \in Calls /\ call'[t] # Idle /\ call'[t].op = call[t].op
      /\ call'[t].seg = call[t].seg /\ call'[t].pc = pc /\ call'[t].bytes = bytes
      /\ \A u \in Tasks \ {t} : call'[u] = call[u]
      /\ call' \in [Tasks -> Calls \cup {Idle}]
  BY <1>1, <1>2 DEF Calls, Idle, StoreInv, StoreType
<1>5. \A u \in Tasks :
         /\ call'[u].seg = call[u].seg /\ (call'[u] = Idle <=> call[u] = Idle)
         /\ \A s : Refilling(u, s)' <=> Refilling(u, s)
         /\ \A s, tier : Filling(u, tier, s)' <=> Filling(u, tier, s)
  BY <1>1, <1>4 DEF Refilling, Filling, At
<1>6. StoreType'
  <2>1. pc \in Places(call[t].op)
    BY <1>1 DEF Places
  <2> QED
    BY <1>1, <1>2, <1>3, <1>4, <2>1 DEF StoreInv, StoreType, At
<1>7. Whole' /\ Kept' /\ Refilled'
  BY <1>2, <1>5 DEF StoreInv, Whole, Kept, Refilled
<1>8. Carried'
  BY <1>1, <1>2, <1>3, <1>4 DEF StoreInv, Carried, At
<1>9. Undisturbed'
  <2> SUFFICES ASSUME NEW u \in Tasks, alone[u]
               PROVE  Calm(u)'
    BY <1>2 DEF Undisturbed
  <2>1. CASE u = t
    BY <1>1, <1>2, <1>4, <1>5, <2>1 DEF StoreInv, Undisturbed, Calm, At
  <2>2. CASE u # t
    BY <1>2, <1>4, <1>5, <2>2 DEF StoreInv, Undisturbed, Calm, At
  <2> QED
    BY <2>1, <2>2
<1> QED
  BY <1>6, <1>7, <1>8, <1>9 DEF StoreInv

\* What is fetched from the object store was uploaded.
LEMMA FetchInv == ASSUME StoreInv, NEW t \in Tasks, Fetch(t) PROVE StoreInv'
<1> DEFINE bytes == file["cold"][call[t].seg]
<1>1. call[t].pc = "fetch" /\ call[t].seg \in Segs /\ bytes \in Contents
  <2>1. call[t] \in Calls /\ call[t].pc = "fetch"
    BY DEF StoreInv, StoreType, Fetch, At, Idle
  <2> QED
    BY <2>1 DEF StoreInv, StoreType, Calls, Tiers
<1>2. CASE bytes = NoFile
  <2>1. Done(t) /\ Rest
    BY <1>2, StoreAssumption DEF Fetch, Answer, Rest
  <2> QED
    BY <1>1, <2>1, QuitInv DEF Refilling
<1>3. CASE bytes # NoFile
  <2>1. PICK pc \in {"read", "truncate"} :
           Received(t, pc, bytes) /\ (pc = "read" => bytes # Empty)
    BY <1>3 DEF Fetch
  <2>2. call[t].seg \notin spoiled => bytes \in published[call[t].seg] \cup {Empty, Torn}
    BY <1>1, <1>3 DEF StoreInv, Whole, Tiers
  <2> QED
    BY <1>1, <1>3, <2>1, <2>2, ReceivedInv
<1> QED
  BY <1>2, <1>3

\* Bytes of a version, over what a file holds: the version, or torn if the file holds
\* another one
LEMMA SplicedIs ==
    ASSUME NEW v \in Contents, NEW c \in Contents, NEW content \in Spliced(v, c)
    PROVE  /\ content \in Contents
           /\ v # NoFile /\ c # NoFile => content # NoFile
           /\ v # Empty => content \in {v, Torn}
           /\ v \notin {Empty, Torn} /\ c # Torn /\ content = Torn => v # c /\ c \in Versions
  BY StoreAssumption, SizeAssumption DEF Spliced, Contents

\* And what is behind it is of the same version, or spoils the segment.
LEMMA FetchRestInv == ASSUME StoreInv, NEW t \in Tasks, FetchRest(t) PROVE StoreInv'
<1> DEFINE object == file["cold"][call[t].seg]
<1>1. /\ call[t].pc = "read" /\ call[t].seg \in Segs /\ object \in Contents
      /\ call[t].bytes \in Contents /\ call[t].op \in {"get", "pin"}
  <2>1. call[t] \in Calls /\ call[t] # Idle /\ call[t].pc = "read"
    BY DEF StoreInv, StoreType, FetchRest, At, Idle
  <2> QED
    BY <2>1 DEF StoreInv, StoreType, Calls, Places, Tiers
<1>2. /\ call[t].bytes \notin {NoFile, Empty}
      /\ call[t].seg \notin spoiled => call[t].bytes \in published[call[t].seg]
  BY <1>1 DEF StoreInv, Carried, At
<1>3. PICK bytes \in Spliced(call[t].bytes, object) : Received(t, "truncate", bytes)
  BY DEF FetchRest
<1>4. bytes \in Contents /\ bytes \in {call[t].bytes, Torn} /\ bytes # NoFile
  BY <1>1, <1>2, <1>3, SplicedIs, StoreAssumption
<1> QED
  BY <1>1, <1>2, <1>3, <1>4, ReceivedInv

\* A file that is cut to nothing has its task at work on it.
LEMMA TruncateInv == ASSUME StoreInv, NEW t \in Tasks, Truncate(t) PROVE StoreInv'
<1> DEFINE tier == Kind(call[t].op)
           s == call[t].seg
<1>1. /\ call[t] \in Calls /\ call[t] # Idle /\ call[t].pc = "truncate"
      /\ call[t].op \in {"get", "pin", "upload"} /\ s \in Segs /\ tier \in Tiers
  <2>1. call[t] \in Calls /\ call[t] # Idle /\ call[t].pc = "truncate"
    BY DEF StoreInv, StoreType, Truncate, At, Idle
  <2> QED
    BY <2>1 DEF StoreInv, StoreType, Calls, Places, Kind, Tiers
<1>2. /\ file' = [file EXCEPT ![tier][s] = Empty]
      /\ call' = [call EXCEPT ![t].pc = "write"]
      /\ UNCHANGED <<cache, published, spoiled, alone>>
  BY DEF Truncate, Goto, Quiet
<1>3. /\ call'[t] \in Calls /\ call'[t] # Idle /\ call'[t].op = call[t].op /\ call'[t].seg = s
      /\ call'[t].pc = "write" /\ call'[t].bytes = call[t].bytes
      /\ \A u \in Tasks \ {t} : call'[u] = call[u]
      /\ call' \in [Tasks -> Calls \cup {Idle}]
  BY <1>1, <1>2 DEF Calls, Idle, StoreInv, StoreType
<1>4. /\ file' \in [Tiers -> [Segs -> Contents]] /\ file'[tier][s] = Empty
      /\ \A k \in Tiers, x \in Segs : k # tier \/ x # s => file'[k][x] = file[k][x]
  BY <1>1, <1>2 DEF StoreInv, StoreType, Contents
<1>5. /\ Filling(t, tier, s)'
      /\ \A u \in Tasks : \A x, k : Filling(u, k, x) => Filling(u, k, x)'
      /\ \A u \in Tasks : \A x : Refilling(u, x) => Refilling(u, x)'
  BY <1>1, <1>3 DEF Filling, Refilling, At
<1>6. StoreType'
  <2>1. "write" \in Places(call[t].op)
    BY <1>1 DEF Places
  <2> QED
    BY <1>1, <1>2, <1>3, <1>4, <2>1 DEF StoreInv, StoreType, At
<1>7. Whole'
  BY <1>2, <1>4, <1>5, <1>1 DEF StoreInv, Whole
<1>8. Kept'
  <2>1. \A x \in Segs : file["cold"][x] # NoFile => file'["cold"][x] # NoFile
    BY <1>1, <1>4, StoreAssumption DEF Tiers
  <2>2. \A u \in Tasks, x \in Segs : Refilling(u, x)' => file'["cache"][x] # NoFile
    <3> SUFFICES ASSUME NEW u \in Tasks, NEW x \in Segs, Refilling(u, x)'
                 PROVE  file'["cache"][x] # NoFile
      OBVIOUS
    <3>1. CASE u = t
      <4>1. tier = "cache" /\ x = s
        BY <1>3, <3>1 DEF Refilling, Kind
      <4> QED
        BY <1>4, <4>1, StoreAssumption
    <3>2. CASE u # t
      <4>1. file["cache"][x] # NoFile
        BY <1>3, <3>2 DEF Refilling, StoreInv, Kept
      <4> QED
        BY <1>4, <4>1, StoreAssumption DEF Tiers
    <3> QED
      BY <3>1, <3>2
  <2> QED
    BY <1>2, <2>1, <2>2 DEF StoreInv, Kept
<1>9. Carried'
  BY <1>1, <1>2, <1>3 DEF StoreInv, Carried, At
<1>10. Refilled'
  <2> SUFFICES ASSUME NEW x \in DOMAIN cache.segments \ spoiled
               PROVE  \/ cache.segments[x].mapped = file'["cache"][x]
                      \/ \E u \in Tasks : Refilling(u, x)'
    BY <1>2 DEF Refilled
  <2>1. x \in Segs
    BY DEF StoreInv, StoreType
  <2>2. CASE tier = "cache" /\ x = s
    <3>1. call[t].op = "get"
      BY <1>1, <2>2 DEF Kind
    <3>2. Refilling(t, x)'
      BY <1>3, <2>2, <3>1 DEF Refilling
    <3> QED
      BY <3>2
  <2>3. CASE tier # "cache" \/ x # s
    BY <1>4, <1>5, <2>1, <2>3 DEF StoreInv, Refilled, Tiers
  <2> QED
    BY <2>2, <2>3
<1>11. Undisturbed'
  <2> SUFFICES ASSUME NEW u \in Tasks, alone[u]
               PROVE  Calm(u)'
    BY <1>2 DEF Undisturbed
  <2>1. \A v \in Tasks : call'[v].seg = call[v].seg /\ (call'[v] = Idle <=> call[v] = Idle)
    BY <1>1, <1>3
  <2>2. CASE u = t
    BY <1>2, <1>3, <1>4, <2>1, <2>2 DEF StoreInv, Undisturbed, Calm, At
  <2>3. CASE u # t
    <3>1. call[u].seg # s /\ call[u] # Idle /\ call[u].seg \in Segs
      BY <2>3 DEF StoreInv, StoreType, Undisturbed, Calm, Calls
    <3> QED
      BY <1>2, <1>3, <1>4, <2>1, <2>3, <3>1 DEF StoreInv, Undisturbed, Calm, At, Tiers, Kind
  <2> QED
    BY <2>2, <2>3
<1> QED
  BY <1>6, <1>7, <1>8, <1>9, <1>10, <1>11 DEF StoreInv

\* A file that is written holds the version its task carried, or its segment is spoiled.
LEMMA WriteInv == ASSUME StoreInv, NEW t \in Tasks, Write(t) PROVE StoreInv'
<1> DEFINE tier == Kind(call[t].op)
           s == call[t].seg
<1>1. /\ call[t] \in Calls /\ call[t] # Idle /\ call[t].pc = "write"
      /\ call[t].op \in {"get", "pin", "upload"} /\ s \in Segs /\ tier \in Tiers
  <2>1. call[t] \in Calls /\ call[t] # Idle /\ call[t].pc = "write"
    BY DEF StoreInv, StoreType, Write, At, Idle
  <2> QED
    BY <2>1 DEF StoreInv, StoreType, Calls, Places, Kind, Tiers
<1>0. PICK content \in Spliced(call[t].bytes, file[tier][s]) :
         /\ file' = [file EXCEPT ![tier][s] = content]
         /\ spoiled' = IF content = Torn THEN spoiled \cup {s} ELSE spoiled
  BY DEF Write
<1>2. /\ content \in Contents /\ UNCHANGED cache
      /\ spoiled' \in SUBSET Segs /\ spoiled \subseteq spoiled' /\ spoiled' \subseteq spoiled \cup {s}
  <2>1. call[t].bytes \in Contents /\ file[tier][s] \in Contents
    BY <1>1 DEF StoreInv, StoreType, Calls
  <2> QED
    BY <1>0, <1>1, <2>1, SplicedIs DEF Write, StoreInv, StoreType
<1>3. /\ file' \in [Tiers -> [Segs -> Contents]] /\ file'[tier][s] = content
      /\ \A k \in Tiers, x \in Segs : k # tier \/ x # s => file'[k][x] = file[k][x]
  BY <1>0, <1>1, <1>2 DEF StoreInv, StoreType
<1>7. /\ s \notin spoiled' => content = call[t].bytes /\ content \in Versions
      /\ call[t].op = "get" => content # NoFile
      /\ call[t].op = "upload" => content # NoFile
  <2>1. call[t].bytes \in Contents /\ file[tier][s] \in Contents
    BY <1>1 DEF StoreInv, StoreType, Calls
  <2>2. s \notin spoiled => call[t].bytes \in Versions
    BY <1>1 DEF StoreInv, StoreType, Carried
  <2>3. call[t].op = "get" => call[t].bytes # NoFile /\ file[tier][s] # NoFile
    BY <1>1 DEF StoreInv, Kept, Carried, Refilling, Kind
  <2>4. call[t].op = "upload" => call[t].bytes \in Versions
    BY <1>1 DEF StoreInv, StoreType
  <2> QED
    BY <1>0, <2>1, <2>2, <2>3, <2>4, SplicedIs, StoreAssumption
<1>4. /\ tier = "cache" <=> call[t].op = "get"
      /\ tier = "cold" <=> call[t].op = "upload"
  BY <1>1 DEF Kind
<1>5. CASE call[t].op = "get"
  <2>1. /\ call' = [call EXCEPT ![t].pc = "map"]
        /\ UNCHANGED <<published, alone>>
    BY <1>5 DEF Write, Goto
  <2>2. /\ call'[t] \in Calls /\ call'[t] # Idle /\ call'[t].op = "get" /\ call'[t].seg = s
        /\ call'[t].pc = "map" /\ call'[t].bytes = call[t].bytes
        /\ \A u \in Tasks \ {t} : call'[u] = call[u]
        /\ call' \in [Tasks -> Calls \cup {Idle}]
    BY <1>1, <1>5, <2>1 DEF Calls, Idle, StoreInv, StoreType
  <2>3. /\ s \notin spoiled => call[t].bytes \in published[s]
        /\ \A u \in Tasks : \A x : Refilling(u, x) <=> Refilling(u, x)'
        /\ \A u \in Tasks : \A x, k : k # tier \/ x # s => (Filling(u, k, x) => Filling(u, k, x)')
    BY <1>1, <1>5, <2>2 DEF StoreInv, Carried, Refilling, Filling, At
  <2>4. StoreType'
    <3>1. "map" \in Places("get")
      BY DEF Places
    <3> QED
      BY <1>2, <1>3, <2>1, <2>2, <3>1 DEF StoreInv, StoreType, At
  <2>5. Whole'
    BY <1>1, <1>2, <1>3, <1>7, <2>1, <2>3, StoreAssumption DEF StoreInv, StoreType, Whole
  <2>6. Kept'
    BY <1>1, <1>3, <1>4, <1>5, <1>7, <2>1, <2>3 DEF StoreInv, Kept, Tiers
  <2>7. Carried'
    BY <1>1, <1>2, <1>5, <2>1, <2>2 DEF StoreInv, Carried, At
  <2>8. Refilled'
    <3> SUFFICES ASSUME NEW x \in DOMAIN cache.segments \ spoiled'
                 PROVE  \/ cache.segments[x].mapped = file'["cache"][x]
                        \/ \E u \in Tasks : Refilling(u, x)'
      BY <1>2 DEF Refilled
    <3>1. x \in Segs
      BY DEF StoreInv, StoreType
    <3>2. CASE x = s
      <4>1. Refilling(t, x)'
        BY <2>2, <3>2 DEF Refilling
      <4> QED
        BY <4>1
    <3>3. CASE x # s
      BY <1>2, <1>3, <2>3, <3>1, <3>3 DEF StoreInv, Refilled, Tiers
    <3> QED
      BY <3>2, <3>3
  <2>9. Undisturbed'
    <3> SUFFICES ASSUME NEW u \in Tasks, alone[u]
                 PROVE  Calm(u)'
      BY <2>1 DEF Undisturbed
    <3>1. \A v \in Tasks : call'[v].seg = call[v].seg /\ (call'[v] = Idle <=> call[v] = Idle)
      BY <1>1, <2>2
    <3>2. CASE u = t
      BY <1>2, <1>3, <1>4, <1>5, <1>7, <2>2, <3>1, <3>2 DEF StoreInv, Undisturbed, Calm, At
    <3>3. CASE u # t
      <4>1. call[u].seg # s /\ call[u] # Idle /\ call[u].seg \in Segs
        BY <3>3 DEF StoreInv, StoreType, Undisturbed, Calm, Calls
      <4> QED
        BY <1>2, <1>3, <2>2, <3>1, <3>3, <4>1 DEF StoreInv, Undisturbed, Calm, At, Tiers, Kind
    <3> QED
      BY <3>2, <3>3
  <2> QED
    BY <2>4, <2>5, <2>6, <2>7, <2>8, <2>9 DEF StoreInv
<1>6. CASE call[t].op # "get"
  <2>1. /\ Done(t)
        /\ published' = IF call[t].op = "upload" THEN [published EXCEPT ![s] = @ \cup {call[t].bytes}]
                        ELSE published
    BY <1>6 DEF Write
  <2>2. /\ call'[t] = Idle /\ \A u \in Tasks \ {t} : call'[u] = call[u]
        /\ call' \in [Tasks -> Calls \cup {Idle}]
        /\ alone' \in [Tasks -> BOOLEAN] /\ ~alone'[t] /\ \A u \in Tasks \ {t} : alone'[u] = alone[u]
    BY <2>1 DEF Done, StoreInv, StoreType
  <2>3. /\ published' \in [Segs -> SUBSET Versions]
        /\ \A x \in Segs : published[x] \subseteq published'[x]
        /\ \A x \in Segs \ {s} : published[x] = published'[x]
        /\ s \notin spoiled => call[t].bytes \in published'[s]
        /\ call[t].op = "upload" \/ published' = published
    BY <1>1, <1>6, <2>1 DEF StoreInv, StoreType, Carried
  <2>4. /\ \A u \in Tasks : \A x : Refilling(u, x) <=> Refilling(u, x)'
        /\ \A u \in Tasks : \A x, k : k # tier \/ x # s => (Filling(u, k, x) => Filling(u, k, x)')
    BY <1>1, <1>6, <2>2 DEF Refilling, Filling, At, Idle
  <2>5. StoreType'
    BY <1>2, <1>3, <2>2, <2>3 DEF StoreInv, StoreType, At
  <2>6. Whole'
    BY <1>1, <1>2, <1>3, <1>7, <2>3, <2>4, StoreAssumption DEF StoreInv, StoreType, Whole
  <2>7. Kept'
    BY <1>1, <1>3, <1>4, <1>6, <1>7, <2>3, <2>4 DEF StoreInv, Kept, Tiers
  <2>8. Carried'
    <3> SUFFICES ASSUME NEW u \in Tasks, call'[u].op \in {"get", "pin"},
                        call'[u].pc \in {"read", "truncate", "write", "map", "put"}
                 PROVE  /\ call'[u].bytes # NoFile
                        /\ call'[u].pc = "read" => call'[u].bytes # Empty
                        /\ call'[u].seg \notin spoiled' => call'[u].bytes \in published'[call'[u].seg]
      BY DEF Carried, At
    <3>1. u # t /\ call'[u] = call[u]
      BY <2>2 DEF Idle
    <3>2. call[u] \in Calls
      BY <3>1 DEF StoreInv, StoreType, Idle
    <3> QED
      BY <1>2, <2>3, <3>1, <3>2 DEF StoreInv, Carried, Calls, At
  <2>9. Refilled'
    BY <1>2, <1>3, <1>4, <1>6, <2>4 DEF StoreInv, StoreType, Refilled, Tiers
  <2>10. Undisturbed'
    <3> SUFFICES ASSUME NEW u \in Tasks, alone'[u]
                 PROVE  Calm(u)'
      BY DEF Undisturbed
    <3>1. u # t /\ Calm(u) /\ call'[u] = call[u]
      BY <2>2 DEF StoreInv, Undisturbed
    <3>2. call[u].seg # s /\ call[u].seg \in Segs
      BY <3>1 DEF StoreInv, StoreType, Calm, Calls
    <3>3. \A v \in Tasks \ {u} : call'[v].seg # call[u].seg
      BY <2>2, <3>1, <3>2, StoreAssumption DEF Calm, Idle
    <3> QED
      BY <1>2, <1>3, <3>1, <3>2, <3>3 DEF Calm, At, Tiers, Kind
  <2> QED
    BY <2>5, <2>6, <2>7, <2>8, <2>9, <2>10 DEF StoreInv
<1> QED
  BY <1>5, <1>6

\* A write that fails spoils its segment.
LEMMA WriteFailsInv == ASSUME StoreInv, NEW t \in Tasks, WriteFails(t) PROVE StoreInv'
<1> DEFINE tier == Kind(call[t].op)
           s == call[t].seg
<1>1. /\ call[t] \in Calls /\ call[t].pc = "write" /\ s \in Segs /\ tier \in Tiers
  <2>1. call[t] \in Calls /\ call[t].pc = "write"
    BY DEF StoreInv, StoreType, WriteFails, At, Idle
  <2> QED
    BY <2>1 DEF Calls, Kind, Tiers
<1>2. PICK left \in {file[tier][s], Torn} : file' = [file EXCEPT ![tier][s] = left]
  BY DEF WriteFails
<1>3. spoiled' = spoiled \cup {s} /\ Done(t) /\ UNCHANGED <<cache, published>>
  BY DEF WriteFails
<1>4. /\ file' \in [Tiers -> [Segs -> Contents]] /\ file'[tier][s] = left
      /\ \A k \in Tiers, x \in Segs : k # tier \/ x # s => file'[k][x] = file[k][x]
  BY <1>1, <1>2 DEF StoreInv, StoreType, Contents
<1>5. /\ call'[t] = Idle /\ \A u \in Tasks \ {t} : call'[u] = call[u]
      /\ call' \in [Tasks -> Calls \cup {Idle}]
      /\ alone' \in [Tasks -> BOOLEAN] /\ ~alone'[t] /\ \A u \in Tasks \ {t} : alone'[u] = alone[u]
  BY <1>3 DEF Done, StoreInv, StoreType
<1>6. \A u \in Tasks : \A x : x # s =>
         /\ Refilling(u, x) <=> Refilling(u, x)'
         /\ \A k : Filling(u, k, x) <=> Filling(u, k, x)'
  BY <1>5 DEF Refilling, Filling, At, Idle
<1>7. StoreType'
  BY <1>1, <1>3, <1>4, <1>5 DEF StoreInv, StoreType, At
<1>8. Whole'
  BY <1>3, <1>4, <1>6 DEF StoreInv, Whole
<1>9. Kept'
  <2>1. \A k \in Tiers, x \in Segs : file[k][x] # NoFile => file'[k][x] # NoFile
    BY <1>1, <1>2, <1>4, StoreAssumption
  <2>2. \A u \in Tasks : \A x : Refilling(u, x)' => Refilling(u, x)
    BY <1>5 DEF Refilling, Idle
  <2> QED
    BY <1>3, <2>1, <2>2 DEF StoreInv, Kept, Tiers
<1>10. Carried'
  BY <1>3, <1>5 DEF StoreInv, Carried, Idle, At
<1>11. Refilled'
  BY <1>3, <1>4, <1>6 DEF StoreInv, StoreType, Refilled, Tiers
<1>12. Undisturbed'
  <2> SUFFICES ASSUME NEW u \in Tasks, alone'[u]
               PROVE  Calm(u)'
    BY DEF Undisturbed
  <2>1. u # t /\ Calm(u) /\ call'[u] = call[u]
    BY <1>5 DEF StoreInv, Undisturbed
  <2>2. call[u].seg # s /\ call[u].seg \in Segs
    BY <2>1 DEF StoreInv, StoreType, Calm, Calls
  <2>3. \A v \in Tasks \ {u} : call'[v].seg # call[u].seg
    BY <1>5, <2>1, <2>2, StoreAssumption DEF Calm, Idle
  <2> QED
    BY <1>3, <1>4, <2>1, <2>2, <2>3 DEF Calm, At, Tiers, Kind
<1> QED
  BY <1>7, <1>8, <1>9, <1>10, <1>11, <1>12 DEF StoreInv

\* A cache file is mapped after it was written.
LEMMA MapCachedInv == ASSUME StoreInv, NEW t \in Tasks, MapCached(t) PROVE StoreInv'
<1> DEFINE s == call[t].seg
           mapped == Mapped(file["cache"][s])
<1>1. /\ call[t] \in Calls /\ call[t] # Idle /\ call[t].pc = "map"
      /\ call[t].op = "get" /\ s \in Segs
  <2>1. call[t] \in Calls /\ call[t] # Idle /\ call[t].pc = "map"
    BY DEF StoreInv, StoreType, MapCached, At, Idle
  <2> QED
    BY <2>1 DEF StoreInv, StoreType, Calls, Places
<1>2. file["cache"][s] # NoFile /\ file["cache"][s] \in Contents
  BY <1>1 DEF StoreInv, Kept, Refilling, StoreType, Tiers
<1>3. CASE mapped = Failed
  <2>1. Done(t) /\ Rest
    BY <1>3 DEF MapCached, Answer, Rest
  <2>2. file["cache"][s] = Empty
    BY <1>2, <1>3, StoreAssumption DEF Mapped, Contents
  <2> QED
    BY <1>1, <2>1, <2>2, QuitInv DEF Refilling
<1>4. CASE mapped # Failed
  <2>1. /\ call' = [call EXCEPT ![t].pc = "put", ![t].mapped = mapped]
        /\ UNCHANGED <<file, cache, published, spoiled, alone>>
    BY <1>4 DEF MapCached, Quiet
  <2>2. mapped = file["cache"][s] /\ mapped \in Seen /\ mapped \in Contents
    BY <1>2, <1>4 DEF Mapped, Seen, Contents
  <2>3. /\ call'[t] \in Calls /\ call'[t] # Idle /\ call'[t].op = "get" /\ call'[t].seg = s
        /\ call'[t].pc = "put" /\ call'[t].mapped = mapped /\ call'[t].bytes = call[t].bytes
        /\ \A u \in Tasks \ {t} : call'[u] = call[u]
        /\ call' \in [Tasks -> Calls \cup {Idle}]
    <3> HIDE DEF mapped
    <3> QED
      BY <1>1, <2>1, <2>2 DEF Calls, Idle, StoreInv, StoreType
  <2> HIDE DEF mapped
  <2>4. \A u \in Tasks :
           /\ call'[u].seg = call[u].seg /\ (call'[u] = Idle <=> call[u] = Idle)
           /\ \A x : Refilling(u, x)' <=> Refilling(u, x)
           /\ \A x, tier : Filling(u, tier, x)' <=> Filling(u, tier, x)
    BY <1>1, <2>3 DEF Refilling, Filling, At
  <2>5. StoreType'
    <3>1. "put" \in Places("get")
      BY DEF Places
    <3> QED
      BY <2>1, <2>2, <2>3, <3>1 DEF StoreInv, StoreType, At
  <2>6. Whole' /\ Kept' /\ Refilled'
    BY <2>1, <2>4 DEF StoreInv, Whole, Kept, Refilled
  <2>7. Carried'
    BY <1>1, <2>1, <2>3 DEF StoreInv, Carried, At
  <2>8. Undisturbed'
    <3> SUFFICES ASSUME NEW u \in Tasks, alone[u]
                 PROVE  Calm(u)'
      BY <2>1 DEF Undisturbed
    <3>1. CASE u = t
      BY <1>1, <2>1, <2>2, <2>3, <2>4, <3>1 DEF StoreInv, Undisturbed, Calm, At
    <3>2. CASE u # t
      BY <2>1, <2>3, <2>4, <3>2 DEF StoreInv, Undisturbed, Calm, At
    <3> QED
      BY <3>1, <3>2
  <2> QED
    BY <2>5, <2>6, <2>7, <2>8 DEF StoreInv
<1> QED
  BY <1>3, <1>4

\* The cache takes the mapping, whatever it evicts for it.
LEMMA PutCachedInv == ASSUME StoreInv, NEW t \in Tasks, PutCached(t) PROVE StoreInv'
<1> DEFINE s == call[t].seg
           mapped == Mapped(file["cache"][s])
<1>1. /\ call[t] \in Calls /\ call[t] # Idle /\ call[t].pc = "put"
      /\ call[t].op = "get" /\ s \in Segs
  <2>1. call[t] \in Calls /\ call[t] # Idle /\ call[t].pc = "put"
    BY DEF StoreInv, StoreType, PutCached, At, Idle
  <2> QED
    BY <2>1 DEF StoreInv, StoreType, Calls, Places
<1>2. file["cache"][s] # NoFile /\ file["cache"][s] \in Contents
  BY <1>1 DEF StoreInv, Kept, Refilling, StoreType, Tiers
<1>3. CASE mapped = Failed
  <2>1. Done(t) /\ Rest
    BY <1>3 DEF PutCached, Answer, Rest
  <2>2. file["cache"][s] = Empty
    BY <1>2, <1>3, StoreAssumption DEF Mapped, Contents
  <2> QED
    BY <1>1, <2>1, <2>2, QuitInv DEF Refilling
<1>4. CASE mapped # Failed
  <2>1. /\ cache' = LruPut(s, mapped, Size(call[t].bytes)) /\ Done(t)
        /\ UNCHANGED <<file, published, spoiled>>
    BY <1>4 DEF PutCached, Answer
  <2>2. mapped = file["cache"][s] /\ mapped \in Seen
    BY <1>2, <1>4 DEF Mapped, Seen, Contents
  <2> HIDE DEF mapped
  <2>3. /\ DOMAIN cache' = {"segments", "order", "current"}
        /\ DOMAIN cache'.segments \subseteq DOMAIN cache.segments \cup {s}
        /\ s \in DOMAIN cache'.segments /\ cache'.segments[s].mapped = mapped
        /\ \A x \in DOMAIN cache'.segments \ {s} : cache'.segments[x] = cache.segments[x]
    BY <2>1, PutKeeps
  <2>4. /\ call'[t] = Idle /\ \A u \in Tasks \ {t} : call'[u] = call[u]
        /\ call' \in [Tasks -> Calls \cup {Idle}]
        /\ alone' \in [Tasks -> BOOLEAN] /\ ~alone'[t] /\ \A u \in Tasks \ {t} : alone'[u] = alone[u]
    BY <2>1 DEF Done, StoreInv, StoreType
  <2>5. StoreType'
    BY ZenonT(30), <1>1, <2>1, <2>2, <2>3, <2>4 DEF StoreInv, StoreType, At
  <2>6. Whole'
    BY <1>1, <2>1, <2>4 DEF StoreInv, Whole, Filling, At, Idle
  <2>7. Kept'
    BY <2>1, <2>4 DEF StoreInv, Kept, Refilling, Idle
  <2>8. Carried'
    BY <2>1, <2>4 DEF StoreInv, Carried, Idle, At
  <2>9. Refilled'
    <3> SUFFICES ASSUME NEW x \in DOMAIN cache'.segments \ spoiled, x # s
                 PROVE  \/ cache'.segments[x].mapped = file["cache"][x]
                        \/ \E u \in Tasks : Refilling(u, x)'
      BY <2>1, <2>2, <2>3 DEF Refilled
    <3>1. x \in DOMAIN cache.segments /\ cache'.segments[x] = cache.segments[x]
      BY <2>3
    <3>2. CASE cache.segments[x].mapped = file["cache"][x]
      BY <3>1, <3>2
    <3>3. ASSUME NEW u \in Tasks, Refilling(u, x) PROVE Refilling(u, x)'
      BY <2>4, <3>3 DEF Refilling
    <3> QED
      BY <3>1, <3>2, <3>3 DEF StoreInv, Refilled
  <2>10. Undisturbed'
    <3> SUFFICES ASSUME NEW u \in Tasks, alone'[u]
                 PROVE  Calm(u)'
      BY DEF Undisturbed
    <3>1. u # t /\ Calm(u) /\ call'[u] = call[u]
      BY <2>4 DEF StoreInv, Undisturbed
    <3>2. call[u].seg \in Segs
      BY <3>1 DEF StoreInv, StoreType, Calm, Calls
    <3>3. \A v \in Tasks \ {u} : call'[v].seg # call[u].seg
      BY <2>4, <3>1, <3>2, StoreAssumption DEF Calm, Idle
    <3> QED
      BY <2>1, <3>1, <3>3 DEF Calm, At
  <2> QED
    BY <2>5, <2>6, <2>7, <2>8, <2>9, <2>10 DEF StoreInv
<1> QED
  BY <1>3, <1>4

\* The hot file goes with unpin, and the store keeps the version.
LEMMA RemoveHotInv == ASSUME StoreInv, NEW t \in Tasks, RemoveHot(t) PROVE StoreInv'
<1> DEFINE s == call[t].seg
           pinning == {u \in Tasks : At(u, "write") /\ call[u].op = "pin" /\ call[u].seg = s}
<1>1. call[t] \in Calls /\ call[t].pc = "remove" /\ s \in Segs
  BY DEF StoreInv, StoreType, RemoveHot, At, Idle, Calls
<1>2. /\ file' = [file EXCEPT !["hot"][s] = NoFile]
      /\ call' = [u \in Tasks |-> IF u = t THEN Idle
                                 ELSE IF u \in pinning THEN [call[u] EXCEPT !.pc = "orphan"]
                                 ELSE call[u]]
      /\ alone' = [alone EXCEPT ![t] = FALSE] /\ UNCHANGED <<cache, published, spoiled>>
  BY DEF RemoveHot
<1>3. /\ file' \in [Tiers -> [Segs -> Contents]] /\ file'["hot"][s] = NoFile
      /\ \A k \in Tiers, x \in Segs : k # "hot" \/ x # s => file'[k][x] = file[k][x]
  BY <1>1, <1>2 DEF StoreInv, StoreType, Contents, Tiers
<1>4. /\ call'[t] = Idle /\ \A u \in Tasks \ {t} : u \notin pinning => call'[u] = call[u]
      /\ alone' \in [Tasks -> BOOLEAN] /\ ~alone'[t] /\ \A u \in Tasks \ {t} : alone'[u] = alone[u]
  BY <1>2 DEF StoreInv, StoreType
<1>5. \A u \in pinning :
         /\ call[u] \in Calls /\ call[u].pc = "write" /\ call[u].op = "pin" /\ call[u].seg = s
         /\ u # t /\ call'[u] = [call[u] EXCEPT !.pc = "orphan"]
  BY <1>1, <1>2 DEF StoreInv, StoreType, At, Idle
<1>6. \A u \in pinning :
         /\ call'[u] \in Calls /\ call'[u].op = "pin" /\ call'[u].seg = s
         /\ call'[u].pc = "orphan" /\ call'[u].bytes = call[u].bytes
  <2> SUFFICES ASSUME NEW u \in pinning
               PROVE  /\ call'[u] \in Calls /\ call'[u].op = "pin" /\ call'[u].seg = s
                      /\ call'[u].pc = "orphan" /\ call'[u].bytes = call[u].bytes
    OBVIOUS
  <2>1. /\ call[u] \in Calls /\ call[u].op = "pin" /\ call[u].seg = s
        /\ call'[u] = [call[u] EXCEPT !.pc = "orphan"]
    BY <1>5
  <2> QED
    BY <2>1 DEF Calls
<1>7. \A u \in Tasks : \A x :
         /\ Refilling(u, x) <=> Refilling(u, x)'
         /\ \A k : Filling(u, k, x) /\ (k # "hot" \/ x # s) => Filling(u, k, x)'
  <2> SUFFICES ASSUME NEW u \in Tasks, NEW x
               PROVE  /\ Refilling(u, x) <=> Refilling(u, x)'
                      /\ \A k : Filling(u, k, x) /\ (k # "hot" \/ x # s) => Filling(u, k, x)'
    OBVIOUS
  <2>1. CASE u = t
    BY <1>1, <1>4, <2>1 DEF Refilling, Filling, At, Idle
  <2>2. CASE u \in pinning
    BY <1>5, <1>6, <2>2 DEF Refilling, Filling, At, Kind
  <2>3. CASE u # t /\ u \notin pinning
    BY <1>4, <2>3 DEF Refilling, Filling, At
  <2> QED
    BY <2>1, <2>2, <2>3
<1>8. StoreType'
  <2>1. call' \in [Tasks -> Calls \cup {Idle}]
    BY <1>2, <1>4, <1>5, <1>6 DEF StoreInv, StoreType
  <2>2. \A u \in Tasks : call'[u] # Idle =>
           /\ call'[u].pc \in Places(call'[u].op)
           /\ call'[u].op = "upload" => call'[u].bytes \in Versions
           /\ call'[u].pc = "put" => call'[u].mapped \in Seen
    <3> SUFFICES ASSUME NEW u \in Tasks, call'[u] # Idle
                 PROVE  /\ call'[u].pc \in Places(call'[u].op)
                        /\ call'[u].op = "upload" => call'[u].bytes \in Versions
                        /\ call'[u].pc = "put" => call'[u].mapped \in Seen
      OBVIOUS
    <3>1. CASE u \in pinning
      BY <1>6, <3>1 DEF Places
    <3>2. CASE u \notin pinning
      BY <1>4, <3>2 DEF StoreInv, StoreType, At
    <3> QED
      BY <3>1, <3>2
  <2> QED
    BY <1>2, <1>3, <1>4, <2>1, <2>2 DEF StoreInv, StoreType, At
<1>9. Whole'
  <2> SUFFICES ASSUME NEW tier \in Tiers, NEW x \in Segs \ spoiled
               PROVE  /\ file'[tier][x] \in published[x] \cup {NoFile, Empty}
                      /\ file'[tier][x] = Empty => \E u \in Tasks : Filling(u, tier, x)'
    BY <1>2 DEF Whole
  <2>1. CASE tier = "hot" /\ x = s
    BY <1>3, <2>1, StoreAssumption
  <2>2. CASE tier # "hot" \/ x # s
    BY <1>3, <1>7, <2>2 DEF StoreInv, Whole
  <2> QED
    BY <2>1, <2>2
<1>10. Kept' /\ Refilled'
  BY <1>2, <1>3, <1>7 DEF StoreInv, StoreType, Kept, Refilled, Tiers
<1>11. Carried'
  <2> SUFFICES ASSUME NEW u \in Tasks, call'[u].op \in {"get", "pin"},
                      call'[u].pc \in {"read", "truncate", "write", "map", "put"}
               PROVE  /\ call'[u].bytes # NoFile
                      /\ call'[u].pc = "read" => call'[u].bytes # Empty
                      /\ call'[u].seg \notin spoiled => call'[u].bytes \in published[call'[u].seg]
    BY <1>2 DEF Carried, At
  <2>1. call'[u] = call[u]
    BY <1>4, <1>6 DEF Idle
  <2> QED
    BY <2>1 DEF StoreInv, Carried, At
<1>12. Undisturbed'
  <2> SUFFICES ASSUME NEW u \in Tasks, alone'[u]
               PROVE  Calm(u)'
    BY DEF Undisturbed
  <2>1. u # t /\ Calm(u)
    BY <1>4 DEF StoreInv, Undisturbed
  <2>2. call[u].seg # s /\ call[u].seg \in Segs
    BY <2>1 DEF StoreInv, StoreType, Calm, Calls
  <2>3. call'[u] = call[u]
    BY <1>4, <2>1, <2>2
  <2>4. \A v \in Tasks \ {u} : call'[v].seg \in {call[v].seg, NoSeg}
    BY <1>4, <1>5, <1>6 DEF Idle
  <2>5. \A v \in Tasks \ {u} : call'[v].seg # call[u].seg
    BY <2>1, <2>2, <2>4, StoreAssumption DEF Calm
  <2> QED
    BY <1>2, <1>3, <2>1, <2>2, <2>3, <2>5 DEF Calm, At, Tiers, Kind
<1> QED
  BY <1>8, <1>9, <1>10, <1>11, <1>12 DEF StoreInv

\* A pin of a removed file ends, and has written nothing that can be found.
LEMMA WriteOrphanInv == ASSUME StoreInv, NEW t \in Tasks, WriteOrphan(t) PROVE StoreInv'
  BY QuitInv DEF WriteOrphan, At, Answer, Refilling, Rest

\* A new call begins at its first place, with what it was asked.
LEMMA CallInv ==
    ASSUME StoreInv, NEW t \in Tasks, NEW r \in Requests, Call(t, r)
    PROVE  StoreInv'
<1>1. /\ r.op \in {"get", "pin", "unpin", "upload"} /\ r.seg \in Segs /\ r.bytes \in Contents
      /\ r.op = "upload" => r.bytes \in Versions
  BY StoreAssumption DEF Contents
<1>2. /\ call[t] = Idle /\ UNCHANGED <<file, cache, published, spoiled>>
      /\ call' = [call EXCEPT ![t] = [op |-> r.op, seg |-> r.seg, pc |-> Start(r.op),
                                    bytes |-> r.bytes, mapped |-> NoFile]]
      /\ alone' = [u \in Tasks |->
                      IF u = t THEN \A w \in Tasks \ {t} : call[w].seg # r.seg
                      ELSE alone[u] /\ call[u].seg # r.seg]
  BY DEF Call
<1>3. /\ call'[t] \in Calls /\ call'[t] # Idle /\ call'[t].op = r.op /\ call'[t].seg = r.seg
      /\ call'[t].pc = Start(r.op) /\ call'[t].bytes = r.bytes
      /\ \A u \in Tasks \ {t} : call'[u] = call[u]
      /\ call' \in [Tasks -> Calls \cup {Idle}]
  BY <1>1, <1>2 DEF Calls, Idle, Start, StoreInv, StoreType, Contents
<1>4. Start(r.op) \in Places(r.op) /\ Start(r.op) \in {"check", "truncate"}
      /\ (Start(r.op) = "truncate" => r.op = "upload")
  BY <1>1 DEF Start, Places
<1>5. \A u \in Tasks : \A x :
         /\ Refilling(u, x) <=> Refilling(u, x)'
         /\ \A k : Filling(u, k, x) <=> Filling(u, k, x)'
  BY <1>2, <1>3, <1>4 DEF Refilling, Filling, At, Idle
<1>6. StoreType'
  BY <1>1, <1>2, <1>3, <1>4 DEF StoreInv, StoreType, At
<1>7. Whole' /\ Kept' /\ Refilled'
  BY <1>2, <1>5 DEF StoreInv, Whole, Kept, Refilled
<1>8. Carried'
  BY <1>2, <1>3, <1>4 DEF StoreInv, Carried, At
<1>9. Undisturbed'
  <2> SUFFICES ASSUME NEW u \in Tasks, alone'[u]
               PROVE  Calm(u)'
    BY DEF Undisturbed
  <2>1. CASE u = t
    <3>1. \A w \in Tasks \ {t} : call'[w].seg # r.seg
      BY <1>2, <1>3, <2>1
    <3> QED
      BY <1>3, <1>4, <2>1, <3>1 DEF Calm, At
  <2>2. CASE u # t
    <3>1. Calm(u) /\ call[u].seg # r.seg /\ call'[u] = call[u]
      BY <1>2, <1>3, <2>2 DEF StoreInv, Undisturbed
    <3>2. \A w \in Tasks \ {u} : call'[w].seg # call[u].seg
      BY <1>3, <3>1 DEF Calm
    <3> QED
      BY <1>2, <3>1, <3>2 DEF Calm, At
  <2> QED
    BY <2>1, <2>2
<1> QED
  BY <1>6, <1>7, <1>8, <1>9 DEF StoreInv

\* A cleared cache maps nothing.
LEMMA ClearInv == ASSUME StoreInv, Clear PROVE StoreInv'
<1>1. /\ UNCHANGED <<file, call, published, spoiled, alone>>
      /\ cache'.segments = <<>> /\ DOMAIN cache' = {"segments", "order", "current"}
  BY DEF Clear, Quiet, NewCache
<1>2. DOMAIN cache'.segments = {}
  BY <1>1
<1>3. StoreType'
  BY <1>1, <1>2 DEF StoreInv, StoreType, At
<1>4. Whole' /\ Kept' /\ Carried' /\ Undisturbed'
  BY <1>1 DEF StoreInv, Whole, Filling, Kept, Refilling, Carried, Undisturbed, Calm, At
<1>5. Refilled'
  BY <1>2 DEF Refilled
<1> QED
  BY <1>3, <1>4, <1>5 DEF StoreInv

\* What a lost process leaves half written is spoiled.
LEMMA CrashInv == ASSUME StoreInv, Crash PROVE StoreInv'
<1> DEFINE cut == {<<Kind(call[t].op), call[t].seg>> : t \in {u \in Tasks : At(u, "write")}}
<1>1. PICK partly \in SUBSET cut :
         file' = [kind \in DOMAIN file |-> [s \in Segs |->
                    IF <<kind, s>> \in partly THEN Torn ELSE file[kind][s]]]
  BY DEF Crash
<1>2. /\ cache' = NewCache /\ call' = [t \in Tasks |-> Idle] /\ alone' = [t \in Tasks |-> FALSE]
      /\ spoiled' = spoiled \cup {k[2] : k \in cut} /\ UNCHANGED published
  BY DEF Crash
<1>3. spoiled' \in SUBSET Segs /\ spoiled \subseteq spoiled'
  <2>1. \A t \in Tasks : At(t, "write") => call[t].seg \in Segs
    BY DEF StoreInv, StoreType, At, Calls, Idle
  <2> QED
    BY <1>2, <2>1 DEF StoreInv, StoreType
<1>4. \A t \in Tasks : At(t, "write") => call[t].seg \in spoiled'
  <2> SUFFICES ASSUME NEW t \in Tasks, At(t, "write") PROVE call[t].seg \in spoiled'
    OBVIOUS
  <2>1. <<Kind(call[t].op), call[t].seg>> \in cut
    OBVIOUS
  <2> HIDE DEF cut
  <2>2. <<Kind(call[t].op), call[t].seg>>[2] \in {k[2] : k \in cut}
    BY <2>1
  <2> QED
    BY <1>2, <2>2
<1>5. \A tier \in Tiers, s \in Segs :
         /\ file'[tier][s] \in {file[tier][s], Torn}
         /\ s \notin spoiled' => file'[tier][s] = file[tier][s]
  <2> SUFFICES ASSUME NEW tier \in Tiers, NEW s \in Segs
               PROVE  /\ file'[tier][s] = IF <<tier, s>> \in partly THEN Torn ELSE file[tier][s]
                      /\ <<tier, s>> \in partly => s \in spoiled'
    OBVIOUS
  <2>1. file'[tier][s] = IF <<tier, s>> \in partly THEN Torn ELSE file[tier][s]
    BY <1>1 DEF StoreInv, StoreType
  <2>2. ASSUME <<tier, s>> \in partly PROVE s \in spoiled'
    <3>1. <<tier, s>> \in cut
      BY <2>2
    <3>2. <<tier, s>>[2] \in {k[2] : k \in cut}
      <4> HIDE DEF cut
      <4> QED
        BY <3>1
    <3> QED
      BY <1>2, <3>2
  <2> QED
    BY <2>1, <2>2
<1>6. StoreType'
  <2>1. file' \in [Tiers -> [Segs -> Contents]]
    BY <1>1 DEF StoreInv, StoreType, Contents
  <2> QED
    BY <1>2, <1>3, <2>1 DEF StoreInv, StoreType, NewCache
<1>7. Whole'
  BY <1>2, <1>3, <1>4, <1>5 DEF StoreInv, Whole, Filling
<1>8. Kept'
  BY <1>2, <1>5, StoreAssumption DEF StoreInv, Kept, Refilling, Idle, Tiers
<1>9. Carried' /\ Refilled' /\ Undisturbed'
  BY <1>2 DEF Carried, Refilled, Undisturbed, Idle, NewCache
<1> QED
  BY <1>6, <1>7, <1>8, <1>9 DEF StoreInv

\* StoreInv is inductive.
LEMMA StepInv == StoreInv /\ [Next]_vars => StoreInv'
<1> SUFFICES ASSUME StoreInv, [Next]_vars PROVE StoreInv'
  OBVIOUS
<1>1. ASSUME NEW t \in Tasks, NEW r \in Requests, Call(t, r) PROVE StoreInv'
  BY <1>1, CallInv
<1>2. ASSUME NEW t \in Tasks, Step(t) PROVE StoreInv'
  BY <1>2, CheckHotInv, MapHotInv, LookWarmInv, FetchInv, TruncateInv, WriteInv, WriteFailsInv,
     MapCachedInv, PutCachedInv, RemoveHotInv, FetchRestInv, WriteOrphanInv DEF Step
<1>3. CASE Clear
  BY <1>3, ClearInv
<1>4. CASE Crash
  BY <1>4, CrashInv
<1>5. CASE UNCHANGED vars
  BY <1>5 DEF vars, StoreInv, StoreType, Whole, Filling, Kept, Refilling, Carried, Refilled,
     Undisturbed, Calm, At
<1> QED
  BY <1>1, <1>2, <1>3, <1>4, <1>5 DEF Next

\* The invariant holds of every reachable state of the store.
LEMMA InvHolds == Spec => []StoreInv
  BY InitInv, StepInv, PTL DEF Spec

-----------------------------------------------------------------------------
(* The refinement *)

asked == [t \in Tasks |-> call[t].seg]

\* The store begins as the service does.
LEMMA ServiceInit == Init => Service!Init
  BY StoreAssumption DEF Init, Service!Init, Idle

\* A step that only moves a call, as seen from outside
LEMMA QuietStep ==
    ASSUME UNCHANGED asked, Quiet
    PROVE  Service!Next
  BY DEF asked, Quiet, Service!Next, Service!Quiet

\* A call that ends is no longer asked
LEMMA DoneAsked ==
    ASSUME StoreInv, NEW t \in Tasks, call[t] # Idle, Done(t)
    PROVE  /\ asked[t] # NoSeg
           /\ asked' = [asked EXCEPT ![t] = NoSeg]
  BY StoreAssumption DEF asked, Done, StoreInv, StoreType, Calls, Idle

\* A call that returns nothing but an error, and is no read
LEMMA FinishStep ==
    ASSUME StoreInv, NEW t \in Tasks, call[t] # Idle, Done(t), answer' = {},
           \/ UNCHANGED <<published, spoiled>>
           \/ spoiled' \in {spoiled, spoiled \cup {call[t].seg}} /\ UNCHANGED published
    PROVE  Service!Next
<1>1. asked[t] # NoSeg /\ asked' = [asked EXCEPT ![t] = NoSeg] /\ asked[t] = call[t].seg
  BY DoneAsked DEF asked
<1>2. Service!Finish(t)
  BY <1>1 DEF Service!Finish, Done, asked
<1> QED
  BY <1>2 DEF Service!Next

\* A read that answers what was promised
LEMMA ReturnStep ==
    ASSUME StoreInv, NEW t \in Tasks, NEW a \in Service!Promised(t), call[t] # Idle,
           call[t].op = "get", Answer(t, a)
    PROVE  Service!Next
<1>1. asked[t] # NoSeg /\ asked' = [asked EXCEPT ![t] = NoSeg]
  BY DoneAsked DEF Answer
<1>2. Service!Return(t)
  BY <1>1 DEF Service!Return, Answer, Done, asked
<1> QED
  BY <1>2 DEF Service!Next

\* What a read may answer
LEMMA PromisedAnswer ==
    ASSUME StoreInv, NEW t \in Tasks, NEW a \in Seen \cup {Failed},
           alone[t] /\ call[t].seg \notin spoiled =>
              a \in IF published[call[t].seg] = {} THEN {Failed} ELSE published[call[t].seg]
    PROVE  a \in Service!Promised(t)
  BY DEF Service!Promised, Seen

\* A call at one of these places is a read
LEMMA Reading ==
    ASSUME StoreInv, NEW t \in Tasks, call[t].pc \in {"maphot", "warm", "map", "put"}
    PROVE  call[t] \in Calls /\ call[t] # Idle /\ call[t].op = "get" /\ call[t].seg \in Segs
<1>1. call[t] \in Calls /\ call[t] # Idle
  BY DEF StoreInv, StoreType, Idle
<1> QED
  BY <1>1 DEF StoreInv, StoreType, Calls, Places

\* The files of a segment that t is alone with are uploaded versions
LEMMA AloneWhole ==
    ASSUME StoreInv, NEW t \in Tasks, NEW tier \in Tiers, alone[t], ~At(t, "write"),
           call[t].seg \in Segs \ spoiled, file[tier][call[t].seg] # NoFile
    PROVE  file[tier][call[t].seg] \in published[call[t].seg]
<1>1. \A u \in Tasks : ~Filling(u, tier, call[t].seg)
  BY DEF StoreInv, Undisturbed, Calm, Filling
<1> QED
  BY <1>1 DEF StoreInv, Whole

\* A call is what the service is asked.
LEMMA CallStep ==
    ASSUME StoreInv, NEW t \in Tasks, NEW r \in Requests, Call(t, r)
    PROVE  Service!Next
<1>1. r.seg \in Segs /\ asked[t] = NoSeg
  BY StoreAssumption DEF Call, asked, Idle
<1>2. asked' = [asked EXCEPT ![t] = r.seg]
  BY DEF Call, asked, StoreInv, StoreType
<1>3. Service!Ask(t, r.seg)
  BY <1>1, <1>2 DEF Service!Ask, Call, asked
<1> QED
  BY <1>1, <1>3 DEF Service!Next

\* Moving on changes nothing that is asked
LEMMA GotoAsked ==
    ASSUME StoreInv, NEW t \in Tasks, NEW pc, call[t] # Idle, Goto(t, pc)
    PROVE  UNCHANGED asked
<1>1. call[t] \in Calls
  BY DEF StoreInv, StoreType
<1> QED
  BY <1>1 DEF Goto, asked, StoreInv, StoreType, Calls

\* The look for a hot file is quiet to the service, or ends the call.
LEMMA CheckHotStep == ASSUME StoreInv, NEW t \in Tasks, CheckHot(t) PROVE Service!Next
<1>1. call[t] \in Calls /\ call[t] # Idle /\ call[t].pc = "check"
  BY DEF StoreInv, StoreType, CheckHot, At, Idle
<1>2. call[t].op \in {"get", "pin", "unpin"}
  BY <1>1 DEF StoreInv, StoreType, Calls, Places
<1>3. CASE /\ call[t].op # "get"
           /\ (call[t].op = "pin") = (file["hot"][call[t].seg] # NoFile)
  <2>1. Done(t) /\ answer' = {} /\ UNCHANGED <<published, spoiled>>
    BY <1>2, <1>3 DEF CheckHot, Answer
  <2> QED
    BY <1>1, <2>1, FinishStep
<1>4. CASE ~ /\ call[t].op # "get"
             /\ (call[t].op = "pin") = (file["hot"][call[t].seg] # NoFile)
  <2>1. Quiet /\ \E pc \in {"maphot", "warm", "fetch", "remove"} : Goto(t, pc)
    BY <1>2, <1>4 DEF CheckHot
  <2> QED
    BY <1>1, <2>1, GotoAsked, QuietStep
<1> QED
  BY <1>3, <1>4

\* A mapped hot file is an answer of the service.
LEMMA MapHotStep == ASSUME StoreInv, NEW t \in Tasks, MapHot(t) PROVE Service!Next
<1> DEFINE content == file["hot"][call[t].seg]
<1>1. call[t].pc = "maphot" /\ call[t] # Idle /\ call[t].op = "get" /\ call[t].seg \in Segs
  BY Reading DEF MapHot, At
<1>2. Mapped(content) \in Seen \cup {Failed}
  BY <1>1 DEF Mapped, Seen, StoreInv, StoreType, Tiers, Contents
<1>3. alone[t] /\ call[t].seg \notin spoiled => Mapped(content) \in published[call[t].seg]
  <2> SUFFICES ASSUME alone[t], call[t].seg \notin spoiled
               PROVE  Mapped(content) \in published[call[t].seg]
    OBVIOUS
  <2>1. content # NoFile
    BY <1>1 DEF StoreInv, Undisturbed, Calm, At
  <2>2. content \in published[call[t].seg]
    BY <1>1, <2>1, AloneWhole DEF Tiers, At
  <2>3. content \in Versions
    BY <1>1, <2>2 DEF StoreInv, StoreType
  <2> QED
    BY <2>2, <2>3, StoreAssumption DEF Mapped
<1>4. Mapped(content) \in Service!Promised(t)
  BY <1>2, <1>3, PromisedAnswer
<1> QED
  BY <1>1, <1>4, ReturnStep DEF MapHot

\* What the cache has is an answer of the service; a miss is quiet.
LEMMA LookWarmStep == ASSUME StoreInv, NEW t \in Tasks, LookWarm(t) PROVE Service!Next
<1> DEFINE s == call[t].seg
           shown == Shown(cache.segments[s].mapped, s)
<1>1. call[t].pc = "warm" /\ call[t] # Idle /\ call[t].op = "get" /\ s \in Segs
  BY Reading DEF LookWarm, At
<1>2. CASE s \in DOMAIN cache.segments
  <2>1. cache.segments[s].mapped \in Seen
    BY <1>2 DEF StoreInv, StoreType
  <2>2. shown \in Seen
    BY <2>1 DEF Shown, Seen
  <2>3. alone[t] /\ s \notin spoiled => shown \in published[s]
    <3> SUFFICES ASSUME alone[t], s \notin spoiled PROVE shown \in published[s]
      OBVIOUS
    <3>1. \A u \in Tasks : ~Refilling(u, s)
      BY <1>1 DEF StoreInv, Undisturbed, Calm, Refilling
    <3>2. cache.segments[s].mapped = file["cache"][s]
      BY <1>2, <3>1 DEF StoreInv, Refilled
    <3>3. file["cache"][s] # NoFile
      BY <2>1, <3>2, StoreAssumption DEF Seen
    <3>4. file["cache"][s] \in published[s]
      BY <1>1, <3>3, AloneWhole DEF Tiers, At
    <3> QED
      BY <3>2, <3>4 DEF Shown
  <2>4. shown \in Service!Promised(t)
    BY <2>2, <2>3, PromisedAnswer
  <2>5. Answer(t, shown)
    BY <1>2 DEF LookWarm
  <2> QED
    BY <1>1, <2>4, <2>5, ReturnStep
<1>3. CASE s \notin DOMAIN cache.segments
  <2>1. Goto(t, "fetch") /\ Quiet
    BY <1>3 DEF LookWarm
  <2> QED
    BY <1>1, <2>1, GotoAsked, QuietStep
<1> QED
  BY <1>2, <1>3

\* Bytes that are received are quiet to the service, or spoil the segment as it allows
LEMMA ReceivedStep ==
    ASSUME StoreInv, NEW t \in Tasks, NEW pc, NEW bytes, call[t] # Idle,
           bytes \in {Empty, Torn} /\ call[t].seg \notin spoiled =>
              \/ Service!Others(t) # {}
              \/ ~alone[t] /\ \E v, w \in published[call[t].seg] : v # w,
           Received(t, pc, bytes)
    PROVE  Service!Next
<1>1. call[t] \in Calls
  BY DEF StoreInv, StoreType
<1>2. /\ call' = [call EXCEPT ![t].pc = pc, ![t].bytes = bytes]
      /\ spoiled' = IF bytes \in {Empty, Torn} THEN spoiled \cup {call[t].seg} ELSE spoiled
      /\ answer' = {} /\ UNCHANGED <<published, alone>>
  BY DEF Received
<1>3. UNCHANGED asked
  BY <1>1, <1>2 DEF asked, StoreInv, StoreType, Calls
<1>4. CASE spoiled' = spoiled
  BY <1>2, <1>3, <1>4, QuietStep DEF Quiet
<1>5. CASE spoiled' # spoiled
  <2>1. bytes \in {Empty, Torn} /\ call[t].seg \notin spoiled /\ spoiled' = spoiled \cup {call[t].seg}
    BY <1>2, <1>5
  <2>2. call[t].seg # NoSeg
    BY <1>1, StoreAssumption DEF Calls
  <2>3. Service!Clash
    BY <1>2, <1>3, <2>1, <2>2 DEF Service!Clash, asked
  <2> QED
    BY <2>3 DEF Service!Next
<1> QED
  BY <1>4, <1>5

\* A fetch is quiet, or ends the call with a failure, or spoils.
LEMMA FetchStep == ASSUME StoreInv, NEW t \in Tasks, Fetch(t) PROVE Service!Next
<1> DEFINE s == call[t].seg
           bytes == file["cold"][s]
<1>1. call[t] \in Calls /\ call[t] # Idle /\ call[t].pc = "fetch" /\ s \in Segs
  BY DEF StoreInv, StoreType, Fetch, At, Idle, Calls
<1>2. CASE bytes = NoFile /\ call[t].op = "get"
  <2>1. published[s] = {}
    BY <1>1, <1>2 DEF StoreInv, Kept
  <2>2. Failed \in Service!Promised(t)
    BY <2>1, PromisedAnswer
  <2>3. Answer(t, Failed)
    BY <1>2, StoreAssumption DEF Fetch
  <2> QED
    BY <1>1, <1>2, <2>2, <2>3, ReturnStep
<1>3. CASE bytes = NoFile /\ call[t].op # "get"
  <2>1. Done(t) /\ answer' = {} /\ UNCHANGED <<published, spoiled>>
    BY <1>3, StoreAssumption DEF Fetch, Answer
  <2> QED
    BY <1>1, <2>1, FinishStep
<1>4. CASE bytes # NoFile
  <2>1. PICK pc \in {"read", "truncate"} : Received(t, pc, bytes)
    BY <1>4 DEF Fetch
  <2>2. ASSUME bytes \in {Empty, Torn}, s \notin spoiled PROVE Service!Others(t) # {}
    <3>1. bytes = Empty
      BY <1>1, <2>2, StoreAssumption DEF StoreInv, StoreType, Whole, Tiers
    <3>2. PICK u \in Tasks : Filling(u, "cold", s)
      BY <1>1, <2>2, <3>1 DEF StoreInv, Whole, Tiers
    <3>3. u # t /\ call[u].seg = s
      BY <1>1, <3>2 DEF Filling, At
    <3>4. u \in Service!Others(t)
      BY <1>1, <3>3, StoreAssumption DEF Service!Others
    <3> QED
      BY <3>4
  <2> QED
    BY <1>1, <2>1, <2>2, ReceivedStep
<1> QED
  BY <1>2, <1>3, <1>4

\* Versions that meet in torn bytes are two, of which t was not alone to have one
LEMMA Mixed ==
    ASSUME StoreInv, NEW t \in Tasks, NEW tier \in Tiers, call[t].seg \in Segs \ spoiled,
           call[t].bytes \in published[call[t].seg],
           Torn \in Spliced(call[t].bytes, file[tier][call[t].seg])
    PROVE  \E v, w \in published[call[t].seg] : v # w
<1> DEFINE v == call[t].bytes
           c == file[tier][call[t].seg]
<1>1. c \in published[call[t].seg] \cup {NoFile, Empty} /\ v \in Versions
  BY DEF StoreInv, StoreType, Whole
<1>2. v \notin {Empty, Torn} /\ c # Torn /\ v \in Contents /\ c \in Contents
  BY <1>1, StoreAssumption DEF Contents, StoreInv, StoreType
<1>3. v # c /\ c \in Versions
  BY <1>2, SplicedIs
<1>4. c \in published[call[t].seg]
  BY <1>1, <1>3, StoreAssumption
<1> QED
  BY <1>3, <1>4

\* A call that is alone has its bytes whole
LEMMA AloneUnmixed ==
    ASSUME NEW v \in Versions, NEW c \in {v, Empty}
    PROVE  Torn \notin Spliced(v, c)
  BY StoreAssumption, SizeAssumption DEF Spliced

\* The rest of an object is as what was read before, or spoils.
LEMMA FetchRestStep == ASSUME StoreInv, NEW t \in Tasks, FetchRest(t) PROVE Service!Next
<1> DEFINE s == call[t].seg
           object == file["cold"][s]
<1>1. /\ call[t] # Idle /\ call[t].pc = "read" /\ s \in Segs /\ object \in Contents
      /\ call[t].bytes \in Contents /\ call[t].op \in {"get", "pin"}
  <2>1. call[t] \in Calls /\ call[t] # Idle /\ call[t].pc = "read"
    BY DEF StoreInv, StoreType, FetchRest, At, Idle
  <2> QED
    BY <2>1 DEF StoreInv, StoreType, Calls, Places, Tiers
<1>2. PICK bytes \in Spliced(call[t].bytes, object) : Received(t, "truncate", bytes)
  BY DEF FetchRest
<1>3. ASSUME bytes \in {Empty, Torn}, s \notin spoiled
      PROVE  ~alone[t] /\ \E v, w \in published[s] : v # w
  <2>1. call[t].bytes \in published[s] /\ call[t].bytes \in Versions
    BY <1>1, <1>3 DEF StoreInv, StoreType, Carried
  <2>2. bytes = Torn
    BY <1>1, <1>2, <1>3, <2>1, SplicedIs, StoreAssumption
  <2>3. ~alone[t]
    BY <1>1, <1>2, <2>1, <2>2, AloneUnmixed DEF StoreInv, Undisturbed, Calm, At
  <2> QED
    BY <1>1, <1>2, <1>3, <2>1, <2>2, <2>3, Mixed DEF Tiers
<1> QED
  BY <1>1, <1>2, <1>3, ReceivedStep

\* Truncating a file is quiet to the service.
LEMMA TruncateStep == ASSUME StoreInv, NEW t \in Tasks, Truncate(t) PROVE Service!Next
<1>1. call[t] # Idle
  BY DEF Truncate, At, Idle
<1> QED
  BY <1>1, GotoAsked, QuietStep DEF Truncate

\* A write is quiet to the service, or ends the call, or spoils.
LEMMA WriteStep == ASSUME StoreInv, NEW t \in Tasks, Write(t) PROVE Service!Next
<1> DEFINE s == call[t].seg
           held == file[Kind(call[t].op)][s]
<1>1. /\ call[t] \in Calls /\ call[t] # Idle /\ call[t].pc = "write" /\ s \in Segs
      /\ call[t].op \in {"get", "pin", "upload"} /\ Kind(call[t].op) \in Tiers
  <2>1. call[t] \in Calls /\ call[t] # Idle /\ call[t].pc = "write"
    BY DEF StoreInv, StoreType, Write, At, Idle
  <2> QED
    BY <2>1 DEF StoreInv, StoreType, Calls, Places, Kind, Tiers
<1>2. PICK content \in Spliced(call[t].bytes, held) :
         spoiled' = IF content = Torn THEN spoiled \cup {s} ELSE spoiled
  BY DEF Write
<1>3. answer' = {}
  BY DEF Write
<1>4. asked[t] = s /\ asked[t] # NoSeg
  BY <1>1, StoreAssumption DEF asked
<1>5. spoiled' \in {spoiled, spoiled \cup {s}} /\ (spoiled' # spoiled => ~alone[t])
  <2> SUFFICES ASSUME content = Torn, s \notin spoiled, alone[t] PROVE FALSE
    BY <1>2
  <2>1. call[t].bytes \in Versions
    BY <1>1 DEF StoreInv, StoreType, Carried
  <2>2. held = Empty
    BY <1>1 DEF StoreInv, Undisturbed, Calm, At
  <2> QED
    BY <1>2, <2>1, <2>2, AloneUnmixed
<1>6. CASE call[t].op = "get"
  <2>1. Goto(t, "map") /\ UNCHANGED <<published, alone>>
    BY <1>6 DEF Write
  <2>2. UNCHANGED asked
    BY <1>1, <2>1, GotoAsked
  <2>3. CASE spoiled' = spoiled
    BY <1>3, <2>1, <2>2, <2>3, QuietStep DEF Quiet
  <2>4. CASE spoiled' # spoiled
    <3>1. s \notin spoiled /\ content = Torn /\ spoiled' = spoiled \cup {s} /\ ~alone[t]
      BY <1>2, <1>5, <2>4
    <3>2. call[t].bytes \in published[s]
      BY <1>1, <1>6, <3>1 DEF StoreInv, Carried
    <3>3. \E v, w \in published[s] : v # w
      BY <1>1, <1>2, <3>1, <3>2, Mixed
    <3>4. Service!Clash
      BY <1>3, <1>4, <2>1, <2>2, <3>1, <3>3 DEF Service!Clash, asked
    <3> QED
      BY <3>4 DEF Service!Next
  <2> QED
    BY <2>3, <2>4
<1>7. CASE call[t].op = "pin"
  <2>1. Done(t) /\ UNCHANGED published
    BY <1>7 DEF Write
  <2> QED
    BY <1>1, <1>3, <1>5, <2>1, FinishStep
<1>8. CASE call[t].op = "upload"
  <2>1. /\ Done(t)
        /\ published' = [published EXCEPT ![asked[t]] = @ \cup {call[t].bytes}]
    BY <1>4, <1>8 DEF Write
  <2>2. asked' = [asked EXCEPT ![t] = NoSeg]
    BY <1>1, <2>1, DoneAsked
  <2>3. call[t].bytes \in Versions
    BY <1>1, <1>8 DEF StoreInv, StoreType
  <2>4. Service!Finish(t)
    BY <1>3, <1>4, <1>5, <2>1, <2>2, <2>3 DEF Service!Finish, Done, asked
  <2> QED
    BY <2>4 DEF Service!Next
<1> QED
  BY <1>1, <1>6, <1>7, <1>8

\* A failed write may spoil, which the service allows.
LEMMA WriteFailsStep == ASSUME StoreInv, NEW t \in Tasks, WriteFails(t) PROVE Service!Next
<1>1. call[t] # Idle
  BY DEF WriteFails, At, Idle
<1>2. /\ Done(t) /\ spoiled' = spoiled \cup {call[t].seg} /\ UNCHANGED published
      /\ answer' = IF call[t].op = "get" THEN {<<t, Failed>>} ELSE {}
  BY DEF WriteFails
<1>3. CASE call[t].op = "get"
  <2>1. asked[t] # NoSeg /\ asked' = [asked EXCEPT ![t] = NoSeg]
    BY <1>1, <1>2, DoneAsked
  <2>2. Service!Return(t)
    BY <1>2, <1>3, <2>1 DEF Service!Return, Done, asked
  <2> QED
    BY <2>2 DEF Service!Next
<1>4. CASE call[t].op # "get"
  BY <1>1, <1>2, <1>4, FinishStep
<1> QED
  BY <1>3, <1>4

\* Mapping a cache file is quiet to the service, or a failure.
LEMMA MapCachedStep == ASSUME StoreInv, NEW t \in Tasks, MapCached(t) PROVE Service!Next
<1> DEFINE s == call[t].seg
           mapped == Mapped(file["cache"][s])
<1>1. call[t].pc = "map" /\ call[t] \in Calls /\ call[t] # Idle /\ call[t].op = "get" /\ s \in Segs
  BY Reading DEF MapCached, At
<1>2. CASE mapped = Failed
  <2>1. ~(alone[t] /\ s \notin spoiled)
    <3> SUFFICES ASSUME alone[t], s \notin spoiled PROVE FALSE
      OBVIOUS
    <3>1. file["cache"][s] = call[t].bytes /\ call[t].bytes \in published[s]
      BY <1>1 DEF StoreInv, Undisturbed, Calm, Carried
    <3>2. call[t].bytes \in Versions
      BY <1>1, <3>1 DEF StoreInv, StoreType
    <3> QED
      BY <1>2, <3>1, <3>2, StoreAssumption DEF Mapped
  <2>2. Failed \in Service!Promised(t)
    BY <2>1, PromisedAnswer
  <2> QED
    BY <1>1, <1>2, <2>2, ReturnStep DEF MapCached
<1>3. CASE mapped # Failed
  <2>1. call' = [call EXCEPT ![t].pc = "put", ![t].mapped = mapped] /\ Quiet
    BY <1>3 DEF MapCached
  <2>2. UNCHANGED asked
    <3> HIDE DEF mapped
    <3> QED
      BY <1>1, <2>1 DEF asked, StoreInv, StoreType, Calls
  <2> QED
    BY <2>1, <2>2, QuietStep
<1> QED
  BY <1>2, <1>3

\* The segment that was put is an answer of the service.
LEMMA PutCachedStep == ASSUME StoreInv, NEW t \in Tasks, PutCached(t) PROVE Service!Next
<1> DEFINE s == call[t].seg
           mapped == Mapped(file["cache"][s])
           shown == Shown(call[t].mapped, s)
<1>1. call[t].pc = "put" /\ call[t] \in Calls /\ call[t] # Idle /\ call[t].op = "get" /\ s \in Segs
  BY Reading DEF PutCached, At
<1>2. ASSUME alone[t], s \notin spoiled
      PROVE  /\ file["cache"][s] \in published[s] /\ file["cache"][s] \in Versions
             /\ call[t].mapped = file["cache"][s]
  <2>1. /\ file["cache"][s] = call[t].bytes /\ call[t].mapped = call[t].bytes
        /\ call[t].bytes \in published[s]
    BY <1>1, <1>2 DEF StoreInv, Undisturbed, Calm, Carried, At
  <2> QED
    BY <1>1, <2>1 DEF StoreInv, StoreType
<1>3. CASE mapped = Failed
  <2>1. ~(alone[t] /\ s \notin spoiled)
    BY <1>2, <1>3, StoreAssumption DEF Mapped
  <2>2. Failed \in Service!Promised(t)
    BY <2>1, PromisedAnswer
  <2> QED
    BY <1>1, <1>3, <2>2, ReturnStep DEF PutCached
<1>4. CASE mapped # Failed
  <2>1. shown \in Seen
    BY <1>1 DEF Shown, Seen, StoreInv, StoreType, At
  <2>2. alone[t] /\ s \notin spoiled => shown \in published[s]
    BY <1>2 DEF Shown
  <2>3. shown \in Service!Promised(t)
    BY <2>1, <2>2, PromisedAnswer
  <2>4. Answer(t, shown)
    BY <1>4 DEF PutCached
  <2> QED
    BY <1>1, <2>3, <2>4, ReturnStep
<1> QED
  BY <1>3, <1>4

\* Removing the hot file is the end of unpin.
LEMMA RemoveHotStep == ASSUME StoreInv, NEW t \in Tasks, RemoveHot(t) PROVE Service!Next
<1> DEFINE pinning == {u \in Tasks : At(u, "write") /\ call[u].op = "pin" /\ call[u].seg = call[t].seg}
<1>1. call[t] \in Calls /\ call[t] # Idle /\ call[t].pc = "remove"
  BY DEF StoreInv, StoreType, RemoveHot, At, Idle
<1>2. /\ call' = [u \in Tasks |-> IF u = t THEN Idle
                                 ELSE IF u \in pinning THEN [call[u] EXCEPT !.pc = "orphan"]
                                 ELSE call[u]]
      /\ alone' = [alone EXCEPT ![t] = FALSE] /\ answer' = {} /\ UNCHANGED <<published, spoiled>>
  BY DEF RemoveHot
<1>3. \A u \in Tasks \ {t} : call'[u].seg = call[u].seg
  <2>1. \A u \in pinning : call[u] \in Calls
    BY DEF StoreInv, StoreType, At, Idle
  <2> QED
    BY <1>2, <2>1 DEF Calls
<1>4. asked[t] # NoSeg /\ asked' = [asked EXCEPT ![t] = NoSeg]
  BY <1>1, <1>2, <1>3, StoreAssumption DEF asked, Calls, Idle
<1>5. Service!Finish(t)
  BY <1>2, <1>4 DEF Service!Finish, asked
<1> QED
  BY <1>5 DEF Service!Next

\* The end of a pin whose file is gone is the end of a call.
LEMMA WriteOrphanStep == ASSUME StoreInv, NEW t \in Tasks, WriteOrphan(t) PROVE Service!Next
<1>1. call[t] \in Calls /\ call[t] # Idle /\ call[t].pc = "orphan"
  BY DEF StoreInv, StoreType, WriteOrphan, At, Idle
<1>2. call[t].op = "pin"
  BY <1>1 DEF StoreInv, StoreType, Calls, Places
<1>3. Done(t) /\ answer' = {} /\ UNCHANGED <<published, spoiled>>
  BY <1>2 DEF WriteOrphan, Answer
<1> QED
  BY <1>1, <1>3, FinishStep

\* A lost process is a crash of the service.
LEMMA CrashStep == ASSUME StoreInv, Crash PROVE Service!Next
<1>1. asked' = [t \in Tasks |-> NoSeg] /\ alone' = [t \in Tasks |-> FALSE] /\ answer' = {}
      /\ UNCHANGED published
  BY DEF Crash, asked, Idle
<1> DEFINE cut == {<<Kind(call[t].op), call[t].seg>> : t \in {u \in Tasks : At(u, "write")}}
<1>2. spoiled' = spoiled \cup {k[2] : k \in cut}
  BY DEF Crash
<1>3. \A s \in {k[2] : k \in cut} : s \in Segs /\ s \in {asked[t] : t \in Tasks}
  <2> SUFFICES ASSUME NEW t \in Tasks, At(t, "write")
               PROVE  call[t].seg \in Segs /\ call[t].seg = asked[t]
    OBVIOUS
  <2> QED
    BY DEF asked, At, Idle, StoreInv, StoreType, Calls
<1>4. spoiled' \in SUBSET Segs /\ spoiled \subseteq spoiled' /\ spoiled' \ spoiled \subseteq {asked[t] : t \in Tasks}
  <2> HIDE DEF cut
  <2> QED
    BY <1>2, <1>3 DEF StoreInv, StoreType
<1>5. Service!Crash
  BY <1>1, <1>4 DEF Service!Crash, asked
<1> QED
  BY <1>5 DEF Service!Next

\* Every step of the store is one of the service, or is not seen from outside
LEMMA ServiceStep == StoreInv /\ [Next]_vars => [Service!Next]_(Service!vars)
<1> SUFFICES ASSUME StoreInv, [Next]_vars PROVE Service!Next \/ UNCHANGED Service!vars
  OBVIOUS
<1>1. ASSUME NEW t \in Tasks, NEW r \in Requests, Call(t, r) PROVE Service!Next
  BY <1>1, CallStep
<1>2. ASSUME NEW t \in Tasks, Step(t) PROVE Service!Next
  BY <1>2, CheckHotStep, MapHotStep, LookWarmStep, FetchStep, TruncateStep, WriteStep,
     WriteFailsStep, MapCachedStep, PutCachedStep, RemoveHotStep, FetchRestStep,
     WriteOrphanStep DEF Step
<1>3. CASE Clear
  BY <1>3, QuietStep DEF Clear, asked
<1>4. CASE Crash
  BY <1>4, CrashStep
<1>5. CASE UNCHANGED vars
  BY <1>5 DEF vars, Service!vars
<1> QED
  BY <1>1, <1>2, <1>3, <1>4, <1>5 DEF Next

\* The tiered store is a SegmentService: a read that no other call about its segment
\* disturbs answers a whole uploaded version, whatever was pinned, evicted, cleared or
\* lost before, unless a copy was cut off by a failed write or a crash, was read while it
\* was written, or was written by overlapping calls that had different versions
\* (rvf2/tiered_store.rs).
THEOREM Implements == Spec => IsSegmentService
<1>1. Init => Service!Init
  BY ServiceInit
<1>2. StoreInv /\ [Next]_vars => [Service!Next]_(Service!vars)
  BY ServiceStep
<1> QED
  BY <1>1, <1>2, InvHolds, PTL DEF Spec, IsSegmentService, Service!Spec

-----------------------------------------------------------------------------
(* What sizes add up to.  SizeOf folds over a set, of which it chooses one    *)
(* element after the other: a recursive function on subsets, which the        *)
(* lemmas below show to exist, and to be the same sum in whatever order.      *)

Sums(f, k, S) ==
    f = [x \in SUBSET S |->
           IF x = {} THEN 0
           ELSE LET s == CHOOSE y \in x : TRUE IN f[x \ {s}] + k.segments[s].size]
Total(k, S) == (CHOOSE f : Sums(f, k, S))[S]
Sized(k, S) == IsFiniteSet(S) /\ \A s \in S : k.segments[s].size \in Nat

\* SizeOf is that sum.
LEMMA SizeIsTotal ==
    ASSUME NEW k, NEW segs
    PROVE  SizeOf(k, segs) = Total(k, segs \cap DOMAIN k.segments)
BY DEF SizeOf, FoldSet, MapThenFoldSet, Total, Sums

\* The element that is chosen is taken off.
LEMMA ChosenIn ==
    ASSUME NEW x, x # {}
    PROVE  (CHOOSE y \in x : TRUE) \in x
OBVIOUS

\* The recursion defines a function on the subsets of a finite set.
LEMMA SumsExist ==
    ASSUME NEW k, NEW S, IsFiniteSet(S)
    PROVE  \E f : Sums(f, k, S)
<1> DEFINE Pick(x) == CHOOSE y \in x : TRUE
           UpTo(n) == {x \in SUBSET S : Cardinality(x) <= n}
           Sum(f, D) == f = [x \in D |-> IF x = {} THEN 0
                                         ELSE f[x \ {Pick(x)}] + k.segments[Pick(x)].size]
           Exists(n) == \E f : Sum(f, UpTo(n))
           T == {n \in Nat : ~ Exists(n)}
<1>1. \A x \in SUBSET S : IsFiniteSet(x) /\ Cardinality(x) \in Nat /\ Cardinality(x) <= Cardinality(S)
  BY FS_Subset, FS_CardinalityType
<1>2. Cardinality(S) \in Nat
  BY FS_CardinalityType
<1>3. UpTo(Cardinality(S)) = SUBSET S
  BY <1>1
<1>4. SUFFICES ASSUME T # {}
               PROVE  FALSE
  <2>1. Cardinality(S) \notin T
    BY <1>4
  <2> HIDE DEF Exists
  <2>2. Exists(Cardinality(S))
    BY <1>2, <2>1
  <2> USE DEF Exists
  <2> HIDE DEF UpTo, T
  <2>3. \E f : Sum(f, SUBSET S)
    BY <1>3, <2>2
  <2> QED
    BY <2>3 DEF Sums
<1>5. PICK n \in T : \A m \in T : n <= m
  BY <1>4, LeastNumber
<1>6. n \in Nat /\ ~ \E f : Sum(f, UpTo(n))
  BY <1>5
<1>7. CASE n = 0
  <2> DEFINE f == [x \in UpTo(0) |-> 0]
  <2>1. \A x \in UpTo(0) : x = {}
    BY <1>1, FS_EmptySet
  <2>2. Sum(f, UpTo(0))
    BY <2>1
  <2> QED
    BY <1>6, <1>7, <2>2
<1>8. CASE n # 0
  <2>1. n - 1 \in Nat /\ ~ (n <= n - 1)
    BY <1>6, <1>8
  <2>2. PICK g : Sum(g, UpTo(n - 1))
    <3> HIDE DEF Exists
    <3>1. n - 1 \notin T
      <4> HIDE DEF T
      <4> QED
        BY <1>5, <2>1
    <3>2. Exists(n - 1)
      BY <2>1, <3>1
    <3> QED
      BY <3>2 DEF Exists
  <2> DEFINE f == [x \in UpTo(n) |-> IF x = {} THEN 0
                                     ELSE g[x \ {Pick(x)}] + k.segments[Pick(x)].size]
  <2>3. ASSUME NEW x \in UpTo(n), x # {}
        PROVE  f[x \ {Pick(x)}] = g[x \ {Pick(x)}]
    <3> DEFINE y == x \ {Pick(x)}
    <3>1. Pick(x) \in x
      BY <2>3, ChosenIn
    <3>2. Cardinality(y) = Cardinality(x) - 1
      BY <1>1, <3>1, FS_RemoveElement
    <3>3. y \in SUBSET S
      OBVIOUS
    <3>4. Cardinality(x) \in Nat /\ Cardinality(x) <= n /\ Cardinality(y) \in Nat
      BY <1>1, <3>3
    <3>5. y \in UpTo(n - 1) /\ y \in UpTo(n)
      BY <1>6, <3>2, <3>3, <3>4
    <3> HIDE DEF y, UpTo, Pick
    <3>6. g[y] = IF y = {} THEN 0 ELSE g[y \ {Pick(y)}] + k.segments[Pick(y)].size
      BY <2>2, <3>5
    <3>7. f[y] = IF y = {} THEN 0 ELSE g[y \ {Pick(y)}] + k.segments[Pick(y)].size
      BY <3>5
    <3> QED
      BY <3>6, <3>7 DEF y
  <2> HIDE DEF UpTo, Pick
  <2>4. \A x \in UpTo(n) : f[x] = IF x = {} THEN 0
                                  ELSE g[x \ {Pick(x)}] + k.segments[Pick(x)].size
    OBVIOUS
  <2>5. f = [x \in UpTo(n) |-> f[x]]
    OBVIOUS
  <2> HIDE DEF f
  <2>6. \A x \in UpTo(n) : f[x] = IF x = {} THEN 0
                                  ELSE f[x \ {Pick(x)}] + k.segments[Pick(x)].size
    BY <2>3, <2>4
  <2>7. Sum(f, UpTo(n))
    BY <2>5, <2>6
  <2> QED
    BY <1>6, <2>7
<1> QED
  BY <1>7, <1>8

\* Two such functions agree on what they both sum up, where the sizes do.
LEMMA SumsAgree ==
    ASSUME NEW f, NEW k, NEW S, Sums(f, k, S), NEW g, NEW m, NEW R, Sums(g, m, R),
           IsFiniteSet(S), \A s \in S \cap R : k.segments[s].size = m.segments[s].size
    PROVE  \A x \in SUBSET (S \cap R) : f[x] = g[x]
<1> DEFINE T == {x \in SUBSET (S \cap R) : f[x] # g[x]}
<1>1. \A x \in SUBSET (S \cap R) : IsFiniteSet(x)
  <2>1. IsFiniteSet(S \cap R)
    BY FS_Subset, S \cap R \in SUBSET S
  <2> QED
    BY <2>1, FS_Subset
<1>2. SUFFICES ASSUME T # {}
               PROVE  FALSE
  OBVIOUS
<1>3. PICK x \in T : \A y \in T : Cardinality(x) <= Cardinality(y)
  BY <1>1, <1>2, SmallestSet
<1> DEFINE s == CHOOSE y \in x : TRUE
           z == x \ {s}
<1>4. x \in SUBSET S /\ x \in SUBSET R /\ x \in SUBSET (S \cap R) /\ f[x] # g[x]
  BY <1>3
<1>5. /\ f[x] = IF x = {} THEN 0 ELSE f[z] + k.segments[s].size
      /\ g[x] = IF x = {} THEN 0 ELSE g[z] + m.segments[s].size
  BY <1>4 DEF Sums
<1>6. x # {}
  BY <1>4, <1>5
<1>7. s \in x
  BY <1>6, ChosenIn
<1>8. Cardinality(z) = Cardinality(x) - 1 /\ Cardinality(x) \in Nat
  BY <1>1, <1>4, <1>7, FS_RemoveElement, FS_CardinalityType
<1>9. z \notin T
  <2>1. Cardinality(z) < Cardinality(x)
    BY <1>8
  <2>2. Cardinality(z) \in Int /\ Cardinality(x) \in Int
    BY <1>8
  <2> HIDE DEF T, z
  <2> QED
    BY <1>3, <2>1, <2>2
<1>10. f[z] = g[z]
  BY <1>4, <1>9
<1>11. k.segments[s].size = m.segments[s].size
  BY <1>4, <1>7
<1> QED
  BY <1>4, <1>5, <1>6, <1>10, <1>11

\* So the sum is the same over whatever set it was defined, and for whatever else a
\* cache holds.
LEMMA TotalOf ==
    ASSUME NEW f, NEW k, NEW S, Sums(f, k, S), IsFiniteSet(S), NEW m, NEW x \in SUBSET S,
           \A s \in x : k.segments[s].size = m.segments[s].size
    PROVE  f[x] = Total(m, x)
<1> DEFINE g == CHOOSE h : Sums(h, m, x)
<1>1. IsFiniteSet(x)
  BY FS_Subset
<1>2. Sums(g, m, x)
  BY <1>1, SumsExist
<1> HIDE DEF g
<1>3. S \cap x = x
  OBVIOUS
<1>4. \A y \in SUBSET x : f[y] = g[y]
  <2>1. \A s \in S \cap x : k.segments[s].size = m.segments[s].size
    OBVIOUS
  <2>2. \A y \in SUBSET (S \cap x) : f[y] = g[y]
    BY <1>2, <2>1, SumsAgree
  <2> QED
    BY <1>3, <2>2
<1>5. f[x] = g[x]
  BY <1>4
<1> QED
  BY <1>5 DEF Total, g

\* The sum over a set is the sum without one element, and that element's size: of the one
\* that is chosen,
LEMMA TotalChosen ==
    ASSUME NEW k, NEW S, IsFiniteSet(S)
    PROVE  LET s == CHOOSE y \in S : TRUE
           IN  Total(k, S) = IF S = {} THEN 0 ELSE Total(k, S \ {s}) + k.segments[s].size
<1> DEFINE f == CHOOSE h : Sums(h, k, S)
           s == CHOOSE y \in S : TRUE
<1>1. Sums(f, k, S)
  BY SumsExist
<1> HIDE DEF f
<1>2. f[S] = IF S = {} THEN 0 ELSE f[S \ {s}] + k.segments[s].size
  BY <1>1 DEF Sums
<1>3. f[S \ {s}] = Total(k, S \ {s})
  BY <1>1, TotalOf
<1>4. f[S] = Total(k, S)
  BY DEF Total, f
<1> QED
  BY <1>2, <1>3, <1>4

\* which is a number,
LEMMA TotalNat ==
    ASSUME NEW k, NEW S, Sized(k, S)
    PROVE  Total(k, S) \in Nat
<1> DEFINE T == {x \in SUBSET S : Total(k, x) \notin Nat}
<1>1. \A x \in SUBSET S : IsFiniteSet(x) /\ Cardinality(x) \in Nat
  BY FS_Subset, FS_CardinalityType DEF Sized
<1>2. SUFFICES ASSUME T # {}
               PROVE  FALSE
  OBVIOUS
<1>3. PICK x \in T : \A y \in T : Cardinality(x) <= Cardinality(y)
  BY <1>1, <1>2, SmallestSet
<1> DEFINE s == CHOOSE y \in x : TRUE
           z == x \ {s}
<1>4. Total(k, x) = IF x = {} THEN 0 ELSE Total(k, z) + k.segments[s].size
  BY <1>1, TotalChosen
<1>5. x # {}
  BY <1>3, <1>4
<1>6. s \in x
  BY <1>5, ChosenIn
<1>7. z \notin T
  <2>1. Cardinality(z) = Cardinality(x) - 1 /\ Cardinality(x) \in Nat
    BY <1>1, <1>6, FS_RemoveElement
  <2> HIDE DEF T, z
  <2> QED
    BY <1>3, <2>1
<1>8. Total(k, z) \in Nat /\ k.segments[s].size \in Nat
  BY <1>6, <1>7 DEF Sized
<1> QED
  BY <1>3, <1>4, <1>5, <1>8

\* and of any other.
LEMMA TotalRemove ==
    ASSUME NEW k, NEW S, Sized(k, S), NEW a \in S
    PROVE  Total(k, S) = Total(k, S \ {a}) + k.segments[a].size
<1> DEFINE Off(x, b) == Total(k, x) = Total(k, x \ {b}) + k.segments[b].size
           T == {x \in SUBSET S : \E b \in x : ~ Off(x, b)}
<1>1. \A x \in SUBSET S : Sized(k, x) /\ IsFiniteSet(x) /\ Cardinality(x) \in Nat
  BY FS_Subset, FS_CardinalityType DEF Sized
<1>2. SUFFICES ASSUME T # {}
               PROVE  FALSE
  <2>1. S \notin T
    BY <1>2
  <2> HIDE DEF Off
  <2>2. Off(S, a)
    BY <2>1
  <2> QED
    BY <2>2 DEF Off
<1>3. PICK x \in T : \A y \in T : Cardinality(x) <= Cardinality(y)
  BY <1>1, <1>2, SmallestSet
<1>4. PICK b \in x : ~ Off(x, b)
  BY <1>3
<1> DEFINE s == CHOOSE y \in x : TRUE
           z == x \ {s}
<1>5. Total(k, x) = Total(k, z) + k.segments[s].size
  BY <1>1, TotalChosen
<1>6. s \in x
  BY ChosenIn
<1>7. CASE b = s
  BY <1>4, <1>5, <1>7
<1>8. CASE b # s
  <2>1. \A c \in x : x \ {c} \notin T
    <3> SUFFICES ASSUME NEW c \in x
                 PROVE  x \ {c} \notin T
      OBVIOUS
    <3>1. Cardinality(x \ {c}) = Cardinality(x) - 1 /\ Cardinality(x) \in Nat
      BY <1>1, FS_RemoveElement
    <3> HIDE DEF T
    <3> QED
      BY <1>3, <3>1
  <2>2. Off(z, b)
    <3> HIDE DEF Off, s
    <3> QED
      BY <1>6, <1>8, <2>1
  <2>3. Off(x \ {b}, s)
    <3> HIDE DEF Off, s
    <3> QED
      BY <1>6, <1>8, <2>1
  <2>4. z \ {b} = (x \ {b}) \ {s}
    OBVIOUS
  <2>5. /\ Total(k, (x \ {b}) \ {s}) \in Nat /\ k.segments[s].size \in Nat
        /\ k.segments[b].size \in Nat
    BY <1>1, <1>6, TotalNat DEF Sized
  <2>6. Total(k, z) = Total(k, z \ {b}) + k.segments[b].size
    BY <2>2
  <2>7. Total(k, x \ {b}) = Total(k, (x \ {b}) \ {s}) + k.segments[s].size
    BY <2>3
  <2> DEFINE u == Total(k, (x \ {b}) \ {s})
             v == Total(k, x \ {b})
             w == Total(k, z)
  <2>8. w = u + k.segments[b].size /\ v = u + k.segments[s].size
    <3> HIDE DEF s, z, u, v, w
    <3>1. Total(k, z \ {b}) = u
      BY <2>4 DEF u
    <3> QED
      BY <2>6, <2>7, <3>1 DEF u, v, w
  <2>9. Total(k, x) = w + k.segments[s].size
    BY <1>5
  <2>10. u \in Nat
    BY <2>5
  <2> HIDE DEF s, z, u, v, w
  <2>11. Total(k, x) = v + k.segments[b].size
    BY <2>5, <2>8, <2>9, <2>10
  <2>12. Off(x, b)
    BY <2>11 DEF v
  <2> QED
    BY <1>4, <2>12
<1> QED
  BY <1>7, <1>8

\* The sum without some is the sum less theirs.
LEMMA TotalSplit ==
    ASSUME NEW k, NEW S, Sized(k, S), NEW A \in SUBSET S
    PROVE  Total(k, S) = Total(k, S \ A) + Total(k, A)
<1> DEFINE Split(x) == Total(k, S) = Total(k, S \ x) + Total(k, x)
           T == {x \in SUBSET S : ~ Split(x)}
<1>1. \A x \in SUBSET S : Sized(k, x) /\ IsFiniteSet(x) /\ Cardinality(x) \in Nat
  BY FS_Subset, FS_CardinalityType DEF Sized
<1>2. SUFFICES ASSUME T # {}
               PROVE  FALSE
  <2> HIDE DEF Split
  <2>1. Split(A)
    BY <1>2
  <2> QED
    BY <2>1 DEF Split
<1>3. PICK x \in T : \A y \in T : Cardinality(x) <= Cardinality(y)
  BY <1>1, <1>2, SmallestSet
<1>4. CASE x = {}
  <2>1. Total(k, {}) = 0
    BY TotalChosen, FS_EmptySet
  <2>2. S \ x = S /\ Total(k, S) \in Nat
    BY <1>4, TotalNat
  <2> QED
    BY <1>3, <1>4, <2>1, <2>2
<1>5. CASE x # {}
  <2>1. PICK a \in x : TRUE
    BY <1>5
  <2>2. x \ {a} \notin T
    <3>1. Cardinality(x \ {a}) = Cardinality(x) - 1 /\ Cardinality(x) \in Nat
      BY <1>1, FS_RemoveElement
    <3> HIDE DEF T
    <3> QED
      BY <1>3, <3>1
  <2>3. Total(k, S) = Total(k, S \ (x \ {a})) + Total(k, x \ {a})
    <3> HIDE DEF Split
    <3>1. Split(x \ {a})
      BY <2>2
    <3> QED
      BY <3>1 DEF Split
  <2> DEFINE R == S \ (x \ {a})
  <2>4. R \in SUBSET S /\ a \in R /\ R \ {a} = S \ x
    OBVIOUS
  <2>5. Total(k, R) = Total(k, S \ x) + k.segments[a].size
    BY <1>1, <2>4, TotalRemove
  <2>6. Total(k, x) = Total(k, x \ {a}) + k.segments[a].size
    BY <1>1, TotalRemove
  <2>7. /\ Total(k, S \ x) \in Nat /\ Total(k, x \ {a}) \in Nat /\ k.segments[a].size \in Nat
    BY <1>1, TotalNat DEF Sized
  <2> HIDE DEF R
  <2>8. Split(x)
    BY <2>3, <2>5, <2>6, <2>7 DEF R
  <2> QED
    BY <1>3, <2>8
<1> QED
  BY <1>4, <1>5

-----------------------------------------------------------------------------
(* What the cache counts *)

\* order.retain, position by position: a recursive function, which exists,
Retains(f, order, s, n) ==
    f = [i \in 0 .. n |->
           IF i = 0 THEN <<>>
           ELSE IF order[i] = s THEN f[i - 1] ELSE Append(f[i - 1], order[i])]

\* The order without s is the recursive function of Retains.
LEMMA RetainsExist ==
    ASSUME NEW order, NEW s, NEW n \in Nat
    PROVE  \E f : Retains(f, order, s, n)
<1> DEFINE Exists(m) == \E f : Retains(f, order, s, m)
           T == {m \in Nat : ~ Exists(m)}
<1>1. SUFFICES ASSUME T # {}
               PROVE  FALSE
  <2> HIDE DEF Exists
  <2>1. Exists(n)
    BY <1>1
  <2> QED
    BY <2>1 DEF Exists
<1>2. PICK m \in T : \A j \in T : m <= j
  BY <1>1, LeastNumber
<1>3. m \in Nat /\ ~ Exists(m)
  BY <1>2
<1>4. CASE m = 0
  <2> DEFINE f == [i \in 0 .. 0 |-> <<>>]
  <2>1. \A i \in 0 .. 0 : i = 0
    OBVIOUS
  <2>2. Retains(f, order, s, 0)
    BY <2>1 DEF Retains
  <2> QED
    BY <1>3, <1>4, <2>2
<1>5. CASE m # 0
  <2>1. m - 1 \in Nat /\ ~ (m <= m - 1)
    BY <1>3, <1>5
  <2>2. PICK g : Retains(g, order, s, m - 1)
    <3> HIDE DEF Exists
    <3>1. m - 1 \notin T
      <4> HIDE DEF T
      <4> QED
        BY <1>2, <2>1
    <3>2. Exists(m - 1)
      BY <2>1, <3>1
    <3> QED
      BY <3>2 DEF Exists
  <2> DEFINE f == [i \in 0 .. m |->
                     IF i = 0 THEN <<>>
                     ELSE IF order[i] = s THEN g[i - 1] ELSE Append(g[i - 1], order[i])]
  <2>3. ASSUME NEW i \in 0 .. m - 1
        PROVE  f[i] = g[i]
    <3>1. g[i] = IF i = 0 THEN <<>>
                 ELSE IF order[i] = s THEN g[i - 1] ELSE Append(g[i - 1], order[i])
      BY <2>2 DEF Retains
    <3>2. i \in 0 .. m
      BY <1>3
    <3> QED
      BY <3>1, <3>2
  <2>4. \A i \in 0 .. m : i # 0 => i - 1 \in 0 .. m - 1
    BY <1>3
  <2>5. \A i \in 0 .. m : f[i] = IF i = 0 THEN <<>>
                                 ELSE IF order[i] = s THEN g[i - 1] ELSE Append(g[i - 1], order[i])
    OBVIOUS
  <2>6. f = [i \in 0 .. m |-> f[i]]
    OBVIOUS
  <2> HIDE DEF f
  <2>7. \A i \in 0 .. m : f[i] = IF i = 0 THEN <<>>
                                 ELSE IF order[i] = s THEN f[i - 1] ELSE Append(f[i - 1], order[i])
    BY <2>3, <2>4, <2>5
  <2>8. Retains(f, order, s, m)
    BY <2>6, <2>7 DEF Retains
  <2> QED
    BY <1>3, <2>8
<1> QED
  BY <1>4, <1>5

\* and which keeps every other segment.
LEMMA RetainedKeeps ==
    ASSUME NEW order \in Seq(Segs), NEW s
    PROVE  /\ Retained(order, s) \in Seq(Segs)
           /\ ToSet(order) \ {s} \subseteq ToSet(Retained(order, s))
<1> DEFINE n == Len(order)
           f == CHOOSE g : Retains(g, order, s, n)
           Good(i) == /\ f[i] \in Seq(Segs)
                      /\ \A j \in 1 .. i : order[j] # s => order[j] \in ToSet(f[i])
           T == {i \in Nat : i <= n /\ ~ Good(i)}
<1>1. n \in Nat /\ \A i \in 1 .. n : order[i] \in Segs
  OBVIOUS
<1>2. DOMAIN order = 1 .. n
  OBVIOUS
<1>3. Retains(f, order, s, n)
  BY <1>1, RetainsExist
<1>4. Retained(order, s) = f[n]
  BY DEF Retained, Retains
<1> HIDE DEF f, n
<1>5. SUFFICES ASSUME T # {}
               PROVE  FALSE
  <2>1. Good(n)
    <3> HIDE DEF Good
    <3> QED
      BY <1>1, <1>5
  <2>2. f[n] \in Seq(Segs) /\ \A j \in 1 .. n : order[j] # s => order[j] \in ToSet(f[n])
    BY <2>1
  <2> QED
    BY <1>2, <1>4, <2>2 DEF ToSet
<1>6. PICK m \in T : \A j \in T : m <= j
  <2> HIDE DEF T
  <2>1. T \in SUBSET Nat
    BY DEF T
  <2> QED
    BY <1>5, <2>1, LeastNumber
<1>7. m \in Nat /\ m <= n /\ ~ Good(m)
  BY <1>6
<1>8. f[m] = IF m = 0 THEN <<>>
             ELSE IF order[m] = s THEN f[m - 1] ELSE Append(f[m - 1], order[m])
  <2>1. m \in 0 .. n
    BY <1>1, <1>7
  <2> HIDE DEF T, Good
  <2>2. \A i \in 0 .. n : f[i] = IF i = 0 THEN <<>>
                                 ELSE IF order[i] = s THEN f[i - 1] ELSE Append(f[i - 1], order[i])
    BY <1>3 DEF Retains
  <2> QED
    BY <2>1, <2>2
<1>9. CASE m = 0
  BY <1>7, <1>8, <1>9
<1>10. CASE m # 0
  <2>1. m - 1 \in Nat /\ m - 1 <= n /\ ~ (m <= m - 1) /\ m \in 1 .. n
    BY <1>1, <1>7, <1>10
  <2>2. Good(m - 1)
    <3>1. m - 1 \notin T
      <4> HIDE DEF T
      <4> QED
        BY <1>6, <2>1
    <3> HIDE DEF Good
    <3> QED
      BY <2>1, <3>1
  <2>3. f[m - 1] \in Seq(Segs) /\ \A j \in 1 .. m - 1 : order[j] # s => order[j] \in ToSet(f[m - 1])
    BY <2>2
  <2>4. \A j \in 1 .. m : j \in 1 .. m - 1 \/ j = m
    BY <1>7
  <2>5. CASE order[m] = s
    <3>1. f[m] = f[m - 1]
      BY <1>8, <1>10, <2>5
    <3> QED
      BY <1>7, <2>3, <2>4, <2>5, <3>1
  <2>6. CASE order[m] # s
    <3> DEFINE q == f[m - 1]
               r == Append(q, order[m])
    <3>1. f[m] = r
      BY <1>8, <1>10, <2>6
    <3>2. q \in Seq(Segs) /\ order[m] \in Segs
      BY <1>1, <2>1, <2>3
    <3> HIDE DEF q
    <3>3. /\ r \in Seq(Segs) /\ Len(r) = Len(q) + 1 /\ r[Len(q) + 1] = order[m]
          /\ \A i \in 1 .. Len(q) : r[i] = q[i]
      BY <3>2, AppendProperties
    <3>4. Len(q) \in Nat /\ DOMAIN q = 1 .. Len(q) /\ DOMAIN r = 1 .. Len(q) + 1
      BY <3>2, <3>3, LenProperties
    <3> HIDE DEF r
    <3>5. ToSet(q) \subseteq ToSet(r) /\ order[m] \in ToSet(r)
      BY <3>3, <3>4 DEF ToSet
    <3>6. \A j \in 1 .. m : order[j] # s => order[j] \in ToSet(r)
      BY <2>3, <2>4, <3>5 DEF q
    <3> QED
      BY <1>7, <3>1, <3>3, <3>6
  <2> QED
    BY <2>5, <2>6
<1> QED
  BY <1>9, <1>10

\* What is counted covers what is held, and what is held can be evicted.
Covered(k) ==
    /\ DOMAIN k.segments \subseteq Segs
    /\ \A s \in DOMAIN k.segments : k.segments[s].size \in Nat
    /\ k.order \in Seq(Segs)
    /\ DOMAIN k.segments \subseteq ToSet(k.order)
    /\ k.current \in Nat
    /\ Total(k, DOMAIN k.segments) <= k.current

Fitting(k) == \/ Total(k, DOMAIN k.segments) <= MaxBytes
              \/ Cardinality(DOMAIN k.segments) = 1

\* What is held is finite, and adds up to a number.
LEMMA CoveredSized ==
    ASSUME NEW k, Covered(k)
    PROVE  /\ Sized(k, DOMAIN k.segments)
           /\ Total(k, DOMAIN k.segments) \in Nat
           /\ SizeOf(k, Segs) = Total(k, DOMAIN k.segments)
<1> DEFINE q == k.order
<1>1. q \in Seq(Segs) /\ DOMAIN q = 1 .. Len(q) /\ Len(q) \in Nat
  BY LenProperties DEF Covered
<1>2. q \in Surjection(1 .. Len(q), ToSet(q))
  BY <1>1 DEF Surjection, ToSet
<1>3. IsFiniteSet(1 .. Len(q))
  BY <1>1, FS_Interval
<1>4. IsFiniteSet(ToSet(q))
  <2> HIDE DEF q
  <2> QED
    BY <1>2, <1>3, FS_Surjection
<1>5. IsFiniteSet(DOMAIN k.segments)
  BY <1>4, FS_Subset DEF Covered
<1>6. Sized(k, DOMAIN k.segments)
  BY <1>5 DEF Sized, Covered
<1>7. Segs \cap DOMAIN k.segments = DOMAIN k.segments
  BY DEF Covered
<1> QED
  BY <1>6, <1>7, TotalNat, SizeIsTotal

\* Taking segments off the head of the order subtracts what they were counted with.
LEMMA EvictedCovered ==
    ASSUME Covered(cache), NEW n \in 0 .. Len(cache.order)
    PROVE  /\ Covered(Evicted(n))
           /\ n = Len(cache.order) => DOMAIN Evicted(n).segments = {}
<1> DEFINE q == cache.order
           D == DOMAIN cache.segments
           gone == {q[i] : i \in 1 .. n}
           k == Evicted(n)
<1>1. q \in Seq(Segs) /\ DOMAIN q = 1 .. Len(q) /\ Len(q) \in Nat /\ D \subseteq ToSet(q)
  BY LenProperties DEF Covered
<1>2. /\ k.segments = [x \in D \ gone |-> cache.segments[x]]
      /\ k.order = SubSeq(q, n + 1, Len(q))
      /\ k.current = cache.current - SizeOf(cache, gone)
  BY DEF Evicted
<1> HIDE DEF k
<1>3. DOMAIN k.segments = D \ gone /\ \A x \in D \ gone : k.segments[x] = cache.segments[x]
  BY <1>2
<1>4. Sized(cache, D) /\ Total(cache, D) \in Nat
  BY CoveredSized
<1>5. Total(cache, D) = Total(cache, D \ gone) + Total(cache, gone \cap D)
  <2>1. D \ (gone \cap D) = D \ gone /\ gone \cap D \in SUBSET D
    OBVIOUS
  <2> HIDE DEF D, gone
  <2> QED
    BY <1>4, <2>1, TotalSplit
<1>6. Sized(cache, D \ gone) /\ Sized(cache, gone \cap D)
  BY <1>4, FS_Subset DEF Sized
<1>7. Total(cache, D \ gone) \in Nat /\ Total(cache, gone \cap D) \in Nat
  BY <1>6, TotalNat
<1>8. Total(k, D \ gone) = Total(cache, D \ gone)
  <2> DEFINE x == D \ gone
             f == CHOOSE h : Sums(h, cache, x)
  <2>1. Sums(f, cache, x)
    BY <1>6, SumsExist DEF Sized
  <2>2. f[x] = Total(cache, x)
    BY DEF Total
  <2>3. IsFiniteSet(x) /\ \A s \in x : cache.segments[s].size = k.segments[s].size
    BY <1>3, <1>6 DEF Sized
  <2> HIDE DEF x, f
  <2>4. f[x] = Total(k, x)
    BY <2>1, <2>3, TotalOf
  <2> QED
    BY <2>2, <2>4 DEF x
<1>9. k.current = cache.current - Total(cache, gone \cap D)
  BY <1>2, SizeIsTotal
<1>10. /\ cache.current \in Nat /\ Total(cache, D) <= cache.current
       /\ \A s \in D : cache.segments[s].size \in Nat /\ s \in Segs
  BY DEF Covered
<1>11. k.current \in Nat /\ Total(k, DOMAIN k.segments) <= k.current
  <2> DEFINE a == Total(cache, D \ gone)
             b == Total(cache, gone \cap D)
             c == Total(cache, D)
             e == Total(k, D \ gone)
  <2>1. /\ c = a + b /\ a \in Nat /\ b \in Nat /\ e = a /\ k.current = cache.current - b
        /\ cache.current \in Nat /\ c <= cache.current
    BY <1>5, <1>7, <1>8, <1>9, <1>10
  <2>2. Total(k, DOMAIN k.segments) = e
    BY <1>3
  <2> HIDE DEF a, b, c, e
  <2> QED
    BY <2>1, <2>2
<1>12. k.order \in Seq(Segs) /\ D \ gone \subseteq ToSet(k.order)
  <2>1. \A i \in n + 1 .. Len(q) : q[i] \in Segs
    BY <1>1
  <2> DEFINE r == SubSeq(q, n + 1, Len(q))
  <2>2. /\ r \in Seq(Segs) /\ Len(r) = Len(q) - n
        /\ \A i \in 1 .. Len(q) - n : r[i] = q[n + i]
    <3>1. /\ r \in Seq(Segs) /\ Len(r) = IF n + 1 <= Len(q) THEN Len(q) - (n + 1) + 1 ELSE 0
          /\ \A i \in 1 .. Len(q) - (n + 1) + 1 : r[i] = q[(n + 1) + i - 1]
      BY <1>1, <2>1, SubSeqProperties
    <3> DEFINE len == Len(q)
    <3>2. n \in Nat /\ len \in Nat /\ n <= len
      BY <1>1
    <3> HIDE DEF r, q
    <3>3. /\ Len(r) = IF n + 1 <= len THEN len - (n + 1) + 1 ELSE 0
          /\ \A i \in 1 .. len - (n + 1) + 1 : r[i] = q[(n + 1) + i - 1]
      BY <3>1
    <3> HIDE DEF len
    <3>4. Len(r) = len - n
      BY <3>2, <3>3
    <3>5. ASSUME NEW i \in 1 .. len - n
          PROVE  r[i] = q[n + i]
      <4>1. i \in 1 .. len - (n + 1) + 1 /\ (n + 1) + i - 1 = n + i
        BY <3>2
      <4> QED
        BY <3>3, <4>1
    <3> QED
      BY <3>1, <3>4, <3>5 DEF len
  <2>3. DOMAIN r = 1 .. Len(q) - n
    BY <2>2
  <2> HIDE DEF r
  <2>4. ASSUME NEW s \in D \ gone
        PROVE  s \in ToSet(r)
    <3>1. PICK i \in 1 .. Len(q) : s = q[i]
      BY <1>1 DEF ToSet
    <3>2. i \notin 1 .. n
      BY <3>1
    <3>3. i - n \in 1 .. Len(q) - n /\ n + (i - n) = i
      BY <1>1, <3>2
    <3>4. r[i - n] = s
      BY <2>2, <3>1, <3>3
    <3> QED
      BY <2>3, <3>3, <3>4 DEF ToSet
  <2> QED
    BY <1>2, <2>2, <2>4 DEF r
<1>13. Covered(k)
  BY <1>3, <1>10, <1>11, <1>12 DEF Covered
<1>14. n = Len(q) => DOMAIN k.segments = {}
  <2>1. n = Len(q) => D \subseteq gone
    BY <1>1 DEF ToSet
  <2> QED
    BY <1>3, <2>1
<1> QED
  BY <1>13, <1>14 DEF k

\* put evicts until there is room or nothing is left, so that what is held fits, or is
\* one segment; what an entry that it replaces was counted with stays counted.
LEMMA PutCovered ==
    ASSUME Covered(cache), NEW s \in Segs, NEW mapped, NEW size \in Nat
    PROVE  Covered(LruPut(s, mapped, size)) /\ Fitting(LruPut(s, mapped, size))
<1> DEFINE rounds == {n \in 0 .. Len(cache.order) :
                        Evicted(n).current + size <= MaxBytes \/ n = Len(cache.order)}
           n == Min(rounds)
           k == Evicted(n)
           m == LruPut(s, mapped, size)
           D == DOMAIN k.segments
<1>1. Len(cache.order) \in Nat
  BY LenProperties DEF Covered
<1>2. n \in rounds
  <2>1. Len(cache.order) \in rounds /\ rounds \in SUBSET Nat
    BY <1>1
  <2> HIDE DEF rounds
  <2>2. \E i \in rounds : \A j \in rounds : i <= j
    BY <2>1, LeastNumber
  <2> QED
    BY <2>2 DEF Min
<1>3. Covered(k) /\ (n = Len(cache.order) => D = {})
  BY <1>2, EvictedCovered
<1>4. k.current + size <= MaxBytes \/ D = {}
  BY <1>2, <1>3
<1>5. /\ m.segments = [x \in D \cup {s} |-> IF x = s THEN Entry(mapped, size) ELSE k.segments[x]]
      /\ m.order = Append(k.order, s)
      /\ m.current = k.current + size
  BY DEF LruPut
<1> HIDE DEF rounds, n, k, m
<1>6. /\ DOMAIN m.segments = D \cup {s} /\ m.segments[s].size = size
      /\ \A x \in D \ {s} : m.segments[x] = k.segments[x]
  BY <1>5 DEF Entry
<1>7. /\ D \subseteq Segs /\ \A x \in D : k.segments[x].size \in Nat
      /\ k.order \in Seq(Segs) /\ D \subseteq ToSet(k.order)
      /\ k.current \in Nat /\ Total(k, D) <= k.current
  BY <1>3 DEF Covered
<1>8. Sized(k, D) /\ Total(k, D) \in Nat
  BY <1>3, CoveredSized
<1>9. IsFiniteSet(D \cup {s}) /\ IsFiniteSet(D \ {s})
  BY <1>8, FS_AddElement, FS_RemoveElement DEF Sized
<1>10. Sized(m, D \cup {s})
  <2> SUFFICES ASSUME NEW x \in D \cup {s}
               PROVE  m.segments[x].size \in Nat
    BY <1>9 DEF Sized
  <2>1. CASE x = s
    BY <1>6, <2>1
  <2>2. CASE x # s
    BY <1>6, <1>7, <2>2
  <2> QED
    BY <2>1, <2>2
<1>11. Total(m, D \cup {s}) = Total(m, D \ {s}) + size
  <2>1. (D \cup {s}) \ {s} = D \ {s} /\ s \in D \cup {s}
    OBVIOUS
  <2>2. Total(m, D \cup {s}) = Total(m, (D \cup {s}) \ {s}) + m.segments[s].size
    BY <1>10, <2>1, TotalRemove
  <2> QED
    BY <1>6, <2>1, <2>2
<1>12. Total(m, D \ {s}) = Total(k, D \ {s})
  <2> DEFINE x == D \ {s}
             f == CHOOSE h : Sums(h, k, x)
  <2>1. Sums(f, k, x)
    BY <1>9, SumsExist
  <2>2. f[x] = Total(k, x)
    BY DEF Total
  <2>3. IsFiniteSet(x) /\ \A y \in x : k.segments[y].size = m.segments[y].size
    BY <1>6, <1>9
  <2> HIDE DEF x, f
  <2>4. f[x] = Total(m, x)
    BY <2>1, <2>3, TotalOf
  <2> QED
    BY <2>2, <2>4 DEF x
<1>13. Total(k, D \ {s}) \in Nat /\ Total(k, D \ {s}) <= Total(k, D)
  <2>1. Sized(k, D \ {s})
    BY <1>8, <1>9 DEF Sized
  <2>2. Total(k, D \ {s}) \in Nat
    BY <2>1, TotalNat
  <2>3. CASE s \in D
    <3>1. Total(k, D) = Total(k, D \ {s}) + k.segments[s].size /\ k.segments[s].size \in Nat
      BY <1>7, <1>8, <2>3, TotalRemove
    <3> QED
      BY <2>2, <3>1
  <2>4. CASE s \notin D
    <3>1. D \ {s} = D
      BY <2>4
    <3> QED
      BY <1>8, <3>1
  <2> QED
    BY <2>2, <2>3, <2>4
<1> DEFINE a == Total(k, D \ {s})
           b == Total(k, D)
           c == Total(m, D \cup {s})
<1>14. c = a + size /\ a \in Nat /\ a <= b /\ b \in Nat /\ b <= k.current /\ k.current \in Nat
  BY <1>7, <1>8, <1>11, <1>12, <1>13
<1>15. c <= m.current /\ m.current \in Nat /\ (k.current + size <= MaxBytes => c <= MaxBytes)
  <2> HIDE DEF a, b, c
  <2> QED
    BY <1>5, <1>14, SizeAssumption
<1>16. m.order \in Seq(Segs) /\ D \cup {s} \subseteq ToSet(m.order)
  <2> DEFINE q == k.order
             r == Append(q, s)
  <2>1. q \in Seq(Segs)
    BY <1>7
  <2> HIDE DEF q
  <2>2. /\ r \in Seq(Segs) /\ Len(r) = Len(q) + 1 /\ r[Len(q) + 1] = s
        /\ \A i \in 1 .. Len(q) : r[i] = q[i]
    BY <2>1, AppendProperties
  <2>3. Len(q) \in Nat /\ DOMAIN q = 1 .. Len(q) /\ DOMAIN r = 1 .. Len(q) + 1
    BY <2>1, <2>2, LenProperties
  <2> HIDE DEF r
  <2>4. ToSet(q) \subseteq ToSet(r) /\ s \in ToSet(r)
    BY <2>2, <2>3 DEF ToSet
  <2> QED
    BY <1>5, <1>7, <2>2, <2>4 DEF q, r
<1>17. \A x \in D \cup {s} : m.segments[x].size \in Nat
  BY <1>10 DEF Sized
<1>18. Covered(m)
  BY <1>6, <1>7, <1>15, <1>16, <1>17 DEF Covered
<1>19. Fitting(m)
  <2>1. D = {} => Cardinality(D \cup {s}) = 1
    BY FS_Singleton
  <2> HIDE DEF D
  <2> QED
    BY <1>4, <1>6, <1>15, <2>1 DEF Fitting
<1> QED
  BY <1>18, <1>19 DEF m

\* The order of use is all that get changes.
LEMMA GetCovered ==
    ASSUME Covered(cache), DOMAIN cache = {"segments", "order", "current"},
           NEW s \in DOMAIN cache.segments
    PROVE  /\ Covered(LruGet(s))
           /\ Fitting(cache) => Fitting(LruGet(s))
<1> DEFINE q == Retained(cache.order, s)
           r == Append(q, s)
           k == LruGet(s)
           D == DOMAIN cache.segments
<1>1. cache.order \in Seq(Segs) /\ s \in Segs /\ D \subseteq ToSet(cache.order)
  BY DEF Covered
<1>2. q \in Seq(Segs) /\ ToSet(cache.order) \ {s} \subseteq ToSet(q)
  BY <1>1, RetainedKeeps
<1>3. k.segments = cache.segments /\ k.current = cache.current /\ k.order = r
  BY DEF LruGet
<1> HIDE DEF q, k
<1>4. /\ r \in Seq(Segs) /\ Len(r) = Len(q) + 1 /\ r[Len(q) + 1] = s
      /\ \A i \in 1 .. Len(q) : r[i] = q[i]
  BY <1>1, <1>2, AppendProperties
<1>5. Len(q) \in Nat /\ DOMAIN q = 1 .. Len(q) /\ DOMAIN r = 1 .. Len(q) + 1
  BY <1>2, <1>4, LenProperties
<1> HIDE DEF r
<1>6. ToSet(q) \subseteq ToSet(r) /\ s \in ToSet(r)
  BY <1>4, <1>5 DEF ToSet
<1>7. D \subseteq ToSet(k.order)
  BY <1>1, <1>2, <1>3, <1>6
<1>8. Total(k, D) = Total(cache, D)
  <2> DEFINE f == CHOOSE h : Sums(h, cache, D)
  <2>1. IsFiniteSet(D)
    BY CoveredSized DEF Sized
  <2>2. Sums(f, cache, D)
    BY <2>1, SumsExist
  <2>3. f[D] = Total(cache, D)
    BY DEF Total
  <2> HIDE DEF f
  <2>4. \A x \in D : cache.segments[x].size = k.segments[x].size
    BY <1>3
  <2> HIDE DEF D
  <2>5. f[D] = Total(k, D)
    BY <2>1, <2>2, <2>4, TotalOf
  <2> QED
    BY <2>3, <2>5
<1>9. Covered(k)
  BY <1>3, <1>4, <1>7, <1>8 DEF Covered
<1>10. Fitting(cache) => Fitting(k)
  BY <1>3, <1>8 DEF Fitting
<1> QED
  BY <1>9, <1>10 DEF k

\* A new cache holds nothing.
LEMMA NewCovered == Covered(NewCache) /\ Fitting(NewCache)
<1>1. /\ DOMAIN NewCache.segments = {} /\ NewCache.current = 0 /\ NewCache.order = <<>>
  BY DEF NewCache
<1>2. Total(NewCache, {}) = 0
  BY TotalChosen, FS_EmptySet
<1>3. <<>> \in Seq(Segs)
  OBVIOUS
<1> QED
  BY <1>1, <1>2, <1>3, SizeAssumption DEF Covered, Fitting

\* Every step keeps the accounts.
LEMMA AccountStep ==
    ASSUME StoreInv, Covered(cache), Fitting(cache), [Next]_vars
    PROVE  Covered(cache)' /\ Fitting(cache)'
<1>1. CASE cache' = cache
  BY <1>1 DEF Covered, Fitting, Total, Sums
<1>2. CASE cache' = NewCache
  BY <1>2, NewCovered
<1>3. ASSUME NEW t \in Tasks, LookWarm(t), cache' # cache
      PROVE  Covered(cache)' /\ Fitting(cache)'
  <2>1. /\ call[t].seg \in DOMAIN cache.segments /\ cache' = LruGet(call[t].seg)
        /\ DOMAIN cache = {"segments", "order", "current"}
    BY <1>3 DEF LookWarm, StoreInv, StoreType
  <2> QED
    BY <2>1, GetCovered
<1>4. ASSUME NEW t \in Tasks, PutCached(t), cache' # cache
      PROVE  Covered(cache)' /\ Fitting(cache)'
  <2> DEFINE s == call[t].seg
             mapped == Mapped(file["cache"][s])
             size == Size(call[t].bytes)
  <2>1. cache' = LruPut(s, mapped, size) /\ At(t, "put")
    BY <1>4 DEF PutCached
  <2>2. call[t] \in Calls /\ call[t] # Idle
    BY <2>1 DEF StoreInv, StoreType, Idle, At
  <2>3. call[t].op = "get"
    BY <2>1, <2>2 DEF StoreInv, StoreType, At, Calls, Places
  <2>4. s \in Segs /\ call[t].bytes \in Contents
    BY <2>2 DEF Calls
  <2>5. call[t].bytes # NoFile
    BY <2>1, <2>3 DEF StoreInv, Carried, At
  <2>6. size \in Nat
    BY <2>4, <2>5, SizeAssumption DEF Contents
  <2> HIDE DEF s, mapped, size
  <2>7. Covered(LruPut(s, mapped, size)) /\ Fitting(LruPut(s, mapped, size))
    BY <2>4, <2>6, PutCovered DEF s
  <2> QED
    BY <2>1, <2>7
<1>5. \/ cache' = cache \/ cache' = NewCache
      \/ \E t \in Tasks : LookWarm(t) \/ PutCached(t)
  BY DEF Next, vars, Call, Step, CheckHot, MapHot, Fetch, Truncate, Write, WriteFails, MapCached,
     RemoveHot, FetchRest, WriteOrphan, Received, Clear, Crash
<1> QED
  BY <1>1, <1>2, <1>3, <1>4, <1>5

\* What the cache counts covers what it holds, whichever tasks fetch, replace and evict one
\* segment at once: no eviction subtracts more than was added, and but for one that is too
\* large by itself the segments in memory stay within cache_max_bytes.
THEOREM AccountsCover == Spec => []CacheAccounts
<1>1. Init => Covered(cache) /\ Fitting(cache)
  BY NewCovered DEF Init
<1>2. StoreInv /\ Covered(cache) /\ Fitting(cache) /\ [Next]_vars => (Covered(cache) /\ Fitting(cache))'
  BY AccountStep
<1>3. Covered(cache) /\ Fitting(cache) => CacheAccounts
  <2> SUFFICES ASSUME Covered(cache), Fitting(cache)
               PROVE  CacheAccounts
    OBVIOUS
  <2>1. SizeOf(cache, Segs) = Total(cache, DOMAIN cache.segments)
    BY CoveredSized
  <2> QED
    BY <2>1 DEF CacheAccounts, Covered, Fitting
<1> QED
  BY <1>1, <1>2, <1>3, InvHolds, PTL DEF Spec

-----------------------------------------------------------------------------
(* Prefetch: the ranges that requests are merged to *)

Spans == [start : Nat, end : Nat]

\* Ranges that follow one another
Apart(acc) ==
    /\ acc \in Seq(Spans)
    /\ \A i \in DOMAIN acc : acc[i].start < acc[i].end
    /\ \A i, j \in DOMAIN acc : i < j => acc[i].end <= acc[j].start

\* One of them has what r asks for
Covers(acc, r) ==
    \E i \in DOMAIN acc : acc[i].start <= r.offset /\ r.offset + r.len <= acc[i].end

\* What coalesce_ranges does with one request
Join(acc, r, threshold) ==
    IF acc # <<>> /\ r.offset < acc[Len(acc)].end + threshold
    THEN [acc EXCEPT ![Len(acc)].end = IF r.offset + r.len > @ THEN r.offset + r.len ELSE @]
    ELSE Append(acc, [start |-> r.offset, end |-> r.offset + r.len])

\* A request that does not begin before the last range keeps them apart, and is covered
\* with those before it.
LEMMA JoinKeeps ==
    ASSUME NEW acc, Apart(acc), NEW r, r.offset \in Nat, r.len \in Nat \ {0}, NEW threshold \in Nat,
           \A i \in DOMAIN acc : acc[i].start <= r.offset,
           NEW t, t = Join(acc, r, threshold)
    PROVE  /\ Apart(t) /\ Covers(t, r)
           /\ \A i \in DOMAIN t : t[i].start <= r.offset
           /\ \A q : q.offset \in Nat /\ q.len \in Nat /\ Covers(acc, q) => Covers(t, q)
<1> DEFINE n == Len(acc)
           a == r.offset
           b == r.offset + r.len
<1>1. a \in Nat /\ b \in Nat /\ a < b
  OBVIOUS
<1>2. /\ n \in Nat /\ DOMAIN acc = 1 .. n /\ \A i \in 1 .. n : acc[i] \in Spans
      /\ acc = <<>> <=> n = 0
      /\ acc \in Seq(Spans)
  BY LenProperties, ElementOfSeq, EmptySeq DEF Apart
<1>3. /\ \A i \in 1 .. n : acc[i].start \in Nat /\ acc[i].end \in Nat /\ acc[i].start < acc[i].end
      /\ \A i, j \in 1 .. n : i < j => acc[i].end <= acc[j].start
  BY <1>2 DEF Apart, Spans
<1>4. CASE acc # <<>> /\ a < acc[n].end + threshold
  <2> DEFINE e == IF b > acc[n].end THEN b ELSE acc[n].end
             x == [acc[n] EXCEPT !.end = e]
             u == [acc EXCEPT ![n] = x]
  <2>1. n \in 1 .. n /\ e \in Nat /\ e >= b /\ e >= acc[n].end
    BY <1>1, <1>2, <1>3, <1>4
  <2>2. t = u
    BY <1>4 DEF Join
  <2> HIDE DEF e
  <2>3. x \in Spans /\ x.start = acc[n].start /\ x.end = e
    BY <1>2, <2>1 DEF Spans
  <2> HIDE DEF x
  <2>4. u \in Seq(Spans) /\ Len(u) = n /\ DOMAIN u = 1 .. n
    <3>1. u \in [1 .. n -> Spans]
      BY <1>2, <2>3
    <3> HIDE DEF u, n
    <3> QED
      BY <1>2, <3>1
  <2>5. u[n] = x /\ \A i \in 1 .. n : i # n => u[i] = acc[i]
    BY <1>2, <2>1
  <2> HIDE DEF u, n
  <2>6. \A i \in 1 .. n : /\ u[i].start = acc[i].start /\ acc[i].end <= u[i].end
                          /\ u[i].start < u[i].end /\ u[i].end \in Nat
    BY <1>2, <1>3, <2>1, <2>3, <2>5
  <2>7. \A i, j \in 1 .. n : i < j => u[i].end <= u[j].start
    BY <1>2, <1>3, <2>5, <2>6
  <2>8. Apart(u)
    BY <2>4, <2>6, <2>7 DEF Apart
  <2>9. Covers(u, r)
    <3>1. u[n].start <= r.offset /\ b <= u[n].end
      BY <1>2, <2>1, <2>3, <2>5
    <3> QED
      BY <2>1, <2>4, <3>1 DEF Covers
  <2>10. ASSUME NEW q, q.offset \in Nat, q.len \in Nat, Covers(acc, q)
         PROVE  Covers(u, q)
    <3>1. PICK i \in 1 .. n : acc[i].start <= q.offset /\ q.offset + q.len <= acc[i].end
      BY <1>2, <2>10 DEF Covers
    <3>2. u[i].start <= q.offset /\ q.offset + q.len <= u[i].end
      BY <1>3, <2>6, <2>10, <3>1
    <3> QED
      BY <2>4, <3>2 DEF Covers
  <2> QED
    BY <1>2, <2>2, <2>4, <2>6, <2>8, <2>9, <2>10
<1>5. CASE ~ (acc # <<>> /\ a < acc[n].end + threshold)
  <2> DEFINE x == [start |-> a, end |-> b]
             u == Append(acc, x)
  <2>1. t = u
    BY <1>5 DEF Join
  <2>2. x \in Spans /\ x.start = a /\ x.end = b
    BY <1>1 DEF Spans
  <2> HIDE DEF x
  <2>3. u \in Seq(Spans) /\ Len(u) = n + 1 /\ u[n + 1] = x /\ \A i \in 1 .. n : u[i] = acc[i]
    BY <1>2, <2>2, AppendProperties
  <2>4. DOMAIN u = 1 .. n + 1
    BY <2>3, LenProperties
  <2> HIDE DEF u
  <2>5. \A i \in 1 .. n : acc[i].end <= a
    <3>1. CASE n = 0
      BY <3>1
    <3>2. CASE n # 0
      <4>1. acc[n].end <= a /\ n \in 1 .. n
        BY <1>1, <1>2, <1>3, <1>5, <3>2
      <4>2. \A i \in 1 .. n : i = n \/ i < n
        <5>1. n \in Nat
          BY <1>2
        <5> HIDE DEF n
        <5> QED
          BY <5>1
      <4>3. acc[n].start <= acc[n].end
        BY <1>3, <4>1
      <4> HIDE DEF n, a
      <4> QED
        BY <1>1, <1>3, <4>1, <4>2, <4>3
    <3> QED
      BY <3>1, <3>2
  <2>6. \A i \in 1 .. n + 1 : i \in 1 .. n \/ i = n + 1
    BY <1>2
  <2>7. \A i \in 1 .. n : i \in 1 .. n + 1 /\ i < n + 1
    BY <1>2
  <2>8. n + 1 \in 1 .. n + 1 /\ n + 1 \in Nat
    BY <1>2
  <2> HIDE DEF n
  <2>9. \A i \in 1 .. n + 1 : u[i].start < u[i].end /\ u[i].start <= a
    <3>1. u[n + 1].start < u[n + 1].end /\ u[n + 1].start <= a
      BY <1>1, <2>2, <2>3
    <3>2. \A i \in 1 .. n : u[i].start < u[i].end /\ u[i].start <= a
      <4>1. \A i \in 1 .. n : acc[i].start <= a
        BY <1>2
      <4> HIDE DEF a, b
      <4> QED
        BY <1>3, <2>3, <4>1
    <3> HIDE DEF a, b
    <3> QED
      BY <2>6, <3>1, <3>2
  <2>10. ASSUME NEW i \in 1 .. n + 1, NEW j \in 1 .. n + 1, i < j
         PROVE  u[i].end <= u[j].start
    <3>1. i \in 1 .. n
      BY <1>2, <2>10
    <3>2. CASE j \in 1 .. n
      BY <1>3, <2>3, <2>10, <3>1, <3>2
    <3>3. CASE j = n + 1
      BY <2>2, <2>3, <2>5, <3>1, <3>3
    <3> QED
      BY <2>6, <3>2, <3>3
  <2>11. Apart(u)
    BY <2>3, <2>4, <2>9, <2>10 DEF Apart
  <2>12. Covers(u, r)
    <3>1. u[n + 1].start <= r.offset /\ b <= u[n + 1].end
      BY <1>1, <2>2, <2>3
    <3> QED
      BY <2>4, <2>8, <3>1 DEF Covers
  <2>13. ASSUME NEW q, Covers(acc, q)
         PROVE  Covers(u, q)
    <3>1. PICK i \in 1 .. n : acc[i].start <= q.offset /\ q.offset + q.len <= acc[i].end
      BY <1>2, <2>13 DEF Covers
    <3> QED
      BY <2>3, <2>4, <2>7, <3>1 DEF Covers
  <2> QED
    BY <2>1, <2>4, <2>9, <2>11, <2>12, <2>13
<1> QED
  BY <1>4, <1>5

\* f is the recursive function by which requests are merged, o the order they come in.
Merges(f, rs, threshold, o, D) ==
    f = [y \in SUBSET D |-> IF y = {} THEN <<>> ELSE Join(f[y \ {Max(y)}], rs[o[Max(y)]], threshold)]
Merged(rs, threshold, o) == (CHOOSE f : Merges(f, rs, threshold, o, DOMAIN o))[DOMAIN o]

\* The recursion defines a function, for lists of every length.
LEMMA MergesExists ==
    ASSUME NEW rs, NEW threshold, NEW o, NEW n \in Nat
    PROVE  \E f : Merges(f, rs, threshold, o, 1 .. n)
<1> DEFINE Put(acc, i) == Join(acc, rs[o[i]], threshold)
           T == {m \in Nat : ~ \E f : Merges(f, rs, threshold, o, 1 .. m)}
<1> SUFFICES ASSUME T # {}
             PROVE  FALSE
  OBVIOUS
<1>1. PICK m \in T : \A k \in T : m <= k
  BY LeastNumber
<1>2. ~ \E f : Merges(f, rs, threshold, o, 1 .. m)
  OBVIOUS
<1>3. CASE m = 0
  <2> DEFINE f == [y \in SUBSET (1 .. m) |-> <<>>]
  <2>1. \A y \in SUBSET (1 .. m) : y = {}
    BY <1>3
  <2>2. Merges(f, rs, threshold, o, 1 .. m)
    BY <2>1 DEF Merges
  <2> QED
    BY <1>2, <2>2
<1>4. CASE m # 0
  <2>1. m - 1 \in Nat /\ m - 1 \notin T
    BY <1>1, <1>4
  <2>2. PICK g : Merges(g, rs, threshold, o, 1 .. m - 1)
    BY <2>1
  <2> DEFINE f == [y \in SUBSET (1 .. m) |-> IF m \in y THEN Put(g[y \ {m}], m) ELSE g[y]]
  <2>3. ASSUME NEW y \in SUBSET (1 .. m)
        PROVE  f[y] = IF y = {} THEN <<>> ELSE Put(f[y \ {Max(y)}], Max(y))
    <3>1. y \ {m} \in SUBSET (1 .. m - 1) /\ y \ {m} \in SUBSET (1 .. m) /\ m \notin y \ {m}
      OBVIOUS
    <3>2. CASE m \in y
      <4>1. Max(y) = m
        BY <2>1, <3>2, MaxTop, m = (m - 1) + 1
      <4>2. f[y \ {m}] = g[y \ {m}]
        BY <3>1
      <4> HIDE DEF f
      <4>3. f[y] = Put(g[y \ {m}], m)
        BY <3>2 DEF f
      <4> QED
        BY <3>2, <4>1, <4>2, <4>3
    <3>3. CASE m \notin y
      <4>1. y \in SUBSET (1 .. m - 1) /\ y \ {Max(y)} \in SUBSET (1 .. m - 1)
        BY <3>1, <3>3
      <4>2. g[y] = IF y = {} THEN <<>> ELSE Put(g[y \ {Max(y)}], Max(y))
        BY <2>2, <4>1 DEF Merges
      <4>3. f[y] = g[y] /\ f[y \ {Max(y)}] = g[y \ {Max(y)}]
        BY <3>3
      <4> QED
        BY <4>2, <4>3
    <3> QED
      BY <3>2, <3>3
  <2>4. f = [y \in SUBSET (1 .. m) |-> f[y]]
    OBVIOUS
  <2> HIDE DEF f
  <2>5. Merges(f, rs, threshold, o, 1 .. m)
    BY <2>3, <2>4 DEF Merges
  <2> QED
    BY <1>2, <2>5
<1> QED
  BY <1>3, <1>4

\* The requests' places in the order of their offsets.
LEMMA OffsetsInOrder ==
    ASSUME NEW rs, NEW n \in Nat, DOMAIN rs = 1 .. n, \A i \in 1 .. n : rs[i].offset \in Nat,
           NEW o, o = ByOffset(rs)
    PROVE  /\ DOMAIN o = 1 .. n /\ \A p \in 1 .. n : o[p] \in 1 .. n
           /\ \A i \in 1 .. n : \E p \in 1 .. n : o[p] = i
           /\ \A p, q \in 1 .. n : p < q => rs[o[p]].offset <= rs[o[q]].offset
<1> DEFINE key == [i \in DOMAIN rs |-> rs[i].offset]
<1>1. key \in [1 .. n -> Nat] /\ \A i \in 1 .. n : key[i] = rs[i].offset
  OBVIOUS
<1>2. o = StableOrder(key)
  BY DEF ByOffset
<1> HIDE DEF key
<1>3. /\ DOMAIN o = 1 .. n /\ \A p \in 1 .. n : o[p] \in 1 .. n
      /\ \A i \in 1 .. n : \E p \in 1 .. n : o[p] = i
      /\ \A p, q \in 1 .. n : p < q => key[o[p]] <= key[o[q]]
  BY <1>1, <1>2, StableOrderGives
<1> QED
  BY <1>1, <1>3

\* coalesce_ranges is that recursion.
LEMMA CoalesceIsMerged ==
    ASSUME NEW rs, NEW threshold
    PROVE  Coalesce(rs, threshold) = Merged(rs, threshold, ByOffset(rs))
BY DEF Coalesce, FoldLeft, MapThenFoldSet, Merged, Merges, Join

\* The ranges are apart, and each request is covered by one of them.
LEMMA CoalesceGives ==
    ASSUME NEW rs, NEW n \in Nat, DOMAIN rs = 1 .. n,
           \A i \in 1 .. n : rs[i].offset \in Nat /\ rs[i].len \in Nat \ {0},
           NEW threshold \in Nat, NEW t, t = Coalesce(rs, threshold)
    PROVE  Apart(t) /\ \A i \in 1 .. n : Covers(t, rs[i])
<1> DEFINE o == ByOffset(rs)
<1>1. /\ DOMAIN o = 1 .. n /\ \A p \in 1 .. n : o[p] \in 1 .. n
      /\ \A i \in 1 .. n : \E p \in 1 .. n : o[p] = i
      /\ \A p, q \in 1 .. n : p < q => rs[o[p]].offset <= rs[o[q]].offset
  BY OffsetsInOrder
<1> HIDE DEF o
<1> DEFINE f == CHOOSE g : Merges(g, rs, threshold, o, DOMAIN o)
           Fine(m) == /\ Apart(f[1 .. m])
                      /\ \A p \in 1 .. m : Covers(f[1 .. m], rs[o[p]])
                      /\ \A p \in 1 .. n : p > m =>
                            \A i \in DOMAIN f[1 .. m] : f[1 .. m][i].start <= rs[o[p]].offset
           T == {m \in Nat : m <= n /\ ~ Fine(m)}
<1>2. Merges(f, rs, threshold, o, 1 .. n)
  <2>1. \E g : Merges(g, rs, threshold, o, 1 .. n)
    BY MergesExists
  <2>2. \E g : Merges(g, rs, threshold, o, DOMAIN o)
    BY <1>1, <2>1
  <2>3. Merges(f, rs, threshold, o, DOMAIN o)
    BY <2>2
  <2> QED
    BY <1>1, <2>3
<1>3. t = f[1 .. n]
  BY <1>1, CoalesceIsMerged DEF Merged, o
<1> HIDE DEF f
<1>4. SUFFICES ASSUME T # {}
               PROVE  FALSE
  <2>1. n \notin T
    BY <1>4
  <2>2. Fine(n)
    BY <2>1
  <2> QED
    BY <1>1, <1>3, <2>2
<1>5. PICK m \in T : \A k \in T : m <= k
  <2>1. T \in SUBSET Nat
    OBVIOUS
  <2> HIDE DEF T
  <2> QED
    BY <1>4, <2>1, LeastNumber
<1>6. m \in Nat /\ m <= n /\ ~ Fine(m) /\ 1 .. m \in SUBSET (1 .. n)
  <2>1. m \in Nat /\ m <= n /\ ~ Fine(m)
    OBVIOUS
  <2> HIDE DEF T, Fine
  <2> QED
    BY <2>1
<1> DEFINE top == Max(1 .. m)
<1>7. f[1 .. m] = IF 1 .. m = {} THEN <<>>
                  ELSE Join(f[(1 .. m) \ {top}], rs[o[top]], threshold)
  BY <1>2, <1>6 DEF Merges
<1>8. CASE m = 0
  <2>1. f[1 .. m] = <<>> /\ 1 .. m = {} /\ DOMAIN <<>> = {} /\ <<>> \in Seq(Spans)
    BY <1>7, <1>8
  <2>2. Fine(m)
    BY <2>1 DEF Apart
  <2> QED
    BY <1>6, <2>2
<1>9. CASE m # 0
  <2>1. m - 1 \in Nat /\ m - 1 \notin T /\ m - 1 <= n /\ (m - 1) + 1 = m /\ m \in 1 .. n
    <3> HIDE DEF Fine
    <3> QED
      BY <1>5, <1>6, <1>9
  <2>2. top = m
    <3>1. 1 .. m \in SUBSET (1 .. (m - 1) + 1) /\ m \in 1 .. m
      BY <1>6, <1>9
    <3> QED
      BY <2>1, <3>1, MaxTop
  <2>3. 1 .. m # {} /\ (1 .. m) \ {m} = 1 .. m - 1
    <3>1. m \in Nat /\ 1 <= m
      BY <1>6, <1>9
    <3> QED
      BY <3>1
  <2>4. Fine(m - 1)
    <3> HIDE DEF Fine
    <3> QED
      BY <2>1
  <2> DEFINE acc == f[1 .. m - 1]
             r == rs[o[m]]
             u == f[1 .. m]
  <2> HIDE DEF top
  <2>5. u = Join(acc, r, threshold)
    BY <1>7, <2>2, <2>3
  <2>6. r.offset \in Nat /\ r.len \in Nat \ {0}
    BY <1>1, <2>1
  <2>7. /\ Apart(acc) /\ \A p \in 1 .. m - 1 : Covers(acc, rs[o[p]])
        /\ \A i \in DOMAIN acc : acc[i].start <= r.offset
    <3>1. m > m - 1
      BY <2>1
    <3> QED
      BY <2>1, <2>4, <3>1
  <2> HIDE DEF acc, u, r
  <2>8. /\ Apart(u) /\ Covers(u, r)
        /\ \A i \in DOMAIN u : u[i].start <= r.offset
        /\ \A q : q.offset \in Nat /\ q.len \in Nat /\ Covers(acc, q) => Covers(u, q)
    BY <2>5, <2>6, <2>7, JoinKeeps
  <2>9. ASSUME NEW p \in 1 .. m
        PROVE  Covers(u, rs[o[p]])
    <3>1. CASE p = m
      BY <2>8, <3>1 DEF r
    <3>2. CASE p # m
      <4>1. p \in 1 .. m - 1 /\ p \in 1 .. n
        BY <1>6, <3>2
      <4>2. rs[o[p]].offset \in Nat /\ rs[o[p]].len \in Nat
        BY <1>1, <4>1
      <4> QED
        BY <2>7, <2>8, <4>1, <4>2
    <3> QED
      BY <3>1, <3>2
  <2>10. ASSUME NEW p \in 1 .. n, p > m, NEW i \in DOMAIN u
         PROVE  u[i].start <= rs[o[p]].offset
    <3>1. r.offset <= rs[o[p]].offset
      BY <1>1, <1>6, <2>1, <2>10 DEF r
    <3>2. u[i].start \in Nat
      <4>1. u \in Seq(Spans)
        BY <2>8 DEF Apart
      <4>2. u[i] \in Spans
        BY <4>1, ElementOfSeq, LenProperties
      <4> QED
        BY <4>2 DEF Spans
    <3>3. rs[o[p]].offset \in Nat
      BY <1>1
    <3> QED
      BY <2>6, <2>8, <3>1, <3>2, <3>3
  <2>11. Fine(m)
    BY <2>8, <2>9, <2>10 DEF u
  <2> QED
    BY <1>6, <2>11
<1> QED
  BY <1>8, <1>9

-----------------------------------------------------------------------------
(* Prefetch: what its requests get *)

DocRequests == [doc : Nat, segment : Nat, offset : Nat, len : Nat \ {0}]

\* The bytes of a range of segment s
Piece(s, x) == [start |-> x.start, data |-> [i \in 1 .. x.end - x.start |-> <<s, x.start + i - 1>>]]
Pieces(s, t) == {Piece(s, x) : x \in {t[i] : i \in DOMAIN t}}

\* Ranges that are apart do not begin at one place.
LEMMA StartsDiffer ==
    ASSUME NEW t, Apart(t), NEW i \in DOMAIN t, NEW j \in DOMAIN t, t[i].start = t[j].start
    PROVE  i = j
<1>1. /\ i \in Nat /\ j \in Nat
      /\ t[i] \in Spans /\ t[j] \in Spans
  <2>1. t \in Seq(Spans) /\ DOMAIN t = 1 .. Len(t) /\ Len(t) \in Nat
    BY LenProperties DEF Apart
  <2> QED
    BY <2>1, ElementOfSeq
<1>2. /\ t[i].start \in Nat /\ t[i].end \in Nat /\ t[j].start \in Nat /\ t[j].end \in Nat
  BY <1>1 DEF Spans
<1>3. t[i].start < t[i].end /\ t[j].start < t[j].end
  BY DEF Apart
<1>4. (i < j => t[i].end <= t[j].start) /\ (j < i => t[j].end <= t[i].start)
  BY DEF Apart
<1>5. i < j \/ j < i \/ i = j
  BY <1>1
<1> QED
  BY <1>2, <1>3, <1>4, <1>5

\* A slice of a range is what was asked for.
LEMMA SliceIsWanted ==
    ASSUME NEW r \in DocRequests, NEW x \in Spans, x.start <= r.offset, r.offset + r.len <= x.end,
           NEW o, o = x.start, NEW d, d = Piece(r.segment, x).data
    PROVE  SubSeq(d, r.offset - o + 1, r.offset - o + r.len) = Wanted(r)
<1> DEFINE a == r.offset - o + 1
           b == r.offset - o + r.len
           n == r.len
           w == Wanted(r)
           s == r.segment
           u == SubSeq(d, a, b)
<1>1. /\ x.start \in Nat /\ x.end \in Nat /\ r.offset \in Nat /\ n \in Nat \ {0} /\ s \in Nat
  BY DEF Spans, DocRequests
<1>2. a \in Int /\ b \in Int /\ a <= b /\ b - a + 1 = n /\ 1 <= a /\ b <= x.end - x.start
  BY <1>1
<1>3. d = [i \in 1 .. x.end - x.start |-> <<s, x.start + i - 1>>]
  BY DEF Piece
<1>4. \A i \in a .. b : i \in 1 .. x.end - x.start /\ d[i] = <<s, x.start + i - 1>>
  <2>1. \A i \in a .. b : i \in 1 .. x.end - x.start
    <3> HIDE DEF a, b
    <3> QED
      BY <1>1, <1>2
  <2> HIDE DEF a, b
  <2> QED
    BY <1>3, <2>1
<1>5. \A i \in a .. b : d[i] \in Nat \X Nat
  <2>1. \A i \in a .. b : x.start + i - 1 \in Nat
    <3> HIDE DEF a, b
    <3> QED
      BY <1>1, <1>2
  <2> HIDE DEF a, b, s, n
  <2>2. ASSUME NEW i \in a .. b
        PROVE  d[i] \in Nat \X Nat
    <3>1. d[i] = <<s, x.start + i - 1>> /\ x.start + i - 1 \in Nat /\ s \in Nat
      BY <1>1, <1>4, <2>1
    <3> QED
      BY <3>1
  <2> QED
    BY <2>2
<1>6. /\ u \in Seq(Nat \X Nat)
      /\ Len(u) = IF a <= b THEN b - a + 1 ELSE 0
      /\ \A i \in 1 .. b - a + 1 : u[i] = d[a + i - 1]
  <2> HIDE DEF a, b
  <2> QED
    BY <1>2, <1>5, SubSeqProperties
<1>7. Len(u) = n /\ \A i \in 1 .. n : u[i] = d[a + i - 1]
  <2> HIDE DEF a, b, u, n
  <2> QED
    BY <1>2, <1>6
<1>8. w = [i \in 1 .. n |-> <<s, r.offset + i - 1>>]
  BY DEF Wanted
<1>9. ASSUME NEW i \in 1 .. n
      PROVE  u[i] = w[i]
  <2>1. a + i - 1 \in a .. b /\ x.start + (a + i - 1) - 1 = r.offset + i - 1
    BY <1>1
  <2>2. u[i] = <<s, x.start + (a + i - 1) - 1>>
    <3> HIDE DEF a, b, u, n
    <3> QED
      BY <1>4, <1>7, <2>1
  <2>3. w[i] = <<s, r.offset + i - 1>>
    <3> HIDE DEF n, w
    <3> QED
      BY <1>8
  <2> QED
    BY <2>1, <2>2, <2>3
<1>10. u = [i \in 1 .. n |-> u[i]]
  <2> HIDE DEF u, n
  <2>1. DOMAIN u = 1 .. n
    BY <1>6, <1>7, LenProperties
  <2> QED
    BY <1>6, <2>1
<1>11. w = [i \in 1 .. n |-> w[i]]
  BY <1>8
<1> HIDE DEF u, w, n
<1> QED
  BY <1>9, <1>10, <1>11 DEF u, w, a, b

\* The requests of segment s
OfSegment(rs, s) == Keep(rs, {r \in ToSet(rs) : r.segment = s})

\* What the tasks of a prefetch in segment s bring is the pieces of ranges that are
\* apart, and that cover what is asked for.
LEMMA FetchedGives ==
    ASSUME NEW rs \in Seq(DocRequests), NEW threshold \in Nat, NEW s, rs # <<>>,
           \A i \in DOMAIN rs : rs[i].segment = s,
           NEW t, t = Coalesce(OfSegment(rs, s), threshold)
    PROVE  /\ Fetched(rs, threshold) = Pieces(s, t)
           /\ Apart(t)
           /\ \A i \in DOMAIN rs : Covers(t, rs[i])
<1> DEFINE S == {r \in ToSet(rs) : r.segment = s}
           of == Keep(rs, S)
           n == Len(rs)
<1>1. n \in Nat /\ DOMAIN rs = 1 .. n /\ n # 0
  BY LenProperties, EmptySeq
<1>2. \A i \in 1 .. n : rs[i] \in DocRequests /\ rs[i] \in S
  <2>1. \A i \in 1 .. n : rs[i] \in DocRequests
    BY <1>1, ElementOfSeq
  <2> QED
    BY <1>1, <2>1 DEF ToSet
<1>3. {rs[i].segment : i \in DOMAIN rs} = {s}
  <2>1. 1 \in DOMAIN rs
    BY <1>1
  <2> QED
    BY <2>1
<1>4. Fetched(rs, threshold) = Pieces(s, t)
  <2> DEFINE Of(q) == Keep(rs, {r \in ToSet(rs) : r.segment = q})
             Got(q) == {[start |-> x.start, data |-> [i \in 1 .. x.end - x.start |-> <<q, x.start + i - 1>>]] :
                            x \in ToSet(Coalesce(Of(q), threshold))}
  <2>1. Fetched(rs, threshold) = UNION {Got(q) : q \in {rs[i].segment : i \in DOMAIN rs}}
    BY DEF Fetched
  <2>2. Got(s) = Pieces(s, t)
    BY DEF Piece, Pieces, ToSet, OfSegment
  <2> HIDE DEF Got
  <2> QED
    BY <1>3, <2>1, <2>2
<1>5. IsKeep(rs, S, n, of)
  <2> HIDE DEF S, n, of
  <2> QED
    BY <1>1, KeepKeeps DEF of
<1> HIDE DEF S, of, n
<1>6. PICK at : KeptAt(rs, S, n, of, at)
  BY <1>5 DEF IsKeep
<1> DEFINE k == Len(of)
<1>7. k \in Nat /\ DOMAIN of = 1 .. k
  <2>1. of \in Seq({rs[i] : i \in DOMAIN rs})
    BY <1>6 DEF KeptAt
  <2> QED
    BY <2>1, LenProperties
<1>8. \A j \in 1 .. k : of[j].offset \in Nat /\ of[j].len \in Nat \ {0}
  <2>1. \A j \in 1 .. k : at[j] \in 1 .. n /\ of[j] = rs[at[j]]
    BY <1>6 DEF KeptAt
  <2>2. \A j \in 1 .. k : of[j] \in DocRequests
    BY <1>2, <2>1
  <2> QED
    BY <2>2 DEF DocRequests
<1>9. \A i \in 1 .. n : \E j \in 1 .. k : of[j] = rs[i]
  BY <1>2, <1>6 DEF KeptAt
<1>10. t = Coalesce(of, threshold)
  BY DEF of, S, OfSegment
<1> HIDE DEF k
<1>11. Apart(t) /\ \A j \in 1 .. k : Covers(t, of[j])
  BY <1>7, <1>8, <1>10, CoalesceGives
<1> QED
  BY <1>1, <1>4, <1>9, <1>11

\* A map from the starts of such ranges serves a request its bytes, and nothing else.
LEMMA ServedExactly ==
    ASSUME NEW t, Apart(t), NEW r \in DocRequests, Covers(t, r),
           NEW F, F = Pieces(r.segment, t),
           NEW m \in OffsetToData(F)
    PROVE  Served(m, r) = {Wanted(r)}
<1> DEFINE s == r.segment
           X == {t[i] : i \in DOMAIN t}
           over == {o \in DOMAIN m : r.offset >= o /\ r.offset + r.len <= o + Len(m[o].data)}
           starts == {p.start : p \in F}
<1>1. \A x \in X : x \in Spans /\ x.start \in Nat /\ x.end \in Nat /\ x.start < x.end
  <2>1. t \in Seq(Spans) /\ DOMAIN t = 1 .. Len(t) /\ Len(t) \in Nat
    BY LenProperties DEF Apart
  <2>2. \A i \in DOMAIN t : t[i] \in Spans
    BY <2>1, ElementOfSeq
  <2>3. \A i \in DOMAIN t : t[i].start < t[i].end
    BY DEF Apart
  <2> QED
    BY <2>2, <2>3 DEF Spans
<1>2. \A x, y \in X : x.start = y.start => x = y
  BY StartsDiffer
<1>3. m \in [starts -> F] /\ \A o \in starts : m[o].start = o
  BY DEF OffsetToData
<1>4. r.offset \in Nat /\ r.len \in Nat \ {0}
  BY DEF DocRequests
<1>5. F = {Piece(s, x) : x \in X} /\ \A x \in X : Piece(s, x).start = x.start
  BY DEF Piece, Pieces
<1>6. \A x \in X : Len(Piece(s, x).data) = x.end - x.start
  <2>1. ASSUME NEW x \in X
        PROVE  Len(Piece(s, x).data) = x.end - x.start
    <3> DEFINE n == x.end - x.start
               d == Piece(s, x).data
    <3>1. d = [i \in 1 .. n |-> <<s, x.start + i - 1>>] /\ n \in Nat
      BY <1>1 DEF Piece
    <3> HIDE DEF n, d
    <3>2. Len(d) = n
      BY <3>1
    <3> QED
      BY <3>2 DEF n, d
  <2> QED
    BY <2>1
<1>7. starts = {x.start : x \in X}
  BY <1>5
<1> HIDE DEF X, starts, s
<1>8. \A x \in X : x.start \in DOMAIN m /\ m[x.start] = Piece(s, x)
  <2>1. ASSUME NEW x \in X
        PROVE  x.start \in DOMAIN m /\ m[x.start] = Piece(s, x)
    <3>1. x.start \in starts
      BY <1>7
    <3>2. m[x.start] \in F /\ m[x.start].start = x.start /\ x.start \in DOMAIN m
      BY <1>3, <3>1
    <3>3. PICK y \in X : m[x.start] = Piece(s, y)
      BY <1>5, <3>2
    <3>4. y.start = x.start
      BY <1>5, <3>2, <3>3
    <3>5. y = x
      BY <1>2, <3>4
    <3> QED
      BY <3>2, <3>3, <3>5
  <2> QED
    BY <2>1
<1>9. ASSUME NEW o \in over
      PROVE  SubSeq(m[o].data, r.offset - o + 1, r.offset - o + r.len) = Wanted(r)
  <2>1. o \in starts /\ r.offset >= o /\ r.offset + r.len <= o + Len(m[o].data)
    BY <1>3
  <2>2. PICK x \in X : o = x.start
    BY <1>7, <2>1
  <2>3. m[o] = Piece(s, x) /\ Len(m[o].data) = x.end - x.start
    BY <1>6, <1>8, <2>2
  <2>4. x.start <= r.offset /\ r.offset + r.len <= x.end /\ x \in Spans
    BY <1>1, <1>4, <2>1, <2>2, <2>3
  <2> DEFINE d == m[o].data
  <2>5. d = Piece(r.segment, x).data
    BY <2>3 DEF s
  <2> HIDE DEF d, over
  <2>6. SubSeq(d, r.offset - o + 1, r.offset - o + r.len) = Wanted(r)
    BY <2>2, <2>4, <2>5, SliceIsWanted
  <2> QED
    BY <2>6 DEF d
<1>10. over # {}
  <2>1. PICK x \in X : x.start <= r.offset /\ r.offset + r.len <= x.end
    BY DEF Covers, X
  <2>2. x.start \in DOMAIN m /\ Len(m[x.start].data) = x.end - x.start
    BY <1>6, <1>8, <2>1
  <2>3. r.offset >= x.start /\ r.offset + r.len <= x.start + Len(m[x.start].data)
    BY <1>1, <1>4, <2>1, <2>2
  <2> QED
    BY <2>2, <2>3
<1>11. Served(m, r) = {SubSeq(m[o].data, r.offset - o + 1, r.offset - o + r.len) : o \in over}
  BY DEF Served
<1> HIDE DEF over
<1> QED
  BY <1>9, <1>10, <1>11

\* Some such map is there, so that a prefetch has a result.
LEMMA OffsetToDataExists ==
    ASSUME NEW F
    PROVE  \E m : m \in OffsetToData(F)
<1> DEFINE starts == {x.start : x \in F}
           m == [o \in starts |-> CHOOSE x \in F : x.start = o]
<1>1. ASSUME NEW o \in starts
      PROVE  m[o] \in F /\ m[o].start = o
  <2>1. \E x \in F : x.start = o
    OBVIOUS
  <2>2. m[o] = CHOOSE x \in F : x.start = o
    OBVIOUS
  <2> HIDE DEF m
  <2> QED
    BY <2>1, <2>2
<1>2. m = [o \in starts |-> m[o]]
  OBVIOUS
<1> HIDE DEF m
<1>3. m \in [starts -> F]
  BY <1>1, <1>2
<1> QED
  BY <1>1, <1>3 DEF OffsetToData

\* A prefetch in one segment, of any requests in any order, with any threshold, gives
\* each of them the bytes it asked for and nothing else.  (rvf2/prefetch.rs:81,
\* coalesce_ranges at 152)
THEOREM PrefetchExact ==
    ASSUME NEW rs \in Seq(DocRequests), NEW threshold \in Nat, NEW i \in DOMAIN rs,
           \A j \in DOMAIN rs : rs[j].segment = rs[i].segment
    PROVE  PrefetchResults(rs, threshold, i) = {Wanted(rs[i])}
<1> DEFINE r == rs[i]
           s == r.segment
           t == Coalesce(OfSegment(rs, s), threshold)
           F == Fetched(rs, threshold)
           Result(m) == IF Served(m, r) = {} THEN {<<>>} ELSE Served(m, r)
<1>1. rs # <<>> /\ r \in DocRequests
  <2>1. DOMAIN rs = 1 .. Len(rs)
    BY LenProperties
  <2>2. r \in DocRequests
    BY <2>1, ElementOfSeq
  <2>3. rs # <<>>
    BY <2>1
  <2> QED
    BY <2>2, <2>3
<1>2. /\ F = Pieces(s, t)
      /\ Apart(t)
      /\ \A k \in DOMAIN rs : Covers(t, rs[k])
  <2> DEFINE z == s
             u == t
  <2>1. \A j \in DOMAIN rs : rs[j].segment = z
    OBVIOUS
  <2>2. u = Coalesce(OfSegment(rs, z), threshold)
    OBVIOUS
  <2> HIDE DEF z, u
  <2>3. /\ Fetched(rs, threshold) = Pieces(z, u)
        /\ Apart(u)
        /\ \A k \in DOMAIN rs : Covers(u, rs[k])
    BY <1>1, <2>1, <2>2, FetchedGives
  <2> QED
    BY <2>3 DEF z, u
<1> HIDE DEF t, F, r
<1>3. \A m \in OffsetToData(F) : Served(m, r) = {Wanted(r)}
  <2>1. Covers(t, r)
    BY <1>2 DEF r
  <2> QED
    BY <1>1, <1>2, <2>1, ServedExactly
<1>4. \A m \in OffsetToData(F) : Result(m) = {Wanted(r)}
  BY <1>3
<1>5. \E m : m \in OffsetToData(F)
  BY OffsetToDataExists
<1>6. PrefetchResults(rs, threshold, i) = UNION {Result(m) : m \in OffsetToData(F)}
  BY DEF PrefetchResults, F, r
<1> HIDE DEF Result
<1> QED
  BY <1>4, <1>5, <1>6 DEF r

\* The requests of a prefetch are made one at a time.
LEMMA RequestsAre == MCSpec => [](requests \in Seq(DocRequests))
<1> DEFINE IInv == requests \in Seq(DocRequests)
<1>1. ASSUME MCInit
      PROVE  IInv
  BY <1>1 DEF MCInit, WriterInit
<1>2. ASSUME IInv, [MCNext]_<<vars, writing>>
      PROVE  IInv'
  <2>1. CASE UNCHANGED <<vars, writing>>
    BY <1>2, <2>1 DEF writing
  <2>2. CASE MCServe
    BY <1>2, <2>2 DEF MCServe, writing
  <2>3. CASE MCWrite
    <3>1. CASE WriterNext
      BY <1>2, <3>1 DEF WriterNext, AddDocument, SealSegment, MarkTombstone
    <3>2. CASE \E r \in FetchesOf(requests) : Request(r)
      <4>1. PICK r \in FetchesOf(requests) : Request(r)
        BY <3>2
      <4>2. r \in DocRequests
        BY SegmentFilesAssumption DEF FetchesOf, SegmentFilesAssumption, DocRequests
      <4>3. requests' = Append(requests, r)
        BY <4>1 DEF Request
      <4> QED
        BY <1>2, <4>2, <4>3, AppendProperties
    <3> QED
      BY <2>3, <3>1, <3>2 DEF MCWrite
  <2> QED
    BY <1>2, <2>1, <2>2, <2>3 DEF MCNext
<1> QED
  BY <1>1, <1>2, PTL DEF MCSpec

\* A prefetch of documents of one segment gives every request exactly the bytes it
\* asked for.  (rvf2/prefetch.rs)
THEOREM PrefetchedExactly == MCSpec => []PrefetchServes
<1>1. ASSUME requests \in Seq(DocRequests)
      PROVE  PrefetchServes
  <2> DEFINE G == {requests[i].segment : i \in DOMAIN requests}
  <2> SUFFICES ASSUME Cardinality(G) = 1, NEW i \in DOMAIN requests, NEW threshold \in Thresholds
               PROVE  PrefetchResults(requests, threshold, i) = {Wanted(requests[i])}
    BY DEF PrefetchServes
  <2>1. IsFiniteSet(G)
    <3> DEFINE D == DOMAIN requests
               f == [j \in D |-> requests[j].segment]
    <3>1. IsFiniteSet(D)
      BY <1>1, LenProperties, FS_Interval
    <3>2. f \in Surjection(D, G)
      <4>1. f \in [D -> G] /\ \A g \in G : \E j \in D : f[j] = g
        OBVIOUS
      <4> HIDE DEF f, D, G
      <4> QED
        BY <4>1 DEF Surjection
    <3> HIDE DEF f, D, G
    <3> QED
      BY <3>1, <3>2, FS_Surjection
  <2>2. PICK s : G = {s}
    <3> HIDE DEF G
    <3> QED
      BY <2>1, FS_Singleton
  <2>3. \A j \in DOMAIN requests : requests[j].segment = requests[i].segment
    BY <2>2
  <2>4. threshold \in Nat
    BY DEF Thresholds
  <2> QED
    BY <1>1, <2>3, <2>4, PrefetchExact
<1> QED
  BY <1>1, RequestsAre, PTL

-----------------------------------------------------------------------------
(* The document ix: the search by halves *)

DocEntries == [doc : Nat, segment : Nat, offset : Nat, len : Nat, tombstone : BOOLEAN]

\* One round of get, which search continues
Halve(ix, doc, search, at) ==
    LET left == at[1]
        right == at[2]
        mid == left + (right - left) \div 2
        entry == ix[mid + 1]
    IN IF left >= right THEN NotFound
       ELSE IF entry.doc = doc
            THEN IF entry.tombstone THEN NotFound ELSE [found |-> TRUE, entry |-> entry]
       ELSE IF entry.doc < doc THEN search[<<mid + 1, right>>] ELSE search[<<left, mid>>]

Bounds(n) == (0 .. n) \X (0 .. n)
Halves(f, ix, doc, n) == f = [at \in Bounds(n) |-> Halve(ix, doc, f, at)]

\* get is the recursion by those rounds.
LEMMA IndexGetIsHalves ==
    ASSUME NEW ix, NEW doc
    PROVE  IndexGet(ix, doc) =
             (CHOOSE f : Halves(f, ix, doc, Len(ix)))[<<0, Len(ix)>>]
BY DEF IndexGet, Halves, Halve, Bounds

\* A round goes on with fewer entries.
LEMMA HalfIsShorter ==
    ASSUME NEW n \in Nat, NEW at \in Bounds(n), at[1] < at[2],
           NEW mid, mid = at[1] + (at[2] - at[1]) \div 2
    PROVE  /\ mid \in Nat /\ at[1] <= mid /\ mid < at[2] /\ mid + 1 \in 1 .. n
           /\ <<mid + 1, at[2]>> \in Bounds(n) /\ at[2] - (mid + 1) < at[2] - at[1]
           /\ <<at[1], mid>> \in Bounds(n) /\ mid - at[1] < at[2] - at[1]
<1> DEFINE l == at[1]
           r == at[2]
<1>1. l \in 0 .. n /\ r \in 0 .. n /\ l < r
  BY DEF Bounds
<1>2. mid = l + (r - l) \div 2
  OBVIOUS
<1> HIDE DEF l, r
<1>3. mid \in Nat /\ l <= mid /\ mid < r
  BY <1>1, <1>2
<1>4. mid + 1 \in 0 .. n /\ mid + 1 \in 1 .. n /\ mid \in 0 .. n
  BY <1>1, <1>3
<1>5. r - (mid + 1) < r - l /\ mid - l < r - l
  BY <1>1, <1>3
<1> QED
  BY <1>1, <1>3, <1>4, <1>5 DEF l, r, Bounds

\* The recursion defines a function, for indexes of every length.
LEMMA HalvesExists ==
    ASSUME NEW ix, NEW doc, NEW n \in Nat
    PROVE  \E f : Halves(f, ix, doc, n)
<1> DEFINE Width(at) == at[2] - at[1]
           Upto(f, w) == \A at \in Bounds(n) : Width(at) <= w => f[at] = Halve(ix, doc, f, at)
           Known(w) == \E f : DOMAIN f = Bounds(n) /\ f = [at \in Bounds(n) |-> f[at]] /\ Upto(f, w)
           T == {w \in Nat : ~ Known(w)}
<1>1. \A at \in Bounds(n) : Width(at) \in Int /\ Width(at) <= n /\ at[1] \in Nat /\ at[2] \in Nat
  BY DEF Bounds
<1>2. ASSUME T # {}
      PROVE  FALSE
  <2>1. PICK w \in T : \A v \in T : w <= v
    <3>1. T \in SUBSET Nat
      OBVIOUS
    <3> HIDE DEF T
    <3> QED
      BY <1>2, <3>1, LeastNumber
  <2>2. w \in Nat /\ ~ Known(w)
    OBVIOUS
  <2>3. CASE w = 0
    <3> DEFINE f == [at \in Bounds(n) |-> NotFound]
    <3>1. \A at \in Bounds(n) : Width(at) <= 0 => at[1] >= at[2]
      BY <1>1
    <3>2. \A at \in Bounds(n) : Width(at) <= 0 => f[at] = Halve(ix, doc, f, at)
      BY <3>1 DEF Halve
    <3>3. Known(0)
      <4>1. DOMAIN f = Bounds(n) /\ f = [at \in Bounds(n) |-> f[at]]
        OBVIOUS
      <4> HIDE DEF f
      <4> QED
        BY <3>2, <4>1
    <3> HIDE DEF Known
    <3> QED
      BY <2>2, <2>3, <3>3
  <2>4. CASE w # 0
    <3>1. w - 1 \in Nat /\ w - 1 \notin T
      BY <2>1, <2>4
    <3>2. Known(w - 1)
      <4> HIDE DEF Known
      <4> QED
        BY <3>1
    <3>3. PICK g : Upto(g, w - 1)
      BY <3>2
    <3> DEFINE f == [at \in Bounds(n) |-> IF Width(at) <= w - 1 THEN g[at] ELSE Halve(ix, doc, g, at)]
    <3>4. \A at \in Bounds(n) : Width(at) <= w - 1 => f[at] = g[at]
      OBVIOUS
    <3>5. \A at \in Bounds(n) : ~ Width(at) <= w - 1 => f[at] = Halve(ix, doc, g, at)
      OBVIOUS
    <3>6. DOMAIN f = Bounds(n) /\ f = [at \in Bounds(n) |-> f[at]]
      OBVIOUS
    <3> HIDE DEF f
    <3>7. ASSUME NEW at \in Bounds(n), Width(at) <= w
          PROVE  Halve(ix, doc, f, at) = Halve(ix, doc, g, at)
      <4>1. CASE at[1] >= at[2]
        BY <4>1 DEF Halve
      <4>2. CASE ~ at[1] >= at[2]
        <5> DEFINE mid == at[1] + (at[2] - at[1]) \div 2
                   p == <<mid + 1, at[2]>>
                   q == <<at[1], mid>>
        <5>1. at[1] < at[2]
          BY <1>1, <4>2
        <5>2. /\ p \in Bounds(n) /\ at[2] - (mid + 1) < at[2] - at[1]
              /\ q \in Bounds(n) /\ mid - at[1] < at[2] - at[1] /\ mid \in Nat
          <6> DEFINE m == mid
          <6>1. m = at[1] + (at[2] - at[1]) \div 2
            OBVIOUS
          <6> HIDE DEF m
          <6>2. /\ <<m + 1, at[2]>> \in Bounds(n) /\ at[2] - (m + 1) < at[2] - at[1]
                /\ <<at[1], m>> \in Bounds(n) /\ m - at[1] < at[2] - at[1] /\ m \in Nat
            BY <5>1, <6>1, HalfIsShorter
          <6> QED
            BY <6>2 DEF m
        <5>3. Width(p) = at[2] - (mid + 1) /\ Width(q) = mid - at[1]
          OBVIOUS
        <5> HIDE DEF mid
        <5>4. Width(p) <= w - 1 /\ Width(q) <= w - 1
          BY <1>1, <2>2, <3>7, <5>2, <5>3
        <5>5. f[p] = g[p] /\ f[q] = g[q]
          BY <3>4, <5>2, <5>4
        <5> QED
          BY <5>5 DEF Halve, mid
      <4> QED
        BY <4>1, <4>2
    <3>8. ASSUME NEW at \in Bounds(n), Width(at) <= w
          PROVE  f[at] = Halve(ix, doc, f, at)
      <4>1. CASE Width(at) <= w - 1
        BY <3>3, <3>4, <3>7, <3>8, <4>1
      <4>2. CASE ~ Width(at) <= w - 1
        BY <3>5, <3>7, <3>8, <4>2
      <4> QED
        BY <4>1, <4>2
    <3>9. Known(w)
      BY <3>6, <3>8
    <3> HIDE DEF Known
    <3> QED
      BY <2>2, <3>9
  <2> QED
    BY <2>3, <2>4
<1>3. Known(n)
  <2> HIDE DEF Known
  <2> QED
    BY <1>2
<1>4. PICK f : DOMAIN f = Bounds(n) /\ f = [at \in Bounds(n) |-> f[at]] /\ Upto(f, n)
  BY <1>3
<1>5. \A at \in Bounds(n) : f[at] = Halve(ix, doc, f, at)
  BY <1>1, <1>4
<1>6. f = [at \in Bounds(n) |-> Halve(ix, doc, f, at)]
  BY <1>4, <1>5
<1> QED
  BY <1>6 DEF Halves

\* v is an entry of doc that is not dead
Hits(ix, n, doc, v) ==
    \E k \in 1 .. n : ix[k].doc = doc /\ ~ ix[k].tombstone /\ v = [found |-> TRUE, entry |-> ix[k]]

\* What get finds is a live entry of the document.  It finds one if the document has
\* entries and all of them are live.
LEMMA IndexGetGives ==
    ASSUME NEW ix, NEW n \in Nat, Len(ix) = n, \A k \in 1 .. n : ix[k] \in DocEntries,
           \A j, k \in 1 .. n : j < k => ix[j].doc <= ix[k].doc,
           NEW doc \in Nat, NEW got, got = IndexGet(ix, doc)
    PROVE  /\ got = NotFound \/ Hits(ix, n, doc, got)
           /\ (\E k \in 1 .. n : ix[k].doc = doc) /\ (\A k \in 1 .. n : ix[k].doc = doc => ~ ix[k].tombstone)
                => Hits(ix, n, doc, got)
<1> DEFINE f == CHOOSE g : Halves(g, ix, doc, n)
           Width(at) == at[2] - at[1]
           Live == \A k \in 1 .. n : ix[k].doc = doc => ~ ix[k].tombstone
           Within(at) == \E k \in 1 .. n : at[1] < k /\ k <= at[2] /\ ix[k].doc = doc
           Right(at) == /\ f[at] = NotFound \/ Hits(ix, n, doc, f[at])
                        /\ Live /\ Within(at) => Hits(ix, n, doc, f[at])
           T == {w \in Nat : \E at \in Bounds(n) : Width(at) <= w /\ ~ Right(at)}
<1>1. Halves(f, ix, doc, n)
  BY HalvesExists
<1>2. got = f[<<0, n>>]
  BY IndexGetIsHalves
<1> HIDE DEF f
<1>3. \A at \in Bounds(n) : f[at] = Halve(ix, doc, f, at)
  BY <1>1 DEF Halves
<1>4. \A at \in Bounds(n) : Width(at) \in Int /\ Width(at) <= n /\ at[1] \in Nat /\ at[2] \in Nat
  BY DEF Bounds
<1>5. ASSUME T # {}
      PROVE  FALSE
  <2>1. PICK w \in T : \A v \in T : w <= v
    <3>1. T \in SUBSET Nat
      OBVIOUS
    <3> HIDE DEF T
    <3> QED
      BY <1>5, <3>1, LeastNumber
  <2>2. w \in Nat /\ \E at \in Bounds(n) : Width(at) <= w /\ ~ Right(at)
    OBVIOUS
  <2>3. PICK at \in Bounds(n) : Width(at) <= w /\ ~ Right(at)
    BY <2>2
  <2>4. ASSUME NEW p \in Bounds(n), Width(p) < Width(at)
        PROVE  Right(p)
    <3>1. w - 1 \in Int /\ Width(p) <= w - 1
      BY <1>4, <2>2, <2>3, <2>4
    <3>2. CASE w = 0
      <4>1. p[1] >= p[2]
        BY <1>4, <3>1, <3>2
      <4>2. f[p] = NotFound
        BY <1>3, <4>1 DEF Halve
      <4>3. ~ Within(p)
        BY <1>4, <4>1
      <4> QED
        BY <4>2, <4>3
    <3>3. CASE w # 0
      <4>1. w - 1 \in Nat /\ w - 1 \notin T
        BY <2>1, <2>2, <3>3
      <4> HIDE DEF Right
      <4> QED
        BY <3>1, <4>1
    <3> QED
      BY <3>2, <3>3
  <2>5. CASE at[1] >= at[2]
    <3>1. f[at] = NotFound
      BY <1>3, <2>5 DEF Halve
    <3>2. ~ Within(at)
      BY <1>4, <2>5
    <3> QED
      BY <2>3, <3>1, <3>2
  <2>6. CASE ~ at[1] >= at[2]
    <3> DEFINE mid == at[1] + (at[2] - at[1]) \div 2
               e == ix[mid + 1]
               p == <<mid + 1, at[2]>>
               q == <<at[1], mid>>
    <3>1. at[1] < at[2]
      BY <1>4, <2>6
    <3>2. /\ p \in Bounds(n) /\ at[2] - (mid + 1) < at[2] - at[1] /\ mid + 1 \in 1 .. n
          /\ q \in Bounds(n) /\ mid - at[1] < at[2] - at[1] /\ mid \in Nat
      <4> DEFINE m == mid
      <4>1. m = at[1] + (at[2] - at[1]) \div 2
        OBVIOUS
      <4> HIDE DEF m
      <4>2. /\ <<m + 1, at[2]>> \in Bounds(n) /\ at[2] - (m + 1) < at[2] - at[1] /\ m + 1 \in 1 .. n
            /\ <<at[1], m>> \in Bounds(n) /\ m - at[1] < at[2] - at[1] /\ m \in Nat
        BY <3>1, <4>1, HalfIsShorter
      <4> QED
        BY <4>2 DEF m
    <3>3. f[at] = IF e.doc = doc
                  THEN IF e.tombstone THEN NotFound ELSE [found |-> TRUE, entry |-> e]
                  ELSE IF e.doc < doc THEN f[p] ELSE f[q]
      BY <1>3, <2>6 DEF Halve
    <3>4. Width(p) < Width(at) /\ Width(q) < Width(at)
      BY <3>2
    <3>5. p[1] = mid + 1 /\ p[2] = at[2] /\ q[1] = at[1] /\ q[2] = mid
      OBVIOUS
    <3> HIDE DEF mid, p, q
    <3>6. Right(p) /\ Right(q)
      <4> HIDE DEF Right, Width
      <4> QED
        BY <2>4, <3>2, <3>4
    <3>7. e \in DocEntries /\ e.doc \in Nat
      BY <3>2 DEF DocEntries
    <3>8. CASE e.doc = doc
      <4>1. CASE e.tombstone
        BY <2>3, <3>2, <3>3, <3>8, <4>1
      <4>2. CASE ~ e.tombstone
        <5>1. f[at] = [found |-> TRUE, entry |-> e]
          BY <3>3, <3>8, <4>2
        <5>2. Hits(ix, n, doc, f[at])
          BY <3>2, <3>8, <4>2, <5>1 DEF Hits
        <5> QED
          BY <2>3, <5>2
      <4> QED
        BY <4>1, <4>2
    <3>9. CASE e.doc # doc /\ e.doc < doc
      <4>1. f[at] = f[p]
        BY <3>3, <3>9
      <4>2. ASSUME Within(at)
            PROVE  Within(p)
        <5>1. PICK k \in 1 .. n : at[1] < k /\ k <= at[2] /\ ix[k].doc = doc
          BY <4>2
        <5>2. k = mid + 1 \/ k < mid + 1 \/ mid + 1 < k
          BY <3>2
        <5>3. ~ (k < mid + 1)
          BY <3>2, <3>7, <3>9, <5>1
        <5>4. mid + 1 < k
          BY <3>9, <5>1, <5>2, <5>3
        <5> QED
          BY <3>5, <5>1, <5>4
      <4> HIDE DEF Within, Live
      <4> QED
        BY <2>3, <3>6, <4>1, <4>2
    <3>10. CASE e.doc # doc /\ ~ e.doc < doc
      <4>1. f[at] = f[q]
        BY <3>3, <3>10
      <4>2. ASSUME Within(at)
            PROVE  Within(q)
        <5>1. PICK k \in 1 .. n : at[1] < k /\ k <= at[2] /\ ix[k].doc = doc
          BY <4>2
        <5>2. k = mid + 1 \/ k <= mid \/ mid + 1 < k
          BY <3>2
        <5>3. ~ (mid + 1 < k)
          BY <3>2, <3>7, <3>10, <5>1
        <5>4. k <= mid
          BY <3>10, <5>1, <5>2, <5>3
        <5> QED
          BY <3>5, <5>1, <5>4
      <4> HIDE DEF Within, Live
      <4> QED
        BY <2>3, <3>6, <4>1, <4>2
    <3> QED
      BY <3>8, <3>9, <3>10
  <2> QED
    BY <2>5, <2>6
<1>6. <<0, n>> \in Bounds(n) /\ Right(<<0, n>>)
  <2>1. <<0, n>> \in Bounds(n) /\ n \notin T /\ Width(<<0, n>>) <= n
    BY <1>5 DEF Bounds
  <2> HIDE DEF Right
  <2> QED
    BY <2>1
<1>7. Live /\ (\E k \in 1 .. n : ix[k].doc = doc) => Within(<<0, n>>)
  OBVIOUS
<1> HIDE DEF Within
<1> QED
  BY <1>2, <1>6, <1>7

\* index has n entries, those of the list entries, in the order of their documents
Builds(ix, n, entries) ==
    /\ n \in Nat /\ DOMAIN ix = 1 .. n /\ Len(ix) = n
    /\ \A k \in 1 .. n : ix[k] \in DocEntries
    /\ \A j, k \in 1 .. n : j < k => ix[j].doc <= ix[k].doc
    /\ \A k \in 1 .. n : \E i \in 1 .. n : ix[k] = entries[i]
    /\ \A i \in 1 .. n : \E k \in 1 .. n : ix[k] = entries[i]

\* The index has the entries that were given, in the order of their documents.
LEMMA BuildIndexGives ==
    ASSUME NEW entries \in Seq(DocEntries), NEW ix, ix = BuildIndex(entries), NEW n, n = Len(entries)
    PROVE  Builds(ix, n, entries)
<1> DEFINE key == [i \in DOMAIN entries |-> entries[i].doc]
           o == StableOrder(key)
<1>1. n \in Nat /\ DOMAIN entries = 1 .. n /\ \A k \in 1 .. n : entries[k] \in DocEntries
  BY LenProperties, ElementOfSeq
<1>2. key \in [1 .. n -> Nat] /\ \A k \in 1 .. n : key[k] = entries[k].doc
  BY <1>1 DEF DocEntries
<1>3. ix = [k \in 1 .. n |-> entries[o[k]]]
  BY <1>1 DEF BuildIndex
<1> HIDE DEF key
<1>4. /\ DOMAIN o = 1 .. n /\ \A p \in 1 .. n : o[p] \in 1 .. n
      /\ \A i \in 1 .. n : \E p \in 1 .. n : o[p] = i
      /\ \A p, q \in 1 .. n : p < q => key[o[p]] <= key[o[q]]
  BY <1>1, <1>2, StableOrderGives
<1> HIDE DEF o
<1>5. \A k \in 1 .. n : ix[k] = entries[o[k]]
  BY <1>3
<1>6. DOMAIN ix = 1 .. n /\ Len(ix) = n
  BY <1>1, <1>3
<1>7. \A k \in 1 .. n : ix[k] \in DocEntries
  BY <1>1, <1>4, <1>5
<1>8. ASSUME NEW j \in 1 .. n, NEW k \in 1 .. n, j < k
      PROVE  ix[j].doc <= ix[k].doc
  <2>1. o[j] \in 1 .. n /\ o[k] \in 1 .. n /\ key[o[j]] <= key[o[k]]
    BY <1>4, <1>8
  <2>2. ix[j].doc = key[o[j]] /\ ix[k].doc = key[o[k]]
    BY <1>2, <1>5, <2>1
  <2> QED
    BY <2>1, <2>2
<1>9. \A k \in 1 .. n : \E i \in 1 .. n : ix[k] = entries[i]
  BY <1>4, <1>5
<1>10. \A i \in 1 .. n : \E k \in 1 .. n : ix[k] = entries[i]
  BY <1>4, <1>5
<1> QED
  BY <1>1, <1>6, <1>7, <1>8, <1>9, <1>10 DEF Builds

-----------------------------------------------------------------------------
(* Segments: records that are read as they were added *)

\* No segment of MaxDocs records, none larger than size, reaches 2^32.
Fits(size) ==
    /\ size \in 1 .. U32 /\ SegmentHeader + MaxDocs * size <= U32
    /\ \A r \in Records : TotalSize(r) \in 1 .. size

SegmentsFit == \E size \in 1 .. U32 : Fits(size)

Bytes == ({"header"} \cup Records) \X Nat
Builders == [id : Nat, data : Seq(Bytes), offsets : Seq(Nat \X Nat \X Nat), doc_count : Nat]

\* The segment has r where its n-th offset is
Holds(b, n, r) ==
    LET o == b.offsets[n][2]
    IN /\ b.offsets[n] = <<r.doc, o, TotalSize(r)>>
       /\ o \in Nat /\ o + TotalSize(r) <= Len(b.data)
       /\ \A k \in 1 .. TotalSize(r) : b.data[o + k] = <<r, k>>

SoundSegment(b, size) ==
    /\ b \in Builders
    /\ b.doc_count = Len(b.offsets)
    /\ Len(b.data) <= SegmentHeader + b.doc_count * size
    /\ \A n \in 1 .. Len(b.offsets) : \E r \in Records : Holds(b, n, r)

\* What the parts of a record take.
LEMMA RecordSizes ==
    ASSUME NEW r \in Records
    PROVE  /\ r.doc \in Nat /\ r.pooled \in Nat /\ r.patches \in Nat /\ r.scales \in Nat
           /\ TotalSize(r) \in Nat /\ TotalSize(r) = HeaderSize + r.pooled + r.patches + r.scales
           /\ HeaderSize \in Nat \ {0} /\ TotalSize(r) >= HeaderSize
<1>1. r \in [doc : Nat, pooled : Nat, patches : Nat, scales : Nat] /\ HeaderSize \in Nat \ {0}
  BY SegmentFilesAssumption DEF SegmentFilesAssumption
<1>2. r.doc \in Nat /\ r.pooled \in Nat /\ r.patches \in Nat /\ r.scales \in Nat
  BY <1>1
<1>3. TotalSize(r) = HeaderSize + (r.pooled + r.patches + r.scales)
  BY DEF TotalSize, PayloadSize
<1> QED
  BY <1>1, <1>2, <1>3

\* A segment begins with its header.
LEMMA NewSegmentWhole ==
    ASSUME NEW size, Fits(size), NEW id \in Nat, NEW b, b = NewSegment(id)
    PROVE  SoundSegment(b, size) /\ b.id = id /\ b.doc_count = 0
<1> DEFINE d == [k \in 1 .. SegmentHeader |-> <<"header", k>>]
<1>1. SegmentHeader \in Nat
  BY SegmentFilesAssumption DEF SegmentFilesAssumption
<1>2. d \in Seq(Bytes) /\ Len(d) = SegmentHeader
  <2>1. d \in [1 .. SegmentHeader -> Bytes]
    BY <1>1 DEF Bytes
  <2> HIDE DEF d
  <2> QED
    BY <1>1, <2>1
<1>3. b = [id |-> id, data |-> d, offsets |-> <<>>, doc_count |-> 0]
  BY DEF NewSegment
<1> HIDE DEF d
<1>4. <<>> \in Seq(Nat \X Nat \X Nat) /\ Len(<<>>) = 0
  OBVIOUS
<1>5. b \in Builders /\ b.id = id /\ b.data = d /\ b.offsets = <<>> /\ b.doc_count = 0
  BY <1>2, <1>3, <1>4 DEF Builders
<1>6. 0 * size = 0
  BY DEF Fits
<1>7. Len(b.data) <= SegmentHeader + b.doc_count * size
  BY <1>1, <1>2, <1>5, <1>6
<1>8. \A n \in 1 .. Len(b.offsets) : FALSE
  BY <1>4, <1>5
<1> QED
  BY <1>4, <1>5, <1>7, <1>8 DEF SoundSegment

\* There is room for one record more.
LEMMA RoomForOne ==
    ASSUME NEW size, Fits(size), NEW n \in Nat, n < MaxDocs
    PROVE  /\ (n + 1) * size = n * size + size
           /\ n * size \in Nat /\ SegmentHeader + n * size < U32
<1>1. size \in Nat /\ size >= 1 /\ MaxDocs \in Nat /\ SegmentHeader \in Nat /\ U32 \in Nat
  BY SegmentFilesAssumption DEF SegmentFilesAssumption, Fits
<1>2. n * size \in Nat /\ (n + 1) * size = n * size + size
  BY <1>1
<1>3. MaxDocs = n + 1 + (MaxDocs - n - 1) /\ MaxDocs - n - 1 \in Nat
  BY <1>1
<1> DEFINE k == MaxDocs - n - 1
<1>4. MaxDocs * size = n * size + size + k * size /\ k * size \in Nat
  <2>1. k \in Nat /\ MaxDocs = n + 1 + k
    BY <1>3
  <2> HIDE DEF k
  <2>2. (n + 1 + k) * size = n * size + size + k * size
    BY <1>1, <2>1
  <2>3. k * size \in Nat
    BY <1>1, <2>1
  <2> QED
    BY <2>1, <2>2, <2>3
<1> HIDE DEF k
<1>5. SegmentHeader + MaxDocs * size <= U32
  BY DEF Fits
<1>6. SegmentHeader + n * size < U32
  BY <1>1, <1>2, <1>4, <1>5
<1> QED
  BY <1>2, <1>6

\* add_record leaves the records before it where they are.
LEMMA AddRecordWhole ==
    ASSUME NEW size, Fits(size), NEW b, SoundSegment(b, size), b.doc_count < MaxDocs,
           NEW r \in Records, NEW t, t = AddRecord(b, r)
    PROVE  SoundSegment(t, size) /\ t.id = b.id /\ t.doc_count = b.doc_count + 1
<1> DEFINE z == TotalSize(r)
           piece == [k \in 1 .. z |-> <<r, k>>]
           x == <<r.doc, Len(b.data) % U32, z>>
           d == b.data \o piece
           s == Append(b.offsets, x)
           l == Len(b.data)
           n == Len(b.offsets)
<1>1. /\ b.id \in Nat /\ b.data \in Seq(Bytes) /\ b.offsets \in Seq(Nat \X Nat \X Nat)
      /\ b.doc_count \in Nat /\ b.doc_count = n
      /\ b = [id |-> b.id, data |-> b.data, offsets |-> b.offsets, doc_count |-> b.doc_count]
  BY DEF SoundSegment, Builders
<1>2. z \in Nat /\ z <= size /\ size \in Nat /\ SegmentHeader \in Nat /\ U32 \in Nat \ {0} /\ r.doc \in Nat
  BY RecordSizes, SegmentFilesAssumption DEF SegmentFilesAssumption, Fits
<1>3. /\ (n + 1) * size = n * size + size
      /\ n * size \in Nat /\ SegmentHeader + n * size < U32
  BY <1>1, RoomForOne
<1>4. l \in Nat /\ l <= SegmentHeader + n * size
  BY <1>1, LenProperties DEF SoundSegment
<1>5. l % U32 = l
  <2>1. l < U32
    BY <1>2, <1>3, <1>4
  <2> HIDE DEF l
  <2> QED
    BY <1>2, <1>4, <2>1
<1>6. t = [id |-> b.id, data |-> d, offsets |-> s, doc_count |-> b.doc_count + 1]
  BY <1>1 DEF AddRecord
<1>7. piece \in Seq(Bytes) /\ Len(piece) = z /\ \A k \in 1 .. z : piece[k] = <<r, k>>
  <2>1. piece \in [1 .. z -> Bytes]
    BY DEF Bytes
  <2>2. \A k \in 1 .. z : piece[k] = <<r, k>>
    OBVIOUS
  <2> HIDE DEF piece, z
  <2> QED
    BY <1>2, <2>1, <2>2
<1> HIDE DEF piece, z
<1>8. /\ d \in Seq(Bytes) /\ Len(d) = l + z
      /\ \A k \in 1 .. l : d[k] = b.data[k]
      /\ \A k \in 1 .. z : d[l + k] = <<r, k>>
  <2>1. /\ d \in Seq(Bytes) /\ Len(d) = l + z
        /\ \A k \in 1 .. l + z : d[k] = IF k <= l THEN b.data[k] ELSE piece[k - l]
    <3> DEFINE c == b.data
    <3>1. c \in Seq(Bytes)
      BY <1>1
    <3> HIDE DEF c
    <3>2. /\ c \o piece \in Seq(Bytes) /\ Len(c \o piece) = Len(c) + Len(piece)
          /\ \A k \in 1 .. Len(c) + Len(piece) :
               (c \o piece)[k] = IF k <= Len(c) THEN c[k] ELSE piece[k - Len(c)]
      BY <1>7, <3>1, ConcatProperties
    <3>3. d = c \o piece /\ l = Len(c)
      BY DEF c
    <3> HIDE DEF d, l
    <3> QED
      BY <1>7, <3>2, <3>3 DEF c
  <2> HIDE DEF d
  <2>2. \A k \in 1 .. l : d[k] = b.data[k]
    BY <1>2, <1>4, <1>7, <2>1
  <2>3. ASSUME NEW k \in 1 .. z
        PROVE  d[l + k] = <<r, k>>
    <3>1. l + k \in 1 .. l + z /\ ~ (l + k <= l) /\ (l + k) - l = k
      BY <1>2, <1>4
    <3> QED
      BY <1>7, <2>1, <3>1
  <2> QED
    BY <2>1, <2>2, <2>3
<1>9. x \in Nat \X Nat \X Nat /\ x = <<r.doc, l, z>> /\ x[2] = l
  BY <1>2, <1>4, <1>5
<1> HIDE DEF x, d
<1>10. /\ s \in Seq(Nat \X Nat \X Nat) /\ Len(s) = n + 1 /\ s[n + 1] = x
       /\ \A k \in 1 .. n : s[k] = b.offsets[k]
  BY <1>1, <1>9, AppendProperties
<1>11. n \in Nat
  BY <1>1, LenProperties
<1> HIDE DEF s, l, n
<1>12. t \in Builders /\ t.id = b.id /\ t.data = d /\ t.offsets = s /\ t.doc_count = n + 1
  BY <1>1, <1>6, <1>8, <1>10, <1>11 DEF Builders
<1>13. Len(t.data) <= SegmentHeader + t.doc_count * size
  <2>1. Len(t.data) = l + z /\ t.doc_count * size = n * size + size
    BY <1>3, <1>8, <1>12
  <2> QED
    BY <1>2, <1>3, <1>4, <2>1
<1>14. ASSUME NEW k \in 1 .. n + 1
       PROVE  \E q \in Records : Holds(t, k, q)
  <2>1. CASE k = n + 1
    <3>1. t.offsets[k] = <<r.doc, l, z>> /\ t.offsets[k][2] = l
      BY <1>9, <1>10, <1>12, <2>1
    <3>2. l + z <= Len(t.data) /\ \A j \in 1 .. z : t.data[l + j] = <<r, j>>
      <4>1. l + z \in Nat /\ l + z <= l + z
        BY <1>2, <1>4
      <4> QED
        BY <1>8, <1>12, <4>1
    <3>3. Holds(t, k, r)
      BY <1>4, <3>1, <3>2 DEF Holds, z
    <3> QED
      BY <3>3
  <2>2. CASE k # n + 1
    <3>1. k \in 1 .. n
      BY <1>11, <2>2
    <3>2. PICK q \in Records : Holds(b, k, q)
      BY <3>1 DEF SoundSegment, n
    <3> DEFINE o == b.offsets[k][2]
               y == TotalSize(q)
    <3>3. /\ b.offsets[k] = <<q.doc, o, y>> /\ o \in Nat /\ o + y <= l
          /\ \A j \in 1 .. y : b.data[o + j] = <<q, j>>
      BY <3>2 DEF Holds, l
    <3>4. t.offsets[k] = b.offsets[k] /\ t.offsets[k][2] = o
      BY <1>10, <1>12, <3>1
    <3>5. y \in Nat
      BY RecordSizes
    <3> HIDE DEF y, o
    <3>6. \A j \in 1 .. y : o + j \in 1 .. l
      BY <1>4, <3>3, <3>5
    <3>7. \A j \in 1 .. y : t.data[o + j] = <<q, j>>
      BY <1>8, <1>12, <3>3, <3>6
    <3>8. o + y <= Len(t.data)
      BY <1>2, <1>4, <1>8, <1>12, <3>3, <3>5
    <3>9. Holds(t, k, q)
      BY <3>3, <3>4, <3>7, <3>8 DEF Holds, y
    <3> QED
      BY <3>9
  <2> QED
    BY <2>1, <2>2
<1> QED
  BY <1>1, <1>10, <1>12, <1>13, <1>14 DEF SoundSegment

\* What get_record is to give for a record
Part(r, from, n) == [k \in 1 .. n |-> <<r, from + k>>]
Read(r) ==
    [found |-> TRUE, doc |-> r.doc,
     pooled |-> Part(r, HeaderSize, r.pooled),
     patches |-> Part(r, HeaderSize + r.pooled, r.patches),
     scales |-> Part(r, HeaderSize + r.pooled + r.patches, r.scales)]

\* d has the z bytes of r after o
Has(d, o, z, r) == \A k \in 1 .. z : d[o + k] = <<r, k>>

\* A part of a record is read from the bytes it was written to.
LEMMA PartIsRead ==
    ASSUME NEW r, NEW d, NEW o \in Nat, NEW z \in Nat, Has(d, o, z, r),
           NEW from \in Nat, NEW n \in Nat, from + n <= z,
           NEW t, t = SubSeq(d, o + from + 1, o + from + n)
    PROVE  t = Part(r, from, n)
<1> DEFINE a == o + from + 1
           b == o + from + n
           u == SubSeq(d, a, b)
           w == [k \in 1 .. n |-> <<r, from + k>>]
           S == {r} \X Nat
<1>1. a \in Int /\ b \in Int /\ b - a + 1 = n
  OBVIOUS
<1>2. \A k \in 1 .. n : d[a + k - 1] = <<r, from + k>>
  <2>1. ASSUME NEW k \in 1 .. n
        PROVE  d[a + k - 1] = <<r, from + k>>
    <3>1. from + k \in 1 .. z /\ a + k - 1 = o + (from + k)
      OBVIOUS
    <3> QED
      BY <3>1 DEF Has
  <2> QED
    BY <2>1
<1>3. \A i \in a .. b : d[i] \in S
  <2>1. ASSUME NEW i \in a .. b
        PROVE  d[i] \in S
    <3>1. i - a + 1 \in 1 .. n /\ a + (i - a + 1) - 1 = i /\ from + (i - a + 1) \in Nat
      OBVIOUS
    <3>2. d[i] = <<r, from + (i - a + 1)>>
      <4> HIDE DEF a, b
      <4> QED
        BY <1>2, <3>1
    <3> QED
      BY <3>1, <3>2
  <2> QED
    BY <2>1
<1> HIDE DEF a, b, S
<1>4. /\ u \in Seq(S) /\ Len(u) = IF a <= b THEN b - a + 1 ELSE 0
      /\ \A i \in 1 .. b - a + 1 : u[i] = d[a + i - 1]
  BY <1>1, <1>3, SubSeqProperties
<1> HIDE DEF u
<1>5. Len(u) = n
  BY <1>1, <1>4
<1>6. DOMAIN u = 1 .. n /\ u = [k \in 1 .. n |-> u[k]]
  <2>1. u \in [1 .. Len(u) -> S]
    BY <1>4, LenProperties
  <2> QED
    BY <1>5, <2>1
<1>7. \A k \in 1 .. n : u[k] = <<r, from + k>>
  BY <1>1, <1>2, <1>4
<1>8. u = w
  BY <1>6, <1>7
<1> QED
  BY <1>8 DEF u, a, b, Part

\* get_record reads the record that add_record put there.
LEMMA RecordIsRead ==
    ASSUME NEW b, NEW size, SoundSegment(b, size), NEW n \in 1 .. Len(b.offsets), NEW r \in Records, Holds(b, n, r)
    PROVE  GetRecord(b.data, b.offsets[n][2], b.offsets[n][3]) = Read(r)
<1> DEFINE d == b.data
           o == b.offsets[n][2]
           z == TotalSize(r)
           at == d[o + 1]
           part(from, m) == SubSeq(d, o + from + 1, o + from + m)
<1>1. /\ b.offsets[n] = <<r.doc, o, z>> /\ o \in Nat /\ o + z <= Len(d)
      /\ \A k \in 1 .. z : d[o + k] = <<r, k>>
  BY DEF Holds
<1>2. /\ r.pooled \in Nat /\ r.patches \in Nat /\ r.scales \in Nat
      /\ z \in Nat /\ z = HeaderSize + r.pooled + r.patches + r.scales
      /\ HeaderSize \in Nat \ {0} /\ z >= HeaderSize
  BY RecordSizes
<1>3. b.offsets[n][3] = z
  BY <1>1
<1>4. Len(d) \in Nat
  BY LenProperties DEF SoundSegment, Builders
<1>5. at = <<r, 1>>
  <2>1. 1 \in 1 .. z
    BY <1>2
  <2> QED
    BY <1>1, <2>1
<1>6. ~ (o + z > Len(d) \/ z < HeaderSize)
  <2> DEFINE l == Len(d)
             h == HeaderSize
  <2>1. o \in Nat /\ z \in Nat /\ l \in Nat /\ h \in Nat /\ o + z <= l /\ z >= h
    BY <1>1, <1>2, <1>4
  <2> HIDE DEF d, o, z, l, h
  <2>2. ~ (o + z > l \/ z < h)
    BY <2>1
  <2> QED
    BY <2>2 DEF l, h
<1>7. ~ (at[2] # 1 \/ TotalSize(at[1]) # z)
  BY <1>5
<1>8. GetRecord(d, o, z) =
        [found |-> TRUE, doc |-> at[1].doc,
         pooled |-> part(HeaderSize, at[1].pooled),
         patches |-> part(HeaderSize + at[1].pooled, at[1].patches),
         scales |-> part(HeaderSize + at[1].pooled + at[1].patches, at[1].scales)]
  <2> HIDE DEF d, o, z
  <2> QED
    BY <1>6, <1>7 DEF GetRecord
<1>9. at[1] = r
  BY <1>5
<1>10. o \in Nat /\ z \in Nat /\ Has(d, o, z, r)
  BY <1>1, <1>2 DEF Has
<1> HIDE DEF d, o, z, at
<1>11. ASSUME NEW from \in Nat, NEW m \in Nat, from + m <= z
       PROVE  part(from, m) = Part(r, from, m)
  <2> DEFINE t == part(from, m)
  <2>1. t = SubSeq(d, o + from + 1, o + from + m)
    OBVIOUS
  <2> HIDE DEF t
  <2>2. t = Part(r, from, m)
    BY <1>10, <1>11, <2>1, PartIsRead
  <2> QED
    BY <2>2 DEF t
<1>12. /\ part(HeaderSize, r.pooled) = Part(r, HeaderSize, r.pooled)
       /\ part(HeaderSize + r.pooled, r.patches) = Part(r, HeaderSize + r.pooled, r.patches)
       /\ part(HeaderSize + r.pooled + r.patches, r.scales) = Part(r, HeaderSize + r.pooled + r.patches, r.scales)
  <2>1. HeaderSize \in Nat /\ HeaderSize + r.pooled <= z
    BY <1>2
  <2>2. HeaderSize + r.pooled \in Nat /\ HeaderSize + r.pooled + r.patches <= z
    BY <1>2
  <2>3. HeaderSize + r.pooled + r.patches \in Nat /\ HeaderSize + r.pooled + r.patches + r.scales <= z
    BY <1>2
  <2> HIDE DEF part
  <2> QED
    BY <1>2, <1>11, <2>1, <2>2, <2>3
<1>13. GetRecord(d, o, z) = Read(r)
  BY <1>8, <1>9, <1>12 DEF Read
<1> QED
  BY <1>3, <1>13 DEF d, o

\* A finite set of numbers has a greatest one.
LEMMA GreatestNumber ==
    ASSUME NEW S \in SUBSET Nat, IsFiniteSet(S), S # {}
    PROVE  Greatest(S) \in S /\ \A y \in S : y <= Greatest(S)
<1> DEFINE R == {p \in Nat \X Nat : p[1] <= p[2]}
<1>1. \A x, y \in Nat : <<x, y>> \in R <=> x <= y
  OBVIOUS
<1> HIDE DEF R
<1>2. Ranks(R, S)
  <2>1. \A x, y \in S : x <= y \/ y <= x
    OBVIOUS
  <2>2. \A x, y, z \in S : x <= y /\ y <= z => x <= z
    OBVIOUS
  <2> QED
    BY <1>1, <2>1, <2>2 DEF Ranks
<1>3. PICK m \in S : \A x \in S : <<x, m>> \in R
  BY <1>2, LastOfRanked
<1>4. \A x \in S : x <= m
  BY <1>1, <1>3
<1> QED
  BY <1>4 DEF Greatest

\* Any set of numbers has a least one.
LEMMA LeastOfNumbers ==
    ASSUME NEW S \in SUBSET Nat, S # {}
    PROVE  Least(S) \in S /\ \A y \in S : Least(S) <= y
<1>1. PICK m \in S : \A n \in S : m <= n
  BY LeastNumber
<1> QED
  BY <1>1 DEF Least

\* The metadata of a segment has the range of its documents.
LEMMA MetaGives ==
    ASSUME NEW b, NEW size, SoundSegment(b, size), b.offsets # <<>>, NEW m, m = MetaOf(b)
    PROVE  /\ m.segment_id = b.id /\ m.doc_count = b.doc_count
           /\ m.min_doc_id \in Nat /\ m.max_doc_id \in Nat
           /\ \A n \in 1 .. Len(b.offsets) : m.min_doc_id <= b.offsets[n][1] /\ b.offsets[n][1] <= m.max_doc_id
<1> DEFINE l == Len(b.offsets)
           docs == {b.offsets[i][1] : i \in DOMAIN b.offsets}
<1>1. /\ b.offsets \in Seq(Nat \X Nat \X Nat) /\ l \in Nat /\ DOMAIN b.offsets = 1 .. l /\ l # 0
  <2>1. b.offsets \in Seq(Nat \X Nat \X Nat)
    BY DEF SoundSegment, Builders
  <2> QED
    BY <2>1, LenProperties, EmptySeq
<1>2. \A i \in 1 .. l : b.offsets[i] \in Nat \X Nat \X Nat
  BY <1>1, ElementOfSeq
<1>3. docs \in SUBSET Nat /\ docs # {}
  <2>1. \A i \in 1 .. l : b.offsets[i][1] \in Nat
    BY <1>2
  <2>2. 1 \in 1 .. l
    BY <1>1
  <2> QED
    BY <1>1, <2>1, <2>2
<1>4. IsFiniteSet(docs)
  <2> DEFINE D == DOMAIN b.offsets
             f == [j \in D |-> b.offsets[j][1]]
  <2>1. IsFiniteSet(D)
    BY <1>1, FS_Interval
  <2>2. f \in Surjection(D, docs)
    <3>1. f \in [D -> docs] /\ \A g \in docs : \E j \in D : f[j] = g
      OBVIOUS
    <3> HIDE DEF f, D, docs
    <3> QED
      BY <3>1 DEF Surjection
  <2> HIDE DEF f, D, docs
  <2> QED
    BY <2>1, <2>2, FS_Surjection
<1>5. m = [segment_id |-> b.id, doc_count |-> b.doc_count,
           min_doc_id |-> IF docs = {} THEN U32 ELSE Least(docs),
           max_doc_id |-> IF docs = {} THEN 0 ELSE Greatest(docs)]
  BY DEF MetaOf
<1>6. \A n \in 1 .. l : b.offsets[n][1] \in docs
  BY <1>1
<1> HIDE DEF docs, l
<1>7. /\ Least(docs) \in docs /\ \A y \in docs : Least(docs) <= y
      /\ Greatest(docs) \in docs /\ \A y \in docs : y <= Greatest(docs)
  BY <1>3, <1>4, LeastOfNumbers, GreatestNumber
<1>8. m.segment_id = b.id /\ m.doc_count = b.doc_count /\ m.min_doc_id = Least(docs) /\ m.max_doc_id = Greatest(docs)
  <2>1. m = [segment_id |-> b.id, doc_count |-> b.doc_count,
             min_doc_id |-> Least(docs), max_doc_id |-> Greatest(docs)]
    BY <1>3, <1>5
  <2> DEFINE x == Least(docs)
             y == Greatest(docs)
  <2> HIDE DEF x, y
  <2>2. m = [segment_id |-> b.id, doc_count |-> b.doc_count, min_doc_id |-> x, max_doc_id |-> y]
    BY <2>1 DEF x, y
  <2>3. m.segment_id = b.id /\ m.doc_count = b.doc_count /\ m.min_doc_id = x /\ m.max_doc_id = y
    BY <2>2
  <2> QED
    BY <2>3 DEF x, y
<1> QED
  BY <1>3, <1>6, <1>7, <1>8 DEF l

-----------------------------------------------------------------------------
(* The index that is written: the invariant *)

\* Segment n is sealed with what it holds
Sealed(n, size) ==
    LET b == index.segments[n]
    IN SoundSegment(b, size) /\ b.id = n - 1 /\ b.offsets # <<>>

\* The manifest lists the segments in order
Listed ==
    /\ Len(index.manifest.segments) = Len(index.segments)
    /\ \A n \in 1 .. Len(index.segments) : index.manifest.segments[n] = MetaOf(index.segments[n])
    /\ index.manifest.total_docs = Len(index.entries)

\* e is what a segment says of one of its records
Points(e, segments) ==
    /\ e.segment + 1 \in 1 .. Len(segments)
    /\ \E p \in 1 .. Len(segments[e.segment + 1].offsets) :
          segments[e.segment + 1].offsets[p] = <<e.doc, e.offset, e.len>>

Entered ==
    /\ index.entries \in Seq(DocEntries)
    /\ \A i \in 1 .. Len(index.entries) : Points(index.entries[i], index.segments)

Indexes(size) ==
    /\ index = [builder |-> index.builder, segments |-> index.segments,
                manifest |-> index.manifest, entries |-> index.entries]
    /\ index.manifest = [segments |-> index.manifest.segments, total_docs |-> index.manifest.total_docs]
    /\ SoundSegment(index.builder, size) /\ index.builder.id = Len(index.segments)
    /\ index.segments \in Seq(Builders) /\ \A n \in 1 .. Len(index.segments) : Sealed(n, size)
    /\ index.manifest.segments \in Seq({MetaOf(b) : b \in Builders})
    /\ Listed /\ Entered
    /\ Len(index.segments) <= Len(index.entries)
    /\ Len(index.entries) + index.builder.doc_count <= MaxDocs

\* What a writer starts from.
LEMMA IndexStarts ==
    ASSUME NEW size, Fits(size), WriterInit
    PROVE  Indexes(size)
<1> DEFINE b == NewSegment(NextSegmentId(NewManifest))
<1>1. index = [builder |-> b, segments |-> <<>>, manifest |-> NewManifest, entries |-> <<>>]
  BY DEF WriterInit
<1>2. NextSegmentId(NewManifest) = 0 /\ NewManifest = [segments |-> <<>>, total_docs |-> 0]
  BY DEF NewManifest, NextSegmentId
<1>3. SoundSegment(b, size) /\ b.id = 0 /\ b.doc_count = 0
  <2> DEFINE c == b
  <2>1. c = NewSegment(0)
    BY <1>2
  <2> HIDE DEF c
  <2>2. SoundSegment(c, size) /\ c.id = 0 /\ c.doc_count = 0
    BY <2>1, NewSegmentWhole
  <2> QED
    BY <2>2 DEF c
<1> HIDE DEF b
<1>4. /\ index.builder = b /\ index.segments = <<>> /\ index.manifest = NewManifest /\ index.entries = <<>>
      /\ index.manifest.segments = <<>> /\ index.manifest.total_docs = 0
  BY <1>1, <1>2
<1>5. Len(<<>>) = 0 /\ <<>> \in Seq(Builders) /\ <<>> \in Seq({MetaOf(x) : x \in Builders}) /\ <<>> \in Seq(DocEntries)
  OBVIOUS
<1>6. Listed /\ Entered
  BY <1>4, <1>5 DEF Listed, Entered
<1>7. MaxDocs \in Nat
  BY SegmentFilesAssumption DEF SegmentFilesAssumption
<1>8. \A n \in 1 .. Len(index.segments) : Sealed(n, size)
  BY <1>4, <1>5
<1>9. /\ index.builder.id = Len(index.segments) /\ Len(index.segments) <= Len(index.entries)
      /\ Len(index.entries) + index.builder.doc_count <= MaxDocs
  <2>1. /\ index.builder.id = 0 /\ Len(index.segments) = 0
        /\ Len(index.entries) = 0 /\ index.builder.doc_count = 0
    BY <1>3, <1>4, <1>5
  <2> QED
    BY <1>7, <2>1
<1>10. index.segments \in Seq(Builders) /\ index.manifest.segments \in Seq({MetaOf(x) : x \in Builders})
  BY <1>4, <1>5
<1>11. /\ index = [builder |-> index.builder, segments |-> index.segments,
                   manifest |-> index.manifest, entries |-> index.entries]
       /\ index.manifest = [segments |-> index.manifest.segments, total_docs |-> index.manifest.total_docs]
       /\ SoundSegment(index.builder, size)
  BY <1>1, <1>2, <1>3, <1>4
<1> QED
  BY <1>6, <1>8, <1>9, <1>10, <1>11 DEF Indexes

\* A record is added to the segment that is being built.
LEMMA DocumentAdded ==
    ASSUME NEW size, Fits(size), Indexes(size), NEW r \in Records, AddDocument(r)
    PROVE  Indexes(size)'
<1> DEFINE b == index.builder
           t == AddRecord(b, r)
<1>1. /\ index.manifest.total_docs + b.doc_count < MaxDocs
      /\ index' = [index EXCEPT !.builder = t]
  BY DEF AddDocument
<1>2. /\ SoundSegment(b, size) /\ b.doc_count \in Nat /\ Len(index.entries) \in Nat
      /\ index.manifest.total_docs = Len(index.entries) /\ b.id = Len(index.segments)
  BY LenProperties DEF Indexes, Listed, SoundSegment, Builders, Entered
<1>3. MaxDocs \in Nat /\ b.doc_count < MaxDocs
  <2> DEFINE n == Len(index.entries)
             c == b.doc_count
  <2>1. n + c < MaxDocs /\ n \in Nat /\ c \in Nat /\ MaxDocs \in Nat
    BY <1>1, <1>2, SegmentFilesAssumption DEF SegmentFilesAssumption
  <2> HIDE DEF n, c
  <2>2. c < MaxDocs
    BY <2>1
  <2> QED
    BY <2>1, <2>2 DEF c
<1>4. SoundSegment(t, size) /\ t.id = b.id /\ t.doc_count = b.doc_count + 1
  <2> DEFINE c == b
             u == t
  <2>1. u = AddRecord(c, r) /\ SoundSegment(c, size) /\ c.doc_count < MaxDocs
    BY <1>2, <1>3
  <2> HIDE DEF c, u
  <2>2. SoundSegment(u, size) /\ u.id = c.id /\ u.doc_count = c.doc_count + 1
    BY <2>1, AddRecordWhole
  <2> QED
    BY <2>2 DEF c, u
<1> HIDE DEF t, b
<1>5. index = [builder |-> b, segments |-> index.segments, manifest |-> index.manifest, entries |-> index.entries]
  BY DEF Indexes, b
<1>6. index' = [builder |-> t, segments |-> index.segments, manifest |-> index.manifest, entries |-> index.entries]
  BY <1>1, <1>5
<1>7. /\ index'.builder = t /\ index'.segments = index.segments
      /\ index'.manifest = index.manifest /\ index'.entries = index.entries
  BY <1>6
<1>8. /\ index' = [builder |-> index'.builder, segments |-> index'.segments,
                   manifest |-> index'.manifest, entries |-> index'.entries]
  BY <1>6, <1>7
<1>9. Len(index.entries) + t.doc_count <= MaxDocs
  BY <1>1, <1>2, <1>3, <1>4
<1>10. Listed' /\ Entered'
  BY <1>7 DEF Indexes, Listed, Entered
<1>11. \A n \in 1 .. Len(index'.segments) : Sealed(n, size)'
  BY <1>7 DEF Indexes, Sealed
<1> QED
  BY <1>2, <1>4, <1>7, <1>8, <1>9, <1>10, <1>11 DEF Indexes

\* A tombstone is all that changes of an entry.
LEMMA TombstoneMarked ==
    ASSUME NEW size, Indexes(size), NEW i \in DOMAIN index.entries, MarkTombstone(i)
    PROVE  Indexes(size)'
<1> DEFINE es == index.entries
           e == es[i]
           x == [e EXCEPT !.tombstone = TRUE]
           fs == [es EXCEPT ![i] = x]
<1>1. index' = [index EXCEPT !.entries = fs]
  BY DEF MarkTombstone
<1>2. es \in Seq(DocEntries) /\ Len(es) \in Nat /\ DOMAIN es = 1 .. Len(es) /\ i \in 1 .. Len(es)
  BY LenProperties DEF Indexes, Entered
<1>3. e \in DocEntries
  BY <1>2, ElementOfSeq
<1>4. x \in DocEntries /\ x.doc = e.doc /\ x.segment = e.segment /\ x.offset = e.offset /\ x.len = e.len
  BY <1>3 DEF DocEntries
<1> HIDE DEF x, e
<1>5. fs \in Seq(DocEntries) /\ Len(fs) = Len(es) /\ fs[i] = x /\ \A k \in 1 .. Len(es) : k # i => fs[k] = es[k]
  <2> DEFINE n == Len(es)
  <2>1. es \in [1 .. n -> DocEntries] /\ n \in Nat
    BY <1>2, LenProperties
  <2> HIDE DEF n, es
  <2>2. fs \in [1 .. n -> DocEntries] /\ fs[i] = x /\ \A k \in 1 .. n : k # i => fs[k] = es[k]
    BY <1>2, <1>4, <2>1 DEF n
  <2> HIDE DEF fs
  <2>3. fs \in Seq(DocEntries) /\ Len(fs) = n
    BY <2>1, <2>2
  <2> QED
    BY <2>2, <2>3 DEF n
<1> HIDE DEF fs, es
<1>6. index = [builder |-> index.builder, segments |-> index.segments, manifest |-> index.manifest, entries |-> es]
  BY DEF Indexes, es
<1>7. index' = [builder |-> index.builder, segments |-> index.segments, manifest |-> index.manifest, entries |-> fs]
  BY <1>1, <1>6
<1>8. /\ index'.builder = index.builder /\ index'.segments = index.segments
      /\ index'.manifest = index.manifest /\ index'.entries = fs /\ es = index.entries
  BY <1>7 DEF es
<1>9. index' = [builder |-> index'.builder, segments |-> index'.segments,
                manifest |-> index'.manifest, entries |-> index'.entries]
  BY <1>7, <1>8
<1>10. ASSUME NEW k \in 1 .. Len(fs)
       PROVE  Points(fs[k], index.segments)
  <2>1. Points(es[k], index.segments)
    BY <1>5, <1>8 DEF Indexes, Entered
  <2>2. CASE k = i
    BY <1>4, <1>5, <2>1, <2>2 DEF Points, e
  <2>3. CASE k # i
    BY <1>5, <2>1, <2>3
  <2> QED
    BY <2>2, <2>3
<1>11. Listed' /\ Entered'
  BY <1>5, <1>8, <1>10 DEF Indexes, Listed, Entered
<1>12. \A n \in 1 .. Len(index'.segments) : Sealed(n, size)'
  BY <1>8 DEF Indexes, Sealed
<1> QED
  BY <1>5, <1>8, <1>9, <1>11, <1>12 DEF Indexes

\* There are fewer segments than 2^32.
LEMMA MaxDocsFits ==
    ASSUME NEW size, Fits(size)
    PROVE  MaxDocs \in Nat /\ MaxDocs < U32 /\ U32 \in Nat
<1>1. size \in Nat /\ size >= 1 /\ MaxDocs \in Nat /\ SegmentHeader \in Nat \ {0} /\ U32 \in Nat
  BY SegmentFilesAssumption DEF SegmentFilesAssumption, Fits
<1> DEFINE k == size - 1
           p == MaxDocs * k
<1>2. k \in Nat /\ size = 1 + k
  BY <1>1
<1> HIDE DEF k
<1>3. MaxDocs * (1 + k) = MaxDocs + p /\ p \in Nat
  BY <1>1, <1>2
<1>4. SegmentHeader + MaxDocs * (1 + k) <= U32
  BY <1>2 DEF Fits
<1> HIDE DEF p
<1>5. SegmentHeader + (MaxDocs + p) <= U32
  BY <1>3, <1>4
<1> QED
  BY <1>1, <1>3, <1>5

\* A number of 32 bits is cut to itself.
LEMMA SmallModulo ==
    ASSUME NEW a \in Nat, NEW b \in Nat, a < b
    PROVE  a % b = a
OBVIOUS

\* Segments are numbered as they are listed.
LEMMA NextSegmentIdGives ==
    ASSUME NEW size, Fits(size), NEW n \in Nat, n < MaxDocs,
           NEW m, DOMAIN m.segments = 1 .. n + 1, m.segments # <<>>,
           \A i \in 1 .. n + 1 : m.segments[i].segment_id = i - 1
    PROVE  NextSegmentId(m) = n + 1
<1> DEFINE S == {m.segments[i].segment_id : i \in DOMAIN m.segments}
<1>1. n \in S /\ \A y \in S : y \in Nat /\ y <= n
  <2>1. n + 1 \in 1 .. n + 1 /\ (n + 1) - 1 = n
    OBVIOUS
  <2>2. \A i \in 1 .. n + 1 : i - 1 \in Nat /\ i - 1 <= n
    OBVIOUS
  <2> QED
    BY <2>1, <2>2
<1> HIDE DEF S
<1>2. Greatest(S) = n
  <2>1. \E x \in S : \A y \in S : y <= x
    BY <1>1
  <2>2. Greatest(S) \in S /\ \A y \in S : y <= Greatest(S)
    BY <2>1 DEF Greatest
  <2> DEFINE g == Greatest(S)
  <2> HIDE DEF g
  <2>3. g \in Nat /\ g <= n /\ n <= g
    BY <1>1, <2>2 DEF g
  <2>4. g = n
    BY <2>3
  <2> QED
    BY <2>4 DEF g
<1>3. NextSegmentId(m) = (n + 1) % U32
  BY <1>2 DEF NextSegmentId, S
<1>4. n + 1 \in Nat /\ n + 1 < U32 /\ U32 \in Nat
  BY MaxDocsFits
<1>5. (n + 1) % U32 = n + 1
  BY <1>4, SmallModulo
<1> QED
  BY <1>3, <1>5

\* What the document index gets of a segment
NewEntries(b) ==
    [i \in DOMAIN b.offsets |-> DocEntry(b.offsets[i][1], b.id, b.offsets[i][2], b.offsets[i][3], FALSE)]

\* They are what the segment says of its records.
LEMMA NewEntriesGive ==
    ASSUME NEW b, NEW size, SoundSegment(b, size), NEW es, es = NewEntries(b)
    PROVE  /\ es \in Seq(DocEntries) /\ Len(es) = b.doc_count /\ Len(es) = Len(b.offsets)
           /\ \A i \in 1 .. Len(es) :
                es[i].segment = b.id /\ b.offsets[i] = <<es[i].doc, es[i].offset, es[i].len>>
<1> DEFINE n == Len(b.offsets)
<1>1. /\ b.offsets \in Seq(Nat \X Nat \X Nat) /\ b.id \in Nat /\ b.doc_count = n
      /\ n \in Nat /\ DOMAIN b.offsets = 1 .. n
  <2>1. b.offsets \in Seq(Nat \X Nat \X Nat) /\ b.id \in Nat /\ b.doc_count = n
    BY DEF SoundSegment, Builders
  <2> QED
    BY <2>1, LenProperties
<1> HIDE DEF n
<1>2. ASSUME NEW i \in 1 .. n
      PROVE  /\ es[i] \in DocEntries /\ es[i].segment = b.id
             /\ b.offsets[i] = <<es[i].doc, es[i].offset, es[i].len>>
  <2>1. b.offsets[i] \in Nat \X Nat \X Nat
    BY <1>1, ElementOfSeq DEF n
  <2> DEFINE x == b.offsets[i]
  <2>2. x[1] \in Nat /\ x[2] \in Nat /\ x[3] \in Nat /\ x = <<x[1], x[2], x[3]>>
    BY <2>1
  <2>3. es[i] = DocEntry(x[1], b.id, x[2], x[3], FALSE)
    BY <1>1 DEF NewEntries
  <2> HIDE DEF x
  <2>4. es[i] = [doc |-> x[1], segment |-> b.id, offset |-> x[2], len |-> x[3], tombstone |-> FALSE]
    BY <2>3 DEF DocEntry
  <2>5. es[i] \in DocEntries
    BY <1>1, <2>2, <2>4 DEF DocEntries
  <2>6. es[i].segment = b.id /\ es[i].doc = x[1] /\ es[i].offset = x[2] /\ es[i].len = x[3]
    BY <2>4
  <2> QED
    BY <2>2, <2>5, <2>6 DEF x
<1>3. es = [i \in 1 .. n |-> es[i]]
  BY <1>1 DEF NewEntries
<1>4. es \in [1 .. n -> DocEntries]
  BY <1>2, <1>3
<1>5. es \in Seq(DocEntries) /\ Len(es) = n
  <2>1. n \in Nat
    BY <1>1
  <2> QED
    BY <1>4, <2>1
<1> QED
  BY <1>1, <1>2, <1>5 DEF n

\* A segment is sealed.
LEMMA SegmentSealed ==
    ASSUME NEW size, Fits(size), Indexes(size), SealSegment
    PROVE  Indexes(size)'
<1> DEFINE b == index.builder
           ss == index.segments
           ms == index.manifest.segments
           es == index.entries
           listed == AddSegment(index.manifest, MetaOf(b))
           t == NewSegment(NextSegmentId(listed))
           ns == NewEntries(b)
           n == Len(ss)
           M == {MetaOf(x) : x \in Builders}
<1>1. /\ b.offsets # <<>>
      /\ index' = [builder |-> t, segments |-> Append(ss, b), manifest |-> listed, entries |-> es \o ns]
  BY DEF SealSegment, NewEntries
<1>2. /\ SoundSegment(b, size) /\ b.id = n /\ b \in Builders
      /\ ss \in Seq(Builders) /\ ms \in Seq(M) /\ es \in Seq(DocEntries)
      /\ n \in Nat /\ Len(es) \in Nat /\ Len(ms) = n
      /\ \A k \in 1 .. n : ms[k] = MetaOf(ss[k])
      /\ \A k \in 1 .. n : SoundSegment(ss[k], size) /\ ss[k].id = k - 1 /\ ss[k].offsets # <<>>
      /\ index.manifest.total_docs = Len(es)
      /\ n <= Len(es) /\ Len(es) + b.doc_count <= MaxDocs
      /\ \A i \in 1 .. Len(es) : Points(es[i], ss)
  <2>1. /\ SoundSegment(b, size) /\ b.id = n /\ b \in Builders
        /\ ss \in Seq(Builders) /\ ms \in Seq(M) /\ es \in Seq(DocEntries)
        /\ Len(ms) = n
        /\ \A k \in 1 .. n : ms[k] = MetaOf(ss[k])
        /\ index.manifest.total_docs = Len(es)
        /\ n <= Len(es) /\ Len(es) + b.doc_count <= MaxDocs
        /\ \A i \in 1 .. Len(es) : Points(es[i], ss)
    BY DEF Indexes, Listed, Entered, SoundSegment
  <2>2. \A k \in 1 .. n : SoundSegment(ss[k], size) /\ ss[k].id = k - 1 /\ ss[k].offsets # <<>>
    BY DEF Indexes, Sealed
  <2> HIDE DEF ss, ms, es, b, M
  <2>3. n \in Nat /\ Len(es) \in Nat
    BY <2>1, LenProperties
  <2> QED
    BY <2>1, <2>2, <2>3
<1>3. /\ ns \in Seq(DocEntries) /\ Len(ns) = b.doc_count /\ Len(ns) = Len(b.offsets)
      /\ \A i \in 1 .. Len(ns) : ns[i].segment = b.id /\ b.offsets[i] = <<ns[i].doc, ns[i].offset, ns[i].len>>
  <2> DEFINE c == b
             u == ns
  <2>1. SoundSegment(c, size) /\ u = NewEntries(c)
    BY <1>2
  <2> HIDE DEF c, u
  <2>2. /\ u \in Seq(DocEntries) /\ Len(u) = c.doc_count /\ Len(u) = Len(c.offsets)
        /\ \A i \in 1 .. Len(u) : u[i].segment = c.id /\ c.offsets[i] = <<u[i].doc, u[i].offset, u[i].len>>
    BY <2>1, NewEntriesGive
  <2> QED
    BY <2>2 DEF c, u
<1>4. Len(ns) \in Nat \ {0}
  <2>1. b.offsets \in Seq(Nat \X Nat \X Nat)
    BY <1>2 DEF Builders
  <2> HIDE DEF b, ns
  <2> QED
    BY <1>1, <1>3, <2>1, EmptySeq
<1>5. MetaOf(b).segment_id = b.id /\ MetaOf(b).doc_count = b.doc_count
  BY DEF MetaOf
<1>6. /\ listed = [segments |-> Append(ms, MetaOf(b)), total_docs |-> Len(es) + Len(ns)]
  BY <1>2, <1>3, <1>5 DEF AddSegment
<1>7. ASSUME NEW k \in 1 .. n
      PROVE  ms[k].segment_id = k - 1
  <2>1. ms[k] = MetaOf(ss[k]) /\ ss[k].id = k - 1
    BY <1>2
  <2>2. MetaOf(ss[k]).segment_id = ss[k].id
    BY DEF MetaOf
  <2> QED
    BY <2>1, <2>2
<1> DEFINE mt == Append(ms, MetaOf(b))
           st == Append(ss, b)
           et == es \o ns
<1> HIDE DEF listed, ns, b, ss, ms, es, M
<1>8. listed.segments = mt /\ listed.total_docs = Len(es) + Len(ns)
  BY <1>6
<1>9. /\ mt \in Seq(M) /\ Len(mt) = n + 1 /\ mt[n + 1] = MetaOf(b) /\ mt # <<>>
      /\ \A k \in 1 .. n : mt[k] = ms[k]
  <2>1. MetaOf(b) \in M
    BY <1>2 DEF M
  <2> QED
    BY <1>2, <2>1, AppendProperties
<1>10. /\ st \in Seq(Builders) /\ Len(st) = n + 1 /\ st[n + 1] = b
       /\ \A k \in 1 .. n : st[k] = ss[k]
  BY <1>2, AppendProperties
<1>11. /\ et \in Seq(DocEntries) /\ Len(et) = Len(es) + Len(ns)
       /\ \A i \in 1 .. Len(es) + Len(ns) : et[i] = IF i <= Len(es) THEN es[i] ELSE ns[i - Len(es)]
  BY <1>2, <1>3, ConcatProperties
<1> HIDE DEF mt, st, et, n
<1>12. n < MaxDocs
  BY <1>2, <1>3, <1>4, SegmentFilesAssumption DEF SegmentFilesAssumption
<1>13. NextSegmentId(listed) = n + 1
  <2>1. DOMAIN mt = 1 .. n + 1
    BY <1>9, LenProperties
  <2>2. ASSUME NEW i \in 1 .. n + 1
        PROVE  mt[i].segment_id = i - 1
    <3>1. CASE i = n + 1
      BY <1>2, <1>5, <1>9, <3>1
    <3>2. CASE i # n + 1
      <4>1. i \in 1 .. n
        BY <1>2, <3>2
      <4> QED
        BY <1>7, <1>9, <4>1
    <3> QED
      BY <3>1, <3>2
  <2> QED
    BY <1>2, <1>8, <1>9, <1>12, <2>1, <2>2, NextSegmentIdGives
<1>14. SoundSegment(t, size) /\ t.id = n + 1 /\ t.doc_count = 0
  <2> DEFINE u == t
             k == n + 1
  <2>1. k \in Nat /\ u = NewSegment(k)
    BY <1>2, <1>13
  <2> HIDE DEF u, k
  <2>2. SoundSegment(u, size) /\ u.id = k /\ u.doc_count = 0
    BY <2>1, NewSegmentWhole
  <2> QED
    BY <2>2 DEF u, k
<1> HIDE DEF t
<1>15. index' = [builder |-> t, segments |-> st, manifest |-> listed, entries |-> et]
  BY <1>1 DEF st, et
<1>16. index'.builder = t /\ index'.segments = st /\ index'.manifest = listed /\ index'.entries = et
  BY <1>15
<1>17. /\ index' = [builder |-> index'.builder, segments |-> index'.segments,
                    manifest |-> index'.manifest, entries |-> index'.entries]
       /\ index'.manifest = [segments |-> index'.manifest.segments, total_docs |-> index'.manifest.total_docs]
  <2>1. listed = [segments |-> mt, total_docs |-> Len(es) + Len(ns)]
    BY <1>6 DEF mt
  <2> QED
    BY <1>8, <1>15, <1>16, <2>1
<1>18. ASSUME NEW k \in 1 .. n + 1
       PROVE  /\ SoundSegment(st[k], size) /\ st[k].id = k - 1 /\ st[k].offsets # <<>>
              /\ mt[k] = MetaOf(st[k])
  <2>1. CASE k = n + 1
    BY <1>1, <1>2, <1>9, <1>10, <2>1
  <2>2. CASE k # n + 1
    <3>1. k \in 1 .. n
      BY <1>2, <2>2
    <3> QED
      BY <1>2, <1>9, <1>10, <3>1
  <2> QED
    BY <2>1, <2>2
<1>19. Listed'
  BY <1>8, <1>9, <1>10, <1>11, <1>16, <1>18 DEF Listed
<1>20. \A k \in 1 .. Len(index'.segments) : Sealed(k, size)'
  BY <1>10, <1>16, <1>18 DEF Sealed
<1>21. ASSUME NEW i \in 1 .. Len(et)
       PROVE  Points(et[i], st)
  <2>1. CASE i <= Len(es)
    <3>1. i \in 1 .. Len(es) /\ et[i] = es[i]
      BY <1>2, <1>4, <1>11, <2>1
    <3> DEFINE e == es[i]
               s == e.segment + 1
    <3>2. /\ s \in 1 .. n
          /\ \E p \in 1 .. Len(ss[s].offsets) : ss[s].offsets[p] = <<e.doc, e.offset, e.len>>
      BY <1>2, <3>1 DEF Points, n
    <3> HIDE DEF e, s
    <3>3. s \in 1 .. n + 1 /\ st[s] = ss[s]
      BY <1>2, <1>10, <3>2
    <3> QED
      BY <1>10, <3>1, <3>2, <3>3 DEF Points, e, s
  <2>2. CASE ~ i <= Len(es)
    <3> DEFINE j == i - Len(es)
    <3>1. j \in 1 .. Len(ns) /\ et[i] = ns[j]
      BY <1>2, <1>4, <1>11, <2>2
    <3> HIDE DEF j
    <3>2. ns[j].segment = b.id /\ b.offsets[j] = <<ns[j].doc, ns[j].offset, ns[j].len>> /\ j \in 1 .. Len(b.offsets)
      BY <1>3, <3>1
    <3>3. ns[j].segment + 1 = n + 1 /\ n + 1 \in 1 .. n + 1
      BY <1>2, <3>2
    <3> QED
      BY <1>10, <3>1, <3>2, <3>3 DEF Points
  <2> QED
    BY <2>1, <2>2
<1>22. Entered'
  BY <1>11, <1>16, <1>21 DEF Entered
<1>23. /\ Len(index'.segments) <= Len(index'.entries)
       /\ Len(index'.entries) + index'.builder.doc_count <= MaxDocs
  <2>1. /\ Len(index'.segments) = n + 1 /\ Len(index'.entries) = Len(es) + Len(ns)
        /\ index'.builder.doc_count = 0
    BY <1>10, <1>11, <1>14, <1>16
  <2> QED
    BY <1>2, <1>3, <1>4, <2>1
<1>24. /\ SoundSegment(index'.builder, size) /\ index'.builder.id = Len(index'.segments)
       /\ index'.segments \in Seq(Builders) /\ index'.manifest.segments \in Seq(M)
  BY <1>8, <1>9, <1>10, <1>14, <1>16
<1> QED
  BY <1>17, <1>19, <1>20, <1>22, <1>23, <1>24 DEF Indexes, M

-----------------------------------------------------------------------------
(* Every document that is listed is found *)

\* find_segment names the segment a document is in, if the ranges of the segments are
\* apart.
LEMMA SegmentIsFound ==
    ASSUME NEW size, Indexes(size), NEW s \in 1 .. Len(index.segments),
           NEW p \in 1 .. Len(index.segments[s].offsets), NEW doc, doc = index.segments[s].offsets[p][1],
           doc \in Nat
    PROVE  \/ Overlapping(index.manifest)
           \/ FindSegment(index.manifest, doc).segment_id = s - 1
<1> DEFINE m == index.manifest
           ms == m.segments
           at == {i \in DOMAIN ms : doc \in ms[i].min_doc_id .. ms[i].max_doc_id}
           n == Len(index.segments)
<1>1. /\ DOMAIN ms = 1 .. n /\ n \in Nat
      /\ \A i \in 1 .. n : ms[i] = MetaOf(index.segments[i])
  BY LenProperties DEF Indexes, Listed
<1>2. ASSUME NEW i \in 1 .. n
      PROVE  /\ ms[i].segment_id = i - 1 /\ ms[i].min_doc_id \in Nat /\ ms[i].max_doc_id \in Nat
             /\ \A k \in 1 .. Len(index.segments[i].offsets) :
                  /\ ms[i].min_doc_id <= index.segments[i].offsets[k][1]
                  /\ index.segments[i].offsets[k][1] <= ms[i].max_doc_id
  <2> DEFINE b == index.segments[i]
             x == ms[i]
  <2>1. SoundSegment(b, size) /\ b.offsets # <<>> /\ b.id = i - 1 /\ x = MetaOf(b)
    BY <1>1 DEF Indexes, Sealed
  <2> HIDE DEF b, x
  <2>2. /\ x.segment_id = b.id /\ x.min_doc_id \in Nat /\ x.max_doc_id \in Nat
        /\ \A k \in 1 .. Len(b.offsets) : x.min_doc_id <= b.offsets[k][1] /\ b.offsets[k][1] <= x.max_doc_id
    BY <2>1, MetaGives
  <2> QED
    BY <2>1, <2>2 DEF b, x
<1> HIDE DEF n, ms
<1>3. s \in 1 .. n /\ ms[s].min_doc_id <= doc /\ doc <= ms[s].max_doc_id
  BY <1>2 DEF n
<1>4. s \in at
  BY <1>1, <1>2, <1>3
<1>5. at \in SUBSET Nat /\ at \in SUBSET (1 .. n)
  BY <1>1
<1> DEFINE j == Least(at)
<1>6. j \in at
  <2> HIDE DEF at
  <2> QED
    BY <1>4, <1>5, LeastOfNumbers
<1>7. FindSegment(m, doc) = [found |-> TRUE, segment_id |-> ms[j].segment_id]
  BY <1>4 DEF FindSegment, ms
<1> HIDE DEF j
<1>8. j \in 1 .. n /\ ms[j].min_doc_id <= doc /\ doc <= ms[j].max_doc_id
  BY <1>1, <1>2, <1>6
<1>9. CASE j = s
  BY <1>2, <1>3, <1>7, <1>9
<1>10. CASE j # s
  <2>1. ms[j].min_doc_id <= ms[s].max_doc_id /\ ms[s].min_doc_id <= ms[j].max_doc_id
    <3>1. /\ ms[j].min_doc_id \in Nat /\ ms[j].max_doc_id \in Nat
          /\ ms[s].min_doc_id \in Nat /\ ms[s].max_doc_id \in Nat
      BY <1>2, <1>3, <1>8
    <3> DEFINE a == ms[j].min_doc_id
               b == ms[j].max_doc_id
               c == ms[s].min_doc_id
               d == ms[s].max_doc_id
               x == doc
    <3>2. a <= x /\ x <= b /\ c <= x /\ x <= d
      BY <1>3, <1>8
    <3>3. a \in Nat /\ b \in Nat /\ c \in Nat /\ d \in Nat /\ x \in Nat
      BY <3>1
    <3> HIDE DEF a, b, c, d, x
    <3>4. a <= d /\ c <= b
      BY <3>2, <3>3
    <3> QED
      BY <3>4 DEF a, b, c, d
  <2>2. Overlapping(m)
    BY <1>1, <1>3, <1>8, <1>10, <2>1 DEF Overlapping, ms
  <2> QED
    BY <2>2
<1> QED
  BY <1>9, <1>10

\* An entry tells where the record of its document is.
LEMMA EntryIsRead ==
    ASSUME NEW size, Indexes(size), NEW e \in {index.entries[i] : i \in DOMAIN index.entries}
    PROVE  /\ e \in DocEntries
           /\ \E r \in Records :
                /\ r.doc = e.doc
                /\ GetRecord(index.segments[e.segment + 1].data, e.offset, e.len) = Read(r)
           /\ \/ Overlapping(index.manifest)
              \/ FindSegment(index.manifest, e.doc).segment_id = e.segment
<1> DEFINE s == e.segment + 1
           b == index.segments[s]
<1>1. e \in DocEntries /\ Points(e, index.segments)
  <2>1. PICK i \in DOMAIN index.entries : e = index.entries[i]
    OBVIOUS
  <2>2. index.entries \in Seq(DocEntries) /\ DOMAIN index.entries = 1 .. Len(index.entries)
    BY LenProperties DEF Indexes, Entered
  <2> QED
    BY <2>1, <2>2, ElementOfSeq DEF Indexes, Entered
<1>2. PICK p \in 1 .. Len(b.offsets) : b.offsets[p] = <<e.doc, e.offset, e.len>>
  BY <1>1 DEF Points
<1>3. s \in 1 .. Len(index.segments) /\ SoundSegment(b, size)
  BY <1>1 DEF Points, Indexes, Sealed
<1>4. e.doc \in Nat /\ e.segment \in Nat
  BY <1>1 DEF DocEntries
<1>5. PICK r \in Records : Holds(b, p, r)
  BY <1>2, <1>3 DEF SoundSegment
<1>6. b.offsets[p][1] = e.doc /\ b.offsets[p][2] = e.offset /\ b.offsets[p][3] = e.len
  BY <1>2
<1>7. r.doc = e.doc
  BY <1>5, <1>6 DEF Holds
<1>8. GetRecord(b.data, e.offset, e.len) = Read(r)
  <2> HIDE DEF b
  <2>1. GetRecord(b.data, b.offsets[p][2], b.offsets[p][3]) = Read(r)
    BY <1>3, <1>5, RecordIsRead
  <2> QED
    BY <1>6, <2>1
<1>9. \/ Overlapping(index.manifest)
      \/ FindSegment(index.manifest, e.doc).segment_id = e.segment
  <2> DEFINE d == e.doc
             q == s
  <2>1. q \in 1 .. Len(index.segments) /\ p \in 1 .. Len(index.segments[q].offsets) /\ d \in Nat
        /\ d = index.segments[q].offsets[p][1]
    BY <1>3, <1>4, <1>6
  <2>2. q - 1 = e.segment
    BY <1>4
  <2> HIDE DEF d, q
  <2>3. Overlapping(index.manifest) \/ FindSegment(index.manifest, d).segment_id = q - 1
    BY <2>1, SegmentIsFound
  <2> QED
    BY <2>2, <2>3 DEF d
<1> QED
  BY <1>1, <1>7, <1>8, <1>9

\* The entries of a document, and those that are not dead
EntriesOf(E, doc) == {e \in E : e.doc = doc}
LiveOf(E, doc) == {e \in EntriesOf(E, doc) : ~ e.tombstone}

\* got is what get, and the scan, are to find of these entries
Finds(E, sorted, doc, got) ==
    /\ got.found => got.entry \in LiveOf(E, doc)
    /\ IndexScan(sorted, doc).found <=> LiveOf(E, doc) # {}
    /\ LiveOf(E, doc) = EntriesOf(E, doc) /\ LiveOf(E, doc) # {} => got.found

\* What get gives for a document of the index that is built of these entries.
LEMMA DocumentIsFound ==
    ASSUME NEW entries \in Seq(DocEntries), NEW sorted, sorted = BuildIndex(entries),
           NEW doc \in Nat, NEW E, E = {entries[i] : i \in DOMAIN entries},
           NEW got, got = IndexGet(sorted, doc)
    PROVE  Finds(E, sorted, doc, got)
<1> DEFINE n == Len(entries)
           mine == {e \in E : e.doc = doc}
           live == {e \in mine : ~ e.tombstone}
<1>1. /\ n \in Nat /\ DOMAIN sorted = 1 .. n /\ Len(sorted) = n
      /\ \A k \in 1 .. n : sorted[k] \in DocEntries
      /\ \A j, k \in 1 .. n : j < k => sorted[j].doc <= sorted[k].doc
      /\ \A k \in 1 .. n : \E i \in 1 .. n : sorted[k] = entries[i]
      /\ \A i \in 1 .. n : \E k \in 1 .. n : sorted[k] = entries[i]
  <2>1. n = Len(entries)
    OBVIOUS
  <2> HIDE DEF n
  <2>2. Builds(sorted, n, entries)
    BY <2>1, BuildIndexGives
  <2> QED
    BY <2>2 DEF Builds
<1>2. DOMAIN entries = 1 .. n
  BY LenProperties
<1> HIDE DEF n
<1>3. /\ \A k \in 1 .. n : sorted[k] \in E
      /\ \A e \in E : \E k \in 1 .. n : sorted[k] = e
  <2>1. ASSUME NEW k \in 1 .. n
        PROVE  sorted[k] \in E
    <3>1. PICK i \in 1 .. n : sorted[k] = entries[i]
      BY <1>1
    <3> QED
      BY <1>2, <3>1
  <2>2. ASSUME NEW e \in E
        PROVE  \E k \in 1 .. n : sorted[k] = e
    <3>1. PICK i \in 1 .. n : e = entries[i]
      BY <1>2
    <3> QED
      BY <1>1, <3>1
  <2> QED
    BY <2>1, <2>2
<1>4. /\ got = NotFound \/ Hits(sorted, n, doc, got)
      /\ (\E k \in 1 .. n : sorted[k].doc = doc) /\ (\A k \in 1 .. n : sorted[k].doc = doc => ~ sorted[k].tombstone)
           => Hits(sorted, n, doc, got)
  BY <1>1, IndexGetGives
<1>5. ASSUME Hits(sorted, n, doc, got)
      PROVE  got.found /\ got.entry \in live
  <2>1. PICK k \in 1 .. n : /\ sorted[k].doc = doc /\ ~ sorted[k].tombstone
                            /\ got = [found |-> TRUE, entry |-> sorted[k]]
    BY <1>5 DEF Hits
  <2>2. sorted[k] \in live
    BY <1>3, <2>1
  <2> HIDE DEF live
  <2> QED
    BY <2>1, <2>2
<1>6. ASSUME got.found
      PROVE  got.entry \in live
  <2>1. got # NotFound
    BY <1>6 DEF NotFound
  <2> HIDE DEF live
  <2> QED
    BY <1>4, <1>5, <2>1
<1>7. IndexScan(sorted, doc).found <=> live # {}
  <2> DEFINE at == {i \in DOMAIN sorted : sorted[i].doc = doc /\ ~ sorted[i].tombstone}
  <2>1. IndexScan(sorted, doc).found <=> at # {}
    <3>1. CASE at = {}
      BY <3>1 DEF IndexScan, NotFound
    <3>2. CASE at # {}
      BY <3>2 DEF IndexScan
    <3> QED
      BY <3>1, <3>2
  <2>2. ASSUME at # {}
        PROVE  live # {}
    <3>1. PICK i \in 1 .. n : sorted[i].doc = doc /\ ~ sorted[i].tombstone
      BY <1>1, <2>2
    <3>2. sorted[i] \in live
      BY <1>3, <3>1
    <3> QED
      BY <3>2
  <2>3. ASSUME live # {}
        PROVE  at # {}
    <3>1. PICK e \in E : e.doc = doc /\ ~ e.tombstone
      BY <2>3
    <3>2. PICK i \in 1 .. n : sorted[i] = e
      BY <1>3
    <3>3. i \in at
      BY <1>1, <3>1, <3>2
    <3> QED
      BY <3>3
  <2> QED
    BY <2>1, <2>2, <2>3
<1>8. ASSUME live = mine, live # {}
      PROVE  got.found
  <2>1. \E k \in 1 .. n : sorted[k].doc = doc
    BY <1>3, <1>8
  <2>2. ASSUME NEW k \in 1 .. n, sorted[k].doc = doc
        PROVE  ~ sorted[k].tombstone
    <3>1. sorted[k] \in mine
      BY <1>3, <2>2
    <3> QED
      BY <1>8, <3>1
  <2> HIDE DEF live, mine
  <2> QED
    BY <1>4, <1>5, <2>1, <2>2
<1>9. mine = EntriesOf(E, doc) /\ live = LiveOf(E, doc)
  BY DEF EntriesOf, LiveOf
<1> HIDE DEF live, mine
<1> QED
  BY <1>6, <1>7, <1>8, <1>9 DEF Finds

\* The index of every state has every document that is listed.
LEMMA DocumentsAreFound ==
    ASSUME NEW size, Indexes(size)
    PROVE  DocumentsFound
<1> DEFINE sorted == BuildIndex(index.entries)
           E == {index.entries[i] : i \in DOMAIN index.entries}
           mine(doc) == {e \in E : e.doc = doc}
           live(doc) == {e \in mine(doc) : ~ e.tombstone}
           got(doc) == IndexGet(sorted, doc)
           read(e) == GetRecord(index.segments[e.segment + 1].data, e.offset, e.len)
<1>1. index.manifest.total_docs = Len(index.entries)
  BY DEF Indexes, Listed
<1>2. ASSUME NEW doc \in {r.doc : r \in Records}
      PROVE  /\ got(doc).found => got(doc).entry \in live(doc)
             /\ IndexScan(sorted, doc).found <=> live(doc) # {}
             /\ live(doc) = mine(doc) /\ live(doc) # {} =>
                  /\ got(doc).found
                  /\ \E r \in Records : r.doc = doc /\ read(got(doc).entry) = Read(r)
                  /\ \/ Overlapping(index.manifest)
                     \/ FindSegment(index.manifest, doc).segment_id = got(doc).entry.segment
  <2>1. doc \in Nat
    BY RecordSizes
  <2>2. index.entries \in Seq(DocEntries)
    BY DEF Indexes, Entered
  <2> DEFINE g == got(doc)
             S == sorted
             X == E
  <2>3. S = BuildIndex(index.entries) /\ X = {index.entries[i] : i \in DOMAIN index.entries} /\ g = IndexGet(S, doc)
    OBVIOUS
  <2> HIDE DEF S, X, g
  <2>4. Finds(X, S, doc, g)
    BY <2>1, <2>2, <2>3, DocumentIsFound
  <2>5. ASSUME NEW e \in X
        PROVE  /\ \E r \in Records : r.doc = e.doc /\ read(e) = Read(r)
               /\ \/ Overlapping(index.manifest)
                  \/ FindSegment(index.manifest, e.doc).segment_id = e.segment
    BY <2>3, EntryIsRead
  <2>6. ASSUME NEW e \in live(doc)
        PROVE  /\ \E r \in Records : r.doc = doc /\ read(e) = Read(r)
               /\ \/ Overlapping(index.manifest)
                  \/ FindSegment(index.manifest, doc).segment_id = e.segment
    <3>1. e \in X /\ e.doc = doc
      BY DEF X
    <3> HIDE DEF read, live
    <3> QED
      BY <2>5, <3>1
  <2>7. /\ g.found => g.entry \in live(doc)
        /\ IndexScan(sorted, doc).found <=> live(doc) # {}
        /\ live(doc) = mine(doc) /\ live(doc) # {} => g.found
    BY <2>4 DEF S, X, Finds, LiveOf, EntriesOf
  <2> HIDE DEF live, mine, read, sorted
  <2> QED
    BY <2>6, <2>7 DEF g
<1> QED
  BY <1>1, <1>2 DEF DocumentsFound, ToSet, Read, Part

\* Documents that were added to an index whose segments end below 2^32, where an offset
\* of 32 bits is as good as any, are found, each in its segment and with its parts,
\* whenever segments are sealed and whichever entries become tombstones.
\* (rvf2/segment.rs:400, manifest.rs:214, doc_index.rs:172)
THEOREM EveryDocumentFound ==
    ASSUME SegmentsFit
    PROVE  MCSpec => []DocumentsFound
<1>1. PICK size : Fits(size)
  BY DEF SegmentsFit
<1>2. ASSUME MCInit
      PROVE  Indexes(size)
  BY <1>1, <1>2, IndexStarts DEF MCInit
<1>3. ASSUME Indexes(size), [MCNext]_<<vars, writing>>
      PROVE  Indexes(size)'
  <2>1. CASE UNCHANGED index
    BY <1>3, <2>1 DEF Indexes, Listed, Entered, Sealed
  <2>2. CASE WriterNext
    <3>1. ASSUME NEW r \in Records, AddDocument(r)
          PROVE  Indexes(size)'
      BY <1>1, <1>3, <3>1, DocumentAdded
    <3>2. CASE SealSegment
      BY <1>1, <1>3, <3>2, SegmentSealed
    <3>3. ASSUME NEW i \in DOMAIN index.entries, MarkTombstone(i)
          PROVE  Indexes(size)'
      BY <1>3, <3>3, TombstoneMarked
    <3> QED
      BY <2>2, <3>1, <3>2, <3>3 DEF WriterNext
  <2>3. WriterNext \/ UNCHANGED index
    BY <1>3 DEF MCNext, MCServe, MCWrite, Request, writing
  <2> QED
    BY <2>1, <2>2, <2>3
<1>4. Indexes(size) => DocumentsFound
  BY DocumentsAreFound
<1> QED
  BY <1>2, <1>3, <1>4, PTL DEF MCSpec

=============================================================================
