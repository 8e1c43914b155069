--------------------------- MODULE KeyspaceProofs ---------------------------
(***************************************************************************)
(* Proofs about the keyspace and the watched keys of Server, for any       *)
(* number of clients, keys and databases.                                  *)
(*                                                                         *)
(* The argument is about records: what a handler leaves of the record it   *)
(* found.  Tells(d, r, W) says that every slot a client sees otherwise in  *)
(* r than in d has lost its watchers, but for those of W; Keeps(d, r, E)   *)
(* that r has no empty value and no orphaned expiration that d had not,    *)
(* but for empty values in E; Unset(d, r) that no expiration was set.  A   *)
(* method changes one slot and may add it to W and E; key_updated takes it *)
(* out of both.                                                            *)
(*                                                                         *)
(* Three kinds of command break WATCH, and its theorems are about clients  *)
(* that use none of them, or not together.  RENAME, RENAMENX and MOVE do   *)
(* not report the key a value leaves.  SADD, SREM, HSET and HINCRBY bring  *)
(* back an expired value of another type, and an RPOPLPUSH an expired      *)
(* destination, and return their error without telling anybody; for this   *)
(* some key must expire.  What is left to show then is about the history:  *)
(* a client's dirty slots are slots it watches, so that it finds them      *)
(* unregistered.                                                           *)
(*                                                                         *)
(* What is expired is a question of two records, one as it is and one      *)
(* with some of its expired keys removed (Like).  Every method that asks   *)
(* for the value finds the same in both and leaves two such records, and   *)
(* so does every handler made of such methods.  Commands that do not ask   *)
(* (Blind) bring an expired value back, and the theorem is about clients   *)
(* that use none of them.                                                  *)
(*                                                                         *)
(* What SMOVE and RPOPLPUSH move is counted by the two keys they leave,    *)
(* on a record in which nothing has expired (TwoAssigned).                 *)
(***************************************************************************)
EXTENDS ServerProofs, FiniteSetTheorems, SequenceTheorems

\* An expiration has a value
Paired(d, s) == d.exp[s] # NoExp => d.data[s] # NoValue

\* A step on slot s, and one that sets no expiration
Changes(d, r, s) ==
    /\ r \in DB /\ r.now = d.now /\ r.loading = d.loading
    /\ \A t \in Slots \ {s} :
          r.data[t] = d.data[t] /\ r.exp[t] = d.exp[t] /\ r.watched[t] = d.watched[t]
    /\ r.watched[s] \subseteq d.watched[s]
    /\ Paired(d, s) => Paired(r, s)
Touches(d, r, s) == Changes(d, r, s) /\ r.exp[s] \in {d.exp[s], NoExp}

Tells(d, r, W) ==
    /\ r \in DB /\ r.now = d.now /\ r.loading = d.loading
    /\ \A s \in Slots : r.watched[s] \subseteq d.watched[s]
    /\ \A s \in Slots \ W : Visible(r, s) = Visible(d, s) \/ r.watched[s] = {}

Keeps(d, r, E) ==
    /\ \A s \in Slots : Paired(d, s) => Paired(r, s)
    /\ \A s \in Slots \ E : IsEmpty(r.data[s]) => IsEmpty(d.data[s])

Unset(d, r) == \A s \in Slots : r.exp[s] \in {d.exp[s], NoExp}

Leaves(d, r, W, E) == Tells(d, r, W) /\ Keeps(d, r, E) /\ Unset(d, r)

-----------------------------------------------------------------------------
(* Methods of Database *)

\* What a client sees of a slot depends on nothing else than the slot and the clock.
LEMMA SameVisible ==
    ASSUME NEW d, NEW r, NEW t, r.now = d.now, r.loading = d.loading,
           r.data[t] = d.data[t], r.exp[t] = d.exp[t]
    PROVE  Visible(r, t) = Visible(d, t) /\ Get(r, t) = Get(d, t)
BY DEF Visible, Get, IsExpired

\* Two steps on one slot.
LEMMA TouchesTransitive ==
    ASSUME NEW d, NEW m, NEW r, NEW s, Touches(d, m, s), Touches(m, r, s)
    PROVE  Touches(d, r, s)
<1>1. Changes(d, r, s)
  BY Zenon DEF Touches, Changes
<1> QED
  BY <1>1 DEF Touches

\* A step on one slot may leave its watchers untold of what changed there.
LEMMA ChangeTells ==
    ASSUME NEW d, NEW m, NEW r, NEW W, NEW s \in Slots, Tells(d, m, W), Changes(m, r, s)
    PROVE  /\ Tells(d, r, W \cup {s})
           /\ r.watched[s] = {} => Tells(d, r, W \ {s})
           /\ Visible(r, s) = Visible(m, s) => Tells(d, r, W)
<1>1. /\ r \in DB /\ r.now = d.now /\ r.loading = d.loading
      /\ \A t \in Slots : r.watched[t] \subseteq d.watched[t]
  BY DEF Changes, Tells
<1>2. \A t \in Slots \ {s} : Visible(r, t) = Visible(m, t) /\ r.watched[t] = m.watched[t]
  BY SameVisible DEF Changes
<1>3. \A t \in Slots \ W : Visible(m, t) = Visible(d, t) \/ m.watched[t] = {}
  BY DEF Tells
<1>4. r.watched[s] \subseteq m.watched[s]
  BY DEF Changes
<1>5. \A t \in (Slots \ W) \ {s} : Visible(r, t) = Visible(d, t) \/ r.watched[t] = {}
  BY <1>2, <1>3
<1>6. /\ Slots \ (W \cup {s}) = (Slots \ W) \ {s}
      /\ Slots \ (W \ {s}) = ((Slots \ W) \ {s}) \cup {s}
  OBVIOUS
<1>7. Tells(d, r, W \cup {s})
  BY <1>1, <1>5, <1>6 DEF Tells
<1>8. r.watched[s] = {} => Tells(d, r, W \ {s})
  BY <1>1, <1>5, <1>6 DEF Tells
<1>9. Visible(r, s) = Visible(m, s) => Tells(d, r, W)
  <2> SUFFICES ASSUME Visible(r, s) = Visible(m, s), NEW t \in Slots \ W
               PROVE  Visible(r, t) = Visible(d, t) \/ r.watched[t] = {}
    BY <1>1 DEF Tells
  <2> QED
    BY <1>3, <1>4, <1>5
<1> QED
  BY <1>7, <1>8, <1>9

\* And may leave an empty value there, but no orphaned expiration.
LEMMA ChangeKeeps ==
    ASSUME NEW d, NEW m, NEW r, NEW E, NEW s \in Slots, Keeps(d, m, E), Changes(m, r, s)
    PROVE  /\ Keeps(d, r, E \cup {s})
           /\ ~IsEmpty(r.data[s]) => Keeps(d, r, E \ {s})
           /\ (IsEmpty(r.data[s]) => IsEmpty(m.data[s])) => Keeps(d, r, E)
<1>1. \A t \in Slots : Paired(d, t) => Paired(r, t)
  BY DEF Changes, Keeps, Paired
<1>2. \A t \in Slots \ {s} : r.data[t] = m.data[t]
  BY DEF Changes
<1>3. \A t \in Slots \ E : IsEmpty(m.data[t]) => IsEmpty(d.data[t])
  BY DEF Keeps
<1>4. /\ Slots \ (E \cup {s}) = (Slots \ E) \ {s}
      /\ Slots \ (E \ {s}) = ((Slots \ E) \ {s}) \cup {s}
  OBVIOUS
<1>5. \A t \in (Slots \ E) \ {s} : IsEmpty(r.data[t]) => IsEmpty(d.data[t])
  BY <1>2, <1>3
<1>6. Keeps(d, r, E \cup {s})
  BY <1>1, <1>4, <1>5 DEF Keeps
<1>7. ~IsEmpty(r.data[s]) => Keeps(d, r, E \ {s})
  BY <1>1, <1>4, <1>5 DEF Keeps
<1>8. (IsEmpty(r.data[s]) => IsEmpty(m.data[s])) => Keeps(d, r, E)
  BY <1>1, <1>3, <1>5 DEF Keeps
<1> QED
  BY <1>6, <1>7, <1>8

\* One method after others.
LEMMA TouchLeaves ==
    ASSUME NEW d, NEW m, NEW r, NEW W, NEW E, NEW s \in Slots,
           Leaves(d, m, W, E), Touches(m, r, s)
    PROVE  /\ Leaves(d, r, W \cup {s}, E \cup {s})
           /\ r.watched[s] = {} /\ ~IsEmpty(r.data[s]) => Leaves(d, r, W \ {s}, E \ {s})
           /\ Visible(r, s) = Visible(m, s) /\ (IsEmpty(r.data[s]) => IsEmpty(m.data[s])) =>
                 Leaves(d, r, W, E)
<1>1. Unset(d, r)
  BY DEF Leaves, Touches, Changes, Unset
<1>2. Changes(m, r, s)
  BY DEF Touches
<1> QED
  BY <1>1, <1>2, ChangeTells, ChangeKeeps DEF Leaves

\* Nothing is told of where nothing was done.
LEMMA LeavesItself ==
    ASSUME NEW d \in DB
    PROVE  Leaves(d, d, {}, {})
BY DEF Leaves, Tells, Keeps, Unset

\* Neither nil nor a missing value is one that was set.
LEMMA NothingEmpty ==
    /\ ~IsEmpty(NoValue)
    /\ Nil # NoValue
    /\ NoValue \notin Value
<1>1. /\ NoValue \notin Value
      /\ Nil # NoValue
  BY DEF Value, NoValue, Nil, Strings, Lists, Sets, Hashes
<1>2. ~IsEmpty(NoValue)
  BY DEF IsEmpty, NoValue, Nil, List, SetOf, HashOf
<1> QED
  BY <1>1, <1>2

\* Database::remove changes the slot it is called for.
LEMMA RemoveTouches ==
    ASSUME NEW d \in DB, NEW s \in Slots
    PROVE  /\ Touches(d, Remove(d, s), s)
           /\ Remove(d, s).data[s] = NoValue
           /\ Remove(d, s).exp[s] = NoExp
           /\ Remove(d, s).watched = d.watched
<1>1. Remove(d, s) \in DB
  BY RemoveType
<1>2. /\ Remove(d, s).now = d.now /\ Remove(d, s).loading = d.loading
      /\ Remove(d, s).watched = d.watched
      /\ Remove(d, s).data = [d.data EXCEPT ![s] = NoValue]
      /\ Remove(d, s).exp = [d.exp EXCEPT ![s] = NoExp]
  BY DEF Remove, DB
<1>3. d.data \in [Slots -> Value \cup {NoValue}] /\ d.exp \in [Slots -> Int \cup {NoExp}]
  BY DEF DB
<1> QED
  BY <1>1, <1>2, <1>3 DEF Touches, Changes, Paired

\* Database::get_mut changes nothing a client sees, and leaves the slot without a value
\* or as it was.
LEMMA GetMutTouches ==
    ASSUME NEW d \in DB, NEW s \in Slots
    PROVE  /\ Touches(d, GetMut(d, s), s)
           /\ Visible(GetMut(d, s), s) = Visible(d, s)
           /\ GetMut(d, s).data[s] = Get(d, s)
           /\ ~IsExpired(GetMut(d, s), s)
           /\ GetMut(d, s).watched = d.watched
<1>1. CASE IsExpired(d, s)
  <2>1. GetMut(d, s) = Remove(d, s)
    BY <1>1 DEF GetMut
  <2>2. ~IsExpired(Remove(d, s), s)
    BY RemoveTouches DEF IsExpired
  <2>3. Get(Remove(d, s), s) = NoValue /\ Get(d, s) = NoValue
    BY <1>1, RemoveTouches DEF Get
  <2>4. Visible(Remove(d, s), s) = Visible(d, s)
    BY <2>3, Zenon DEF Visible
  <2> QED
    BY <2>1, <2>2, <2>3, <2>4, RemoveTouches
<1>2. CASE ~IsExpired(d, s)
  <2>1. GetMut(d, s) = d
    BY <1>2 DEF GetMut
  <2> QED
    BY <1>2, <2>1 DEF Touches, Changes, Get
<1> QED
  BY <1>1, <1>2

\* Database::get_or_create changes nothing a client sees of a value that is there and
\* has not expired; it leaves an expired value in the slot, or nil where none was.
LEMMA GetOrCreateTouches ==
    ASSUME NEW d \in DB, NEW s \in Slots
    PROVE  /\ Touches(d, GetOrCreate(d, s), s)
           /\ GetOrCreate(d, s).data[s] = IF d.data[s] = NoValue THEN Nil ELSE d.data[s]
           /\ d.data[s] # NoValue /\ ~IsExpired(d, s) =>
                 Visible(GetOrCreate(d, s), s) = Visible(d, s)
           /\ GetOrCreate(d, s).exp[s] = IF IsExpired(d, s) THEN NoExp ELSE d.exp[s]
           /\ GetOrCreate(d, s).watched = d.watched
<1> DEFINE r == GetOrCreate(d, s)
<1>1. r \in DB
  BY GetOrCreateType
<1>2. /\ r.now = d.now /\ r.loading = d.loading
      /\ r.watched = d.watched
      /\ r.data = [d.data EXCEPT ![s] = IF @ = NoValue THEN Nil ELSE @]
      /\ r.exp = [d.exp EXCEPT ![s] = IF IsExpired(d, s) THEN NoExp ELSE @]
  BY DEF GetOrCreate, DB
<1>3. d.data \in [Slots -> Value \cup {NoValue}] /\ d.exp \in [Slots -> Int \cup {NoExp}]
  BY DEF DB
<1> HIDE DEF r
<1>4. Touches(d, r, s)
  BY <1>1, <1>2, <1>3, NothingEmpty DEF Touches, Changes, Paired
<1>5. d.data[s] # NoValue /\ ~IsExpired(d, s) => Visible(r, s) = Visible(d, s)
  BY <1>2, <1>3, SameVisible
<1> QED
  BY <1>2, <1>3, <1>4, <1>5 DEF r

\* An assignment changes the slot it is made to.
LEMMA StoreTouches ==
    ASSUME NEW d \in DB, NEW s \in Slots, NEW v \in Value
    PROVE  /\ Touches(d, Store(d, s, v), s)
           /\ Store(d, s, v).data[s] = v
           /\ Store(d, s, v).exp = d.exp
           /\ Store(d, s, v).watched = d.watched
<1>1. Store(d, s, v) \in DB
  BY StoreType
<1>2. /\ Store(d, s, v).now = d.now /\ Store(d, s, v).loading = d.loading
      /\ Store(d, s, v).watched = d.watched
      /\ Store(d, s, v).data = [d.data EXCEPT ![s] = v]
      /\ Store(d, s, v).exp = d.exp
  BY DEF Store, DB
<1>3. d.data \in [Slots -> Value \cup {NoValue}]
  BY DEF DB
<1> QED
  BY <1>1, <1>2, <1>3, NothingEmpty DEF Touches, Changes, Paired

\* So does remove_msexpiration.
LEMMA RemoveMsexpirationTouches ==
    ASSUME NEW d \in DB, NEW s \in Slots
    PROVE  Touches(d, RemoveMsexpiration(d, s), s)
<1> DEFINE r == RemoveMsexpiration(d, s)
<1>1. r \in DB
  BY DEF RemoveMsexpiration, DB
<1>2. /\ r.now = d.now /\ r.loading = d.loading
      /\ r.watched = d.watched
      /\ r.data = d.data
      /\ r.exp = [d.exp EXCEPT ![s] = NoExp]
  BY DEF RemoveMsexpiration, DB
<1>3. d.exp \in [Slots -> Int \cup {NoExp}]
  BY DEF DB
<1> HIDE DEF r
<1>4. Touches(d, r, s)
  BY <1>1, <1>2, <1>3 DEF Touches, Changes, Paired
<1> QED
  BY <1>4 DEF r

\* Database::key_updated leaves the slot without watchers and without an empty value.
LEMMA KeyUpdatedTouches ==
    ASSUME NEW d \in DB, NEW s \in Slots
    PROVE  /\ Touches(d, KeyUpdated(d, s), s)
           /\ KeyUpdated(d, s).watched[s] = {}
           /\ ~IsEmpty(KeyUpdated(d, s).data[s])
           /\ ~IsEmpty(d.data[s]) => /\ KeyUpdated(d, s).data[s] = d.data[s]
                                     /\ KeyUpdated(d, s).exp[s] = d.exp[s]
<1> DEFINE kept == IF IsEmpty(d.data[s]) THEN Remove(d, s) ELSE d
           r == KeyUpdated(d, s)
<1>1. r \in DB
  BY KeyUpdatedType
<1>2. /\ kept \in DB
      /\ Touches(d, kept, s)
      /\ ~IsEmpty(kept.data[s])
      /\ ~IsEmpty(d.data[s]) => kept = d
  BY RemoveType, RemoveTouches, NothingEmpty DEF Touches, Changes
<1> HIDE DEF kept
<1>3. r = [kept EXCEPT !.sent = @ \cup d.subs[s], !.subs[s] = {}, !.watched[s] = {}]
  BY DEF KeyUpdated, kept
<1> HIDE DEF r
<1>4. /\ r.now = kept.now /\ r.loading = kept.loading
      /\ r.data = kept.data /\ r.exp = kept.exp
      /\ r.watched = [kept.watched EXCEPT ![s] = {}]
  BY <1>2, <1>3 DEF DB
<1>5. kept.watched \in [Slots -> SUBSET Clients]
  BY <1>2 DEF DB
<1>6. Touches(kept, r, s) /\ r.watched[s] = {}
  BY <1>1, <1>4, <1>5 DEF Touches, Changes, Paired
<1>7. Touches(d, r, s)
  BY <1>2, <1>6, TouchesTransitive
<1> QED
  BY <1>2, <1>4, <1>6, <1>7 DEF r

-----------------------------------------------------------------------------
(* Handlers of one slot *)

\* Nothing is expired, nothing empty is stored, nothing orphaned
Fresh(d) == \A s \in Slots : ~IsExpired(d, s)
Filled(d) == \A s \in Slots : ~IsEmpty(d.data[s])

\* One method after none.
LEMMA TouchedLeaves ==
    ASSUME NEW d \in DB, NEW r, NEW s \in Slots, Touches(d, r, s)
    PROVE  /\ Leaves(d, r, {s}, {s})
           /\ r.watched[s] = {} /\ ~IsEmpty(r.data[s]) => Leaves(d, r, {}, {})
           /\ Visible(r, s) = Visible(d, s) /\ (IsEmpty(r.data[s]) => IsEmpty(d.data[s])) =>
                 Leaves(d, r, {}, {})
<1>1. Leaves(d, d, {}, {})
  BY LeavesItself
<1>2. /\ Leaves(d, r, {} \cup {s}, {} \cup {s})
      /\ r.watched[s] = {} /\ ~IsEmpty(r.data[s]) => Leaves(d, r, {} \ {s}, {} \ {s})
      /\ Visible(r, s) = Visible(d, s) /\ (IsEmpty(r.data[s]) => IsEmpty(d.data[s])) =>
            Leaves(d, r, {}, {})
  BY <1>1, TouchLeaves
<1>3. {} \cup {s} = {s} /\ {} \ {s} = {}
  OBVIOUS
<1> QED
  BY <1>2, <1>3

\* What get_mut and get_or_create leave differs in their slot only.
LEMMA OpenedTouches ==
    ASSUME NEW d \in DB, NEW s \in Slots, NEW o \in Opened(d, s)
    PROVE  Touches(d, o, s)
<1>1. Touches(d, d, s)
  BY DEF Touches, Changes
<1>2. GetMut(d, s) \in DB /\ Touches(d, GetMut(d, s), s)
  BY GetMutType, GetMutTouches
<1>3. Touches(GetMut(d, s), GetOrCreate(GetMut(d, s), s), s)
  BY <1>2, GetOrCreateTouches
<1>4. Touches(d, GetOrCreate(GetMut(d, s), s), s)
  BY <1>2, <1>3, TouchesTransitive
<1> QED
  BY <1>1, <1>2, <1>4, GetOrCreateTouches DEF Opened

\* A slot reported as updated is in order.
LEMMA ReportTouches ==
    ASSUME NEW d \in DB, NEW s \in Slots, NEW o, Touches(d, o, s)
    PROVE  /\ Touches(d, KeyUpdated(o, s), s)
           /\ Leaves(d, KeyUpdated(o, s), {}, {})
<1>1. o \in DB
  BY DEF Touches, Changes
<1>2. Touches(d, KeyUpdated(o, s), s)
  BY <1>1, KeyUpdatedTouches, TouchesTransitive
<1> QED
  BY <1>1, <1>2, KeyUpdatedTouches, TouchedLeaves

\* And so is one that was assigned to first.
LEMMA AssignTouches ==
    ASSUME NEW d \in DB, NEW s \in Slots, NEW o, Touches(d, o, s), NEW v \in Value
    PROVE  /\ Touches(d, KeyUpdated(Store(o, s, v), s), s)
           /\ Leaves(d, KeyUpdated(Store(o, s, v), s), {}, {})
<1>1. o \in DB
  BY DEF Touches, Changes
<1>2. Touches(d, Store(o, s, v), s)
  BY <1>1, StoreTouches, TouchesTransitive
<1> QED
  BY <1>2, ReportTouches

\* Whoever reports its slot leaves everything in order.
LEMMA ReportedLeaves ==
    ASSUME NEW d \in DB, NEW s \in Slots, NEW r \in Reported(d, s)
    PROVE  Leaves(d, r, {}, {})
BY OpenedTouches, ReportTouches, AssignTouches DEF Reported

\* So does an early return, unless get_or_create found an expired value.
LEMMA EarlyLeaves ==
    ASSUME NEW d \in DB, NEW s \in Slots
    PROVE  /\ \A o \in Quiet(d, s) : Leaves(d, o, {}, {})
           /\ \A o \in Found(d, s) : /\ Keeps(d, o, {}) /\ Unset(d, o)
                                     /\ ~IsExpired(d, s) => Leaves(d, o, {}, {})
<1>1. ASSUME NEW o \in Quiet(d, s)
      PROVE  Leaves(d, o, {}, {})
  <2>1. GetMut(d, s).data[s] = NoValue \/ GetMut(d, s).data[s] = d.data[s]
    BY GetMutTouches DEF Get
  <2> QED
    BY <1>1, <2>1, LeavesItself, GetMutTouches, TouchedLeaves, NothingEmpty DEF Quiet
<1>2. ASSUME NEW o \in Found(d, s)
      PROVE  /\ Keeps(d, o, {}) /\ Unset(d, o)
             /\ ~IsExpired(d, s) => Leaves(d, o, {}, {})
  <2>1. o = GetOrCreate(d, s) /\ d.data[s] # NoValue
    BY <1>2 DEF Found
  <2>2. o.data[s] = d.data[s] /\ Touches(d, o, s)
    BY <2>1, GetOrCreateTouches
  <2>3. Keeps(d, d, {}) /\ Changes(d, o, s) /\ Unset(d, o)
    BY <2>2, LeavesItself DEF Leaves, Touches, Changes, Unset
  <2>4. Keeps(d, o, {})
    BY <2>2, <2>3, ChangeKeeps
  <2>5. ~IsExpired(d, s) => Leaves(d, o, {}, {})
    BY <2>1, <2>2, GetOrCreateTouches, TouchedLeaves
  <2> QED
    BY <2>3, <2>4, <2>5
<1> QED
  BY <1>1, <1>2

\* A handler that fails leaves what a client sees as it was, where nothing had expired.
LEMMA FailedSame ==
    ASSUME NEW d \in DB, NEW s \in Slots, Filled(d), ~IsExpired(d, s), NEW r \in Failed(d, s)
    PROVE  Modified(d, r) = {}
<1>1. ASSUME NEW o \in Quiet(d, s) \cup Found(d, s)
      PROVE  /\ Touches(d, o, s) /\ o \in DB
             /\ o.data[s] = d.data[s] /\ o.exp[s] = d.exp[s]
  <2>1. CASE o \in Quiet(d, s)
    BY <2>1 DEF Quiet, GetMut, Touches, Changes
  <2>2. CASE o \in Found(d, s)
    BY <2>2, GetOrCreateTouches DEF Found, Touches, Changes
  <2> QED
    BY <1>1, <2>1, <2>2
<1>2. ASSUME NEW o, Touches(d, o, s), o.data[s] = d.data[s], o.exp[s] = d.exp[s]
      PROVE  Modified(d, o) = {}
  <2>1. \A t \in Slots : Visible(o, t) = Visible(d, t)
    BY <1>2, SameVisible DEF Touches, Changes
  <2> QED
    BY <2>1 DEF Modified
<1>3. ASSUME NEW o \in Quiet(d, s) \cup Found(d, s)
      PROVE  Modified(d, KeyUpdated(o, s)) = {}
  <2>1. ~IsEmpty(o.data[s]) /\ o \in DB /\ Touches(d, o, s)
    BY <1>1 DEF Filled
  <2>2. /\ KeyUpdated(o, s).data[s] = d.data[s] /\ KeyUpdated(o, s).exp[s] = d.exp[s]
        /\ Touches(d, KeyUpdated(o, s), s)
    BY <1>1, <2>1, KeyUpdatedTouches, TouchesTransitive
  <2> QED
    BY <1>2, <2>2
<1>4. r \in Quiet(d, s) \cup Found(d, s) \/ \E o \in Quiet(d, s) \cup Found(d, s) : r = KeyUpdated(o, s)
  BY DEF Failed
<1> QED
  BY <1>1, <1>2, <1>3, <1>4

\* SADD, SREM, HSET and HINCRBY leave an expired value behind, if it is of another type,
\* and tell nobody.
Reviving == {"sadd", "srem", "hset", "hincrby"}

\* What is shown of a handler's result r: Quietly, that an error changes nothing
Quietly(d, r) == r.reply = "error" /\ Filled(d) /\ Fresh(d) => Modified(d, r.db) = {}

\* A handler of one slot, from how it ends.
LEMMA EndsLeave ==
    ASSUME NEW d \in DB, NEW s \in Slots, NEW r
    PROVE  /\ EndsTold(d, s, r) => Leaves(d, r.db, {}, {}) /\ Quietly(d, r)
           /\ Ends(d, s, r) => /\ Keeps(d, r.db, {}) /\ Unset(d, r.db) /\ Quietly(d, r)
                               /\ Fresh(d) => Leaves(d, r.db, {}, {})
<1>1. (r.reply = "error" => r.db \in Failed(d, s)) => Quietly(d, r)
  BY FailedSame DEF Quietly, Fresh
<1>2. EndsTold(d, s, r) => Leaves(d, r.db, {}, {})
  BY EarlyLeaves, ReportedLeaves DEF EndsTold
<1>3. r.db \in OneSlot(d, s) => /\ Keeps(d, r.db, {}) /\ Unset(d, r.db)
                                /\ Fresh(d) => Leaves(d, r.db, {}, {})
  BY EarlyLeaves, ReportedLeaves DEF OneSlot, Leaves, Fresh
<1> QED
  BY <1>1, <1>2, <1>3 DEF Ends, EndsTold

-----------------------------------------------------------------------------
(* Handlers of several slots *)

\* A text that was set is not empty.
LEMMA StrFilled ==
    ASSUME NEW i \in StringVal
    PROVE  Str(i) \in Value /\ ~IsEmpty(Str(i))
<1>1. Str(i) \in Strings
  BY DEF Str, StringVal, Strings
<1>2. Str(i).type = "string"
  BY DEF Str
<1>3. /\ Nil.type = "nil" /\ List(<<>>).type = "list"
      /\ SetOf({}).type = "set" /\ HashOf(<<>>).type = "hash"
  BY DEF Nil, List, SetOf, HashOf
<1> QED
  BY <1>1, <1>2, <1>3 DEF Value, IsEmpty

\* Two slots out of order, each reported as updated.
LEMMA ReportTwo ==
    ASSUME NEW d, NEW m \in DB, NEW s \in Slots, NEW t \in Slots, Leaves(d, m, {s, t}, {s, t})
    PROVE  Leaves(d, KeyUpdated(KeyUpdated(m, s), t), {}, {})
<1> DEFINE n == KeyUpdated(m, s)
<1>1. n \in DB
  BY KeyUpdatedType
<1>2. Leaves(d, n, {s, t} \ {s}, {s, t} \ {s})
  BY KeyUpdatedTouches, TouchLeaves
<1> HIDE DEF n
<1>3. Leaves(d, KeyUpdated(n, t), ({s, t} \ {s}) \ {t}, ({s, t} \ {s}) \ {t})
  BY <1>1, <1>2, KeyUpdatedTouches, TouchLeaves
<1>4. ({s, t} \ {s}) \ {t} = {}
  OBVIOUS
<1> QED
  BY <1>3, <1>4 DEF n

\* What SMOVE and RPOPLPUSH do to two slots: an assignment to the first that get_mut
\* found, then one to the second that get_or_create left.
LEMMA MoveLeaves ==
    ASSUME NEW d \in DB, NEW s \in Slots, NEW t \in Slots, NEW v \in Value, NEW w \in Value
    PROVE  LET taken == Store(GetMut(d, s), s, v)
               added == Store(GetOrCreate(taken, t), t, w)
           IN /\ taken \in DB /\ Leaves(d, taken, {s}, {s})
              /\ GetOrCreate(taken, t) \in DB
              /\ Leaves(d, KeyUpdated(KeyUpdated(added, s), t), {}, {})
<1> DEFINE opened == GetMut(d, s)
           taken == Store(opened, s, v)
           created == GetOrCreate(taken, t)
           added == Store(created, t, w)
<1>1. opened \in DB /\ Touches(d, opened, s)
  BY GetMutType, GetMutTouches
<1> HIDE DEF opened
<1>2. taken \in DB /\ Touches(d, taken, s)
  BY <1>1, StoreType, StoreTouches, TouchesTransitive
<1>3. Leaves(d, taken, {s}, {s})
  BY <1>2, TouchedLeaves
<1> HIDE DEF taken
<1>4. created \in DB /\ Touches(taken, created, t)
  BY <1>2, GetOrCreateType, GetOrCreateTouches
<1> HIDE DEF created
<1>5. added \in DB /\ Touches(taken, added, t)
  BY <1>4, StoreType, StoreTouches, TouchesTransitive
<1> HIDE DEF added
<1>6. Leaves(d, added, {s} \cup {t}, {s} \cup {t})
  BY <1>3, <1>5, TouchLeaves
<1>7. {s} \cup {t} = {s, t}
  OBVIOUS
<1>8. Leaves(d, KeyUpdated(KeyUpdated(added, s), t), {}, {})
  BY <1>5, <1>6, <1>7, ReportTwo
<1> QED
  BY <1>2, <1>3, <1>4, <1>8 DEF opened, taken, created, added

\* SMOVE reports both its keys, and looks at the destination before it takes the member.
LEMMA SmoveLeaves ==
    ASSUME NEW d \in DB, NEW src \in Slots, NEW dst \in Slots, NEW e \in Elems
    PROVE  LET r == Smove(d, src, dst, e)
           IN Leaves(d, r.db, {}, {}) /\ Quietly(d, r)
<1> DEFINE target  == Get(d, dst)
           opened  == GetMut(d, src)
           v       == opened.data[src]
           left    == SetOf(Members(v) \ {e})
           taken   == Store(opened, src, left)
           created == GetOrCreate(taken, dst)
           w       == created.data[dst]
           new     == SetOf(Members(w) \cup {e})
           added   == Store(created, dst, new)
           moved   == KeyUpdated(KeyUpdated(added, src), dst)
<1>1. left \in Value
  <2>1. opened \in Opened(d, src)
    BY DEF Opened
  <2>2. v \in Value \cup {NoValue}
    BY <2>1, OpenedType
  <2> HIDE DEF v
  <2> QED
    BY <2>2, ValueCases DEF SetOf, Value, Sets
<1>2. new \in Value
  <2>1. taken \in DB
    BY <1>1, GetMutType, StoreType
  <2> HIDE DEF taken
  <2>2. w \in Value
    BY <2>1, GetOrCreateType
  <2> HIDE DEF w
  <2> QED
    BY <2>2, ValueCases DEF SetOf, Value, Sets
<1>3. Leaves(d, moved, {}, {})
  <2> HIDE DEF left, new
  <2> QED
    BY <1>1, <1>2, MoveLeaves
<1>4. /\ \A reply : EndsTold(d, src, Result(reply, opened))
      /\ \A reply : EndsTold(d, src, Result(reply, d))
  BY EarlyEnds DEF Quiet
<1> HIDE DEF target, opened, v, moved, w
<1>5. Smove(d, src, dst, e) =
        IF target # NoValue /\ target.type # "set" THEN Result("error", d)
        ELSE IF v = NoValue THEN Result("ok", opened)
        ELSE IF ~Settable(v) THEN Result("error", opened)
        ELSE IF e \notin Members(v) THEN Result("ok", opened)
        ELSE IF ~Settable(w) THEN Result("panic", d)
        ELSE Result("ok", moved)
  BY Zenon DEF Smove, target, opened, v, left, taken, created, w, new, added, moved
<1>6. Quietly(d, Result("ok", moved)) /\ Result("ok", moved).db = moved
  BY DEF Quietly, Result
<1>7. \/ EndsTold(d, src, Smove(d, src, dst, e))
      \/ Smove(d, src, dst, e) = Result("ok", moved)
  BY <1>4, <1>5
<1> QED
  BY <1>3, <1>6, <1>7, EndsLeave

\* MSET reports every key it sets, each of them to a text.
LEMMA MsetLeaves ==
    ASSUME NEW d \in DB, NEW i \in Dbs, NEW K \in SUBSET Keys, NEW vals \in [K -> StringVal]
    PROVE  LET r == Mset(d, i, vals)
           IN Leaves(d, r.db, {}, {}) /\ r.reply = "ok"
<1> DEFINE r == Mset(d, i, vals).db
           S == KeySlots(i, K)
<1>1. /\ r \in DB /\ r.now = d.now /\ r.loading = d.loading
      /\ \A s \in Slots :
            IF s \in S
            THEN /\ r.watched[s] = {}
                 /\ r.data[s] \in {Str(n) : n \in StringVal}
                 /\ r.exp[s] \in {d.exp[s], NoExp}
            ELSE r.watched[s] = d.watched[s] /\ r.data[s] = d.data[s] /\ r.exp[s] = d.exp[s]
  BY MsetFields
<1>2. Mset(d, i, vals).reply = "ok"
  BY DEF Mset, Result
<1> HIDE DEF r, S
<1>3. Tells(d, r, {})
  BY <1>1, SameVisible DEF Tells
<1>4. \A s \in S : s \in Slots => r.data[s] # NoValue /\ ~IsEmpty(r.data[s])
  BY <1>1, StrFilled, NothingEmpty
<1>5. Keeps(d, r, {}) /\ Unset(d, r)
  BY <1>1, <1>4 DEF Keeps, Paired, Unset
<1> QED
  BY <1>2, <1>3, <1>5 DEF Leaves, r

\* RENAME, RENAMENX and MOVE report the name the value comes to, not the one it leaves.
LEMMA RelocateLeaves ==
    ASSUME NEW d \in DB, NEW from \in Slots, NEW to \in Slots
    PROVE  LET r == Relocate(d, from, to)
           IN Keeps(d, r.db, {}) /\ Unset(d, r.db) /\ Quietly(d, r)
<1> DEFINE v == Removed(d, from)
           removed == Remove(d, from)
           created == GetOrCreate(removed, to)
           placed == Store(created, to, v)
           left == removed.exp[from]
<1>1. /\ removed \in DB /\ Touches(d, removed, from)
      /\ removed.data[from] = NoValue /\ left = NoExp
  BY RemoveType, RemoveTouches
<1>2. v \in Value \cup {NoValue} /\ v = Get(d, from)
  BY GetType DEF Removed
<1> HIDE DEF v, removed
<1>3. Keeps(d, removed, {}) /\ Unset(d, removed)
  <2>1. Keeps(d, d, {}) /\ Unset(d, d)
    BY LeavesItself DEF Leaves
  <2>2. Changes(d, removed, from) /\ Unset(d, removed)
    BY <1>1, <2>1 DEF Touches, Changes, Unset
  <2> QED
    BY <1>1, <2>1, <2>2, ChangeKeeps, NothingEmpty
<1>4. v = NoValue => Quietly(d, Result("error", removed))
  <2> SUFFICES ASSUME v = NoValue, Filled(d), Fresh(d)
               PROVE  Modified(d, removed) = {}
    BY DEF Quietly, Result
  <2>1. Get(d, from) = NoValue /\ Get(removed, from) = NoValue
    BY <1>1, <1>2 DEF Get
  <2>2. Visible(d, from) = Visible(removed, from)
    BY <2>1, Zenon DEF Visible
  <2>3. \A t \in Slots : Visible(removed, t) = Visible(d, t)
    BY <1>1, <2>2, SameVisible DEF Touches, Changes
  <2> QED
    BY <2>3 DEF Modified
<1>5. v # NoValue => Keeps(d, KeyUpdated(placed, to), {}) /\ Unset(d, KeyUpdated(placed, to))
  <2> SUFFICES ASSUME v # NoValue
               PROVE  Keeps(d, KeyUpdated(placed, to), {}) /\ Unset(d, KeyUpdated(placed, to))
    OBVIOUS
  <2>1. v \in Value
    BY <1>2
  <2>2. Touches(removed, created, to) /\ created \in DB
    BY <1>1, GetOrCreateType, GetOrCreateTouches
  <2>3. Touches(created, placed, to) /\ placed \in DB
    BY <2>1, <2>2, StoreType, StoreTouches
  <2>4. Touches(placed, KeyUpdated(placed, to), to) /\ ~IsEmpty(KeyUpdated(placed, to).data[to])
    BY <2>3, KeyUpdatedTouches
  <2> HIDE DEF created, placed
  <2>5. Touches(removed, KeyUpdated(placed, to), to)
    BY <2>2, <2>3, <2>4, TouchesTransitive
  <2>6. Changes(removed, KeyUpdated(placed, to), to) /\ Unset(d, KeyUpdated(placed, to))
    BY <1>3, <2>5 DEF Touches, Changes, Unset
  <2> QED
    BY <1>3, <2>4, <2>6, ChangeKeeps
<1> HIDE DEF placed, created, left
<1>6. Relocate(d, from, to) =
         IF v = NoValue THEN Result("error", removed)
         ELSE Result("ok", KeyUpdated(IF left = NoExp THEN placed
                                      ELSE SetMsexpiration(placed, to, left), to))
  BY Zenon DEF Relocate, v, removed, created, placed, left
<1>7. Quietly(d, Result("ok", KeyUpdated(placed, to)))
  BY DEF Quietly, Result
<1>8. /\ Result("error", removed).db = removed
      /\ Result("ok", KeyUpdated(placed, to)).db = KeyUpdated(placed, to)
  BY DEF Result
<1>9. CASE v = NoValue
  <2>1. Relocate(d, from, to) = Result("error", removed)
    BY <1>6, <1>9
  <2> QED
    BY <1>3, <1>4, <1>8, <1>9, <2>1
<1>10. CASE v # NoValue
  <2>1. Relocate(d, from, to) = Result("ok", KeyUpdated(placed, to))
    BY <1>1, <1>6, <1>10
  <2> QED
    BY <1>5, <1>7, <1>8, <1>10, <2>1
<1> QED
  BY <1>9, <1>10

\* RPOPLPUSH reports both its keys when it moves an element.  It looks at the
\* destination first; that the push fails all the same needs an expired one, and
\* leaves the source shortened and the destination back, without telling.
LEMMA GenericRpoplpushLeaves ==
    ASSUME NEW d \in DB, NEW src \in Slots, NEW dst \in Slots
    PROVE  LET r == GenericRpoplpush(d, src, dst)
           IN /\ Unset(d, r.db) /\ Quietly(d, r)
              /\ Fresh(d) => Leaves(d, r.db, {}, {})
<1> DEFINE target == Get(d, dst)
           opened == GetMut(d, src)
           v      == opened.data[src]
           el     == Popped(v, TRUE)
           rest   == PopValue(v, TRUE)
           popped == Store(opened, src, rest)
           created == GetOrCreate(popped, dst)
           w      == created.data[dst]
           new    == PushValue(w, <<el>>, FALSE)
           pushed == Store(created, dst, new)
           moved  == KeyUpdated(KeyUpdated(pushed, src), dst)
           Moves  == Listable(v) /\ Elements(v) # <<>>
<1>1. v \in Value \cup {NoValue}
  <2>1. opened \in Opened(d, src)
    BY DEF Opened
  <2> QED
    BY <2>1, OpenedType
<1>2. Moves => v \in Value /\ rest \in Value /\ el \in Elems
  <2> SUFFICES ASSUME Moves
               PROVE  v \in Value /\ rest \in Value /\ el \in Elems
    OBVIOUS
  <2> HIDE DEF v
  <2>1. v \in Value
    BY <1>1 DEF Listable, NoValue
  <2> QED
    BY <2>1, PopType DEF Value
<1>3. /\ \A reply : EndsTold(d, src, Result(reply, opened))
      /\ \A reply : EndsTold(d, src, Result(reply, d))
  BY EarlyEnds DEF Quiet
<1>4. Moves => /\ popped \in DB /\ Unset(d, popped) /\ created \in DB /\ w \in Value
               /\ Touches(popped, created, dst) /\ Unset(d, created)
  <2> SUFFICES ASSUME Moves
               PROVE  /\ popped \in DB /\ Unset(d, popped) /\ created \in DB /\ w \in Value
                      /\ Touches(popped, created, dst) /\ Unset(d, created)
    OBVIOUS
  <2>1. popped \in DB /\ Unset(d, popped)
    <3> HIDE DEF rest
    <3> QED
      BY <1>2, MoveLeaves DEF Leaves
  <2> HIDE DEF popped
  <2>2. created \in DB /\ w \in Value /\ Touches(popped, created, dst)
    BY <2>1, GetOrCreateType, GetOrCreateTouches
  <2>3. Unset(d, created)
    BY <2>1, <2>2 DEF Touches, Changes, Unset
  <2> QED
    BY <2>1, <2>2, <2>3
<1>5. Moves /\ Listable(w) => Leaves(d, moved, {}, {})
  <2> SUFFICES ASSUME Moves, Listable(w)
               PROVE  Leaves(d, moved, {}, {})
    OBVIOUS
  <2>1. new \in Value
    <3> HIDE DEF w, el
    <3>1. <<el>> \in Seq(Elems)
      BY <1>2
    <3> QED
      BY <1>4, <3>1, PushType DEF Value
  <2> HIDE DEF rest, new
  <2> QED
    BY <1>2, <2>1, MoveLeaves
\* Where nothing had expired, a destination that is missing is made as nil, and one that
\* is there was looked at.
<1>6. Moves /\ Fresh(d) /\ (target # NoValue => Listable(target)) => Listable(w)
  <2> SUFFICES ASSUME Moves, Fresh(d), target # NoValue => Listable(target)
               PROVE  Listable(w)
    OBVIOUS
  <2>1. w = IF popped.data[dst] = NoValue THEN Nil ELSE popped.data[dst]
    <3> HIDE DEF popped
    <3> QED
      BY <1>4, GetOrCreateTouches
  <2>2. opened = d
    BY DEF GetMut, Fresh
  <2>3. popped.data[dst] = IF dst = src THEN rest ELSE d.data[dst]
    <3>1. rest \in Value
      BY <1>2
    <3> HIDE DEF rest, v
    <3>2. popped = Store(d, src, rest)
      BY <2>2
    <3> HIDE DEF popped
    <3>3. popped.data[src] = rest /\ Changes(d, popped, src)
      BY <3>1, <3>2, StoreTouches DEF Touches
    <3>4. \A t \in Slots \ {src} : popped.data[t] = d.data[t]
      BY <3>3 DEF Changes
    <3> QED
      BY <3>3, <3>4
  <2>4. Listable(rest) /\ Listable(Nil)
    <3>1. rest.type = "list" /\ Nil.type = "nil"
      BY Zenon DEF PopValue, List, Nil
    <3> HIDE DEF rest
    <3> QED
      BY <3>1 DEF Listable
  <2>5. target = d.data[dst]
    BY DEF Get, Fresh
  <2> HIDE DEF popped, rest, w, target
  <2>6. CASE dst = src
    BY <2>1, <2>3, <2>4, <2>6, NothingEmpty
  <2>7. CASE dst # src
    BY <2>1, <2>3, <2>4, <2>5, <2>7
  <2> QED
    BY <2>6, <2>7
<1> HIDE DEF target, opened, v, created, moved, w
<1>7. GenericRpoplpush(d, src, dst) =
         IF target # NoValue /\ ~Listable(target) THEN Result("error", d)
         ELSE IF v = NoValue THEN Result("nil", opened)
         ELSE IF ~Listable(v) THEN Result("error", opened)
         ELSE IF Elements(v) = <<>> THEN Result("nil", opened)
         ELSE IF ~Listable(w) THEN Result("error", created)
         ELSE Result("ok", moved)
  BY Zenon DEF GenericRpoplpush, target, opened, v, el, rest, popped, created, w, new, pushed, moved
<1> HIDE DEF popped, rest, el, new, pushed
<1> DEFINE r == GenericRpoplpush(d, src, dst)
<1>8. \/ EndsTold(d, src, r)
      \/ /\ Moves /\ ~Listable(w) /\ r = Result("error", created)
         /\ target # NoValue => Listable(target)
      \/ Moves /\ Listable(w) /\ r = Result("ok", moved)
  BY <1>3, <1>7
<1> HIDE DEF r
<1>9. Unset(d, r.db) /\ Quietly(d, r) /\ (Fresh(d) => Leaves(d, r.db, {}, {}))
  <2>1. CASE EndsTold(d, src, r)
    BY <2>1, EndsLeave DEF Leaves
  <2>2. CASE Moves /\ ~Listable(w) /\ r = Result("error", created) /\ (target # NoValue => Listable(target))
    <3>1. ~Fresh(d) /\ r.db = created
      BY <1>6, <2>2 DEF Result
    <3> QED
      BY <1>4, <2>2, <3>1 DEF Quietly
  <2>3. CASE Moves /\ Listable(w) /\ r = Result("ok", moved)
    <3>1. r.db = moved /\ r.reply = "ok"
      BY <2>3 DEF Result
    <3> QED
      BY <1>5, <2>3, <3>1 DEF Leaves, Quietly
  <2> QED
    BY <1>8, <2>1, <2>2, <2>3
<1> QED
  BY <1>9 DEF r

-----------------------------------------------------------------------------
(* Strings, expirations and the clearing commands *)

\* A slot reported as updated after others were put in order.
LEMMA ReportAfter ==
    ASSUME NEW d, NEW m \in DB, Leaves(d, m, {}, {}), NEW s \in Slots, NEW o, Touches(m, o, s)
    PROVE  Leaves(d, KeyUpdated(o, s), {}, {})
<1>1. /\ Touches(m, KeyUpdated(o, s), s)
      /\ KeyUpdated(o, s).watched[s] = {} /\ ~IsEmpty(KeyUpdated(o, s).data[s])
  BY ReportTouches, KeyUpdatedTouches DEF Touches, Changes
<1>2. Leaves(d, KeyUpdated(o, s), {} \ {s}, {} \ {s})
  BY <1>1, TouchLeaves
<1>3. {} \ {s} = {}
  OBVIOUS
<1> QED
  BY <1>2, <1>3

\* Database::set_msexpiration of a value that is not empty reports the slot.
LEMMA SetMsexpirationTells ==
    ASSUME NEW d \in DB, NEW m \in DB, NEW s \in Slots, NEW t \in Int,
           Tells(d, m, {}), Keeps(d, m, {}), m.data[s] # NoValue, ~IsEmpty(m.data[s])
    PROVE  LET r == SetMsexpiration(m, s, t)
           IN /\ r \in DB /\ Tells(d, r, {}) /\ Keeps(d, r, {})
              /\ r.data[s] # NoValue /\ ~IsEmpty(r.data[s])
<1> DEFINE n == KeyUpdated(m, s)
           r == SetMsexpiration(m, s, t)
<1>1. n \in DB /\ Changes(m, n, s) /\ n.watched[s] = {} /\ n.data[s] = m.data[s]
  BY KeyUpdatedType, KeyUpdatedTouches DEF Touches
<1>2. r \in DB
  BY SetMsexpirationType
<1>3. r = [n EXCEPT !.exp[s] = t]
  BY DEF SetMsexpiration
<1> HIDE DEF n, r
<1>4. /\ r.now = n.now /\ r.loading = n.loading
      /\ r.data = n.data /\ r.watched = n.watched
      /\ r.exp = [n.exp EXCEPT ![s] = t]
  BY <1>1, <1>3 DEF DB
<1>5. n.exp \in [Slots -> Int \cup {NoExp}]
  BY <1>1 DEF DB
<1>6. Changes(m, r, s)
  BY <1>1, <1>2, <1>4, <1>5 DEF Changes, Paired
<1>7. r.watched[s] = {} /\ r.data[s] # NoValue /\ ~IsEmpty(r.data[s])
  BY <1>1, <1>4
<1>8. Tells(d, r, {} \ {s}) /\ Keeps(d, r, {} \ {s})
  BY <1>6, <1>7, ChangeTells, ChangeKeeps
<1>9. {} \ {s} = {}
  OBVIOUS
<1> QED
  BY <1>2, <1>7, <1>8, <1>9 DEF r

\* SET reports its key, the expiration it is given included.
LEMMA GenericSetLeaves ==
    ASSUME NEW d \in DB, NEW s \in Slots, NEW cmd,
           cmd.val \in StringVal, cmd.px \in Int \cup {NoExp}
    PROVE  LET r == GenericSet(d, s, cmd)
           IN /\ Tells(d, r.db, {}) /\ Keeps(d, r.db, {})
              /\ cmd.px = NoExp => Unset(d, r.db)
              /\ r.reply # "error"
<1> DEFINE created == GetOrCreate(d, s)
           stored == KeyUpdated(Store(created, s, Str(cmd.val)), s)
           timed == SetMsexpiration(stored, s, cmd.px + d.now)
           r == GenericSet(d, s, cmd)
<1>1. Str(cmd.val) \in Value /\ ~IsEmpty(Str(cmd.val))
  BY StrFilled
<1>2. created \in DB /\ Touches(d, created, s)
  BY GetOrCreateType, GetOrCreateTouches
<1> HIDE DEF created
<1>3. Leaves(d, stored, {}, {})
  BY <1>1, <1>2, AssignTouches
<1>4. stored \in DB /\ stored.data[s] = Str(cmd.val)
  <2>1. Store(created, s, Str(cmd.val)) \in DB /\ Store(created, s, Str(cmd.val)).data[s] = Str(cmd.val)
    BY <1>1, <1>2, StoreType
  <2> QED
    BY <1>1, <2>1, KeyUpdatedType, KeyUpdatedTouches
<1> HIDE DEF stored
<1>5. cmd.px # NoExp => Tells(d, timed, {}) /\ Keeps(d, timed, {})
  <2> SUFFICES ASSUME cmd.px # NoExp
               PROVE  Tells(d, timed, {}) /\ Keeps(d, timed, {})
    OBVIOUS
  <2>1. cmd.px + d.now \in Int
    BY DEF DB
  <2>2. stored.data[s] # NoValue /\ ~IsEmpty(stored.data[s])
    BY <1>1, <1>4, NothingEmpty
  <2>3. Tells(d, stored, {}) /\ Keeps(d, stored, {})
    BY <1>3 DEF Leaves
  <2> QED
    BY <1>4, <2>1, <2>2, <2>3, SetMsexpirationTells
<1>6. Leaves(d, d, {}, {})
  BY LeavesItself
<1>7. \/ r = Result("nil", d)
      \/ r = Result("ok", IF cmd.px = NoExp THEN stored ELSE timed)
  BY Zenon DEF GenericSet, created, stored, timed
<1> HIDE DEF r, timed
<1>8. /\ r.db = d \/ r.db = stored \/ (cmd.px # NoExp /\ r.db = timed)
      /\ r.reply # "error"
  BY <1>7 DEF Result
<1>9. /\ Tells(d, r.db, {}) /\ Keeps(d, r.db, {})
      /\ cmd.px = NoExp => Unset(d, r.db)
      /\ r.reply # "error"
  BY <1>3, <1>5, <1>6, <1>8 DEF Leaves
<1> QED
  BY <1>9 DEF r

\* DEL reports a key a client could see.
LEMMA DelLeaves ==
    ASSUME NEW d \in DB, NEW s \in Slots
    PROVE  Leaves(d, Del(d, s).db, {}, {}) /\ Del(d, s).reply = "ok"
<1> DEFINE removed == Remove(d, s)
<1>1. Touches(d, removed, s) /\ removed.data[s] = NoValue
  BY RemoveTouches
<1> HIDE DEF removed
<1>2. Leaves(d, KeyUpdated(removed, s), {}, {})
  BY <1>1, ReportTouches
<1>3. Get(d, s) = NoValue => Leaves(d, removed, {}, {})
  <2> SUFFICES ASSUME Get(d, s) = NoValue
               PROVE  Leaves(d, removed, {}, {})
    OBVIOUS
  <2>1. Get(removed, s) = NoValue
    BY <1>1 DEF Get
  <2>2. Visible(removed, s) = Visible(d, s)
    BY <2>1, Zenon DEF Visible
  <2> QED
    BY <1>1, <2>2, NothingEmpty, TouchedLeaves
<1> QED
  BY <1>2, <1>3 DEF Del, Result, Removed, removed

\* PEXPIRE and PEXPIREAT report their key, before and after the expiration is set.
LEMMA GenericExpireTells ==
    ASSUME NEW d \in DB, NEW s \in Slots, NEW t \in Int, Filled(d)
    PROVE  LET r == GenericExpire(d, s, t)
           IN Tells(d, r.db, {}) /\ Keeps(d, r.db, {}) /\ r.reply = "ok"
<1> DEFINE timed == SetMsexpiration(d, s, t)
<1>1. Tells(d, d, {}) /\ Keeps(d, d, {})
  BY LeavesItself DEF Leaves
<1>2. CASE Get(d, s) # NoValue
  <2>1. d.data[s] # NoValue /\ ~IsEmpty(d.data[s])
    BY <1>2 DEF Get, Filled
  <2>2. /\ timed \in DB /\ Tells(d, timed, {}) /\ Keeps(d, timed, {})
        /\ timed.data[s] # NoValue /\ ~IsEmpty(timed.data[s])
    BY <1>1, <2>1, SetMsexpirationTells
  <2> HIDE DEF timed
  <2> DEFINE r == KeyUpdated(timed, s)
  <2>3. Changes(timed, r, s) /\ r.watched[s] = {} /\ ~IsEmpty(r.data[s])
    BY <2>2, KeyUpdatedTouches DEF Touches
  <2> HIDE DEF r
  <2>4. Tells(d, r, {} \ {s}) /\ Keeps(d, r, {} \ {s})
    BY <2>2, <2>3, ChangeTells, ChangeKeeps
  <2>5. {} \ {s} = {}
    OBVIOUS
  <2>6. GenericExpire(d, s, t) = Result("ok", r)
    BY <1>2, Zenon DEF GenericExpire, timed, r
  <2> QED
    BY <2>4, <2>5, <2>6 DEF Result
<1>3. CASE Get(d, s) = NoValue
  BY <1>1, <1>3 DEF GenericExpire, Result
<1> QED
  BY <1>2, <1>3

\* PERSIST reports its key.
LEMMA PersistLeaves ==
    ASSUME NEW d \in DB, NEW s \in Slots
    PROVE  Leaves(d, Persist(d, s).db, {}, {}) /\ Persist(d, s).reply = "ok"
BY RemoveMsexpirationTouches, ReportTouches DEF Persist, Result

\* FLUSHDB and FLUSHALL tell the watchers of every key that held a value.
LEMMA ClearLeaves ==
    ASSUME NEW d \in DB, NEW S \in SUBSET Slots
    PROVE  Leaves(d, Clear(d, S), {}, {})
<1> DEFINE r == Clear(d, S)
           updated == {s \in S : d.watched[s] # {} /\ d.data[s] # NoValue}
<1>1. r \in DB
  BY ClearType
<1>2. /\ r.now = d.now /\ r.loading = d.loading
      /\ r.data = [s \in Slots |-> IF s \in S THEN NoValue ELSE d.data[s]]
      /\ r.exp = [s \in Slots |-> IF s \in S THEN NoExp ELSE d.exp[s]]
      /\ r.watched = [s \in Slots |-> IF s \in updated THEN {} ELSE d.watched[s]]
  BY DEF Clear, DB
<1> HIDE DEF r
<1>3. ASSUME NEW s \in Slots
      PROVE  /\ r.watched[s] \subseteq d.watched[s]
             /\ Visible(r, s) = Visible(d, s) \/ r.watched[s] = {}
             /\ Paired(d, s) => Paired(r, s)
             /\ IsEmpty(r.data[s]) => IsEmpty(d.data[s])
             /\ r.exp[s] \in {d.exp[s], NoExp}
  <2>1. CASE s \notin S
    <3>1. r.data[s] = d.data[s] /\ r.exp[s] = d.exp[s] /\ r.watched[s] = d.watched[s]
      BY <1>2, <2>1
    <3>2. Visible(r, s) = Visible(d, s)
      BY <1>2, <3>1, SameVisible
    <3> QED
      BY <3>1, <3>2 DEF Paired
  <2>2. CASE s \in S
    <3>1. /\ r.data[s] = NoValue /\ r.exp[s] = NoExp
          /\ r.watched[s] = IF s \in updated THEN {} ELSE d.watched[s]
      BY <1>2, <2>2
    <3>2. CASE d.data[s] # NoValue
      <4>1. r.watched[s] = {}
        BY <2>2, <3>1, <3>2
      <4> QED
        BY <3>1, <4>1, NothingEmpty DEF Paired
    <3>3. CASE d.data[s] = NoValue
      <4>1. Get(r, s) = NoValue /\ Get(d, s) = NoValue
        BY <3>1, <3>3 DEF Get
      <4>2. Visible(r, s) = Visible(d, s)
        BY <4>1, Zenon DEF Visible
      <4>3. r.watched[s] = d.watched[s]
        BY <3>1, <3>3
      <4> QED
        BY <3>1, <4>2, <4>3, NothingEmpty DEF Paired
    <3> QED
      BY <3>2, <3>3
  <2> QED
    BY <2>1, <2>2
<1>4. Leaves(d, r, {}, {})
  BY <1>1, <1>2, <1>3 DEF Leaves, Tells, Keeps, Unset
<1> QED
  BY <1>4 DEF r

\* Expired values go unnoticed: nobody could see them.
LEMMA RemoveAllLeaves ==
    ASSUME NEW d \in DB, NEW S \in SUBSET Expired(d, Slots)
    PROVE  /\ RemoveAll(d, S) \in DB
           /\ Leaves(d, RemoveAll(d, S), {}, {})
           /\ Modified(d, RemoveAll(d, S)) = {}
<1> DEFINE r == RemoveAll(d, S)
<1>1. r \in DB
  BY RemoveAllType DEF Expired
<1>2. /\ r.now = d.now /\ r.loading = d.loading
      /\ r.data = [s \in Slots |-> IF s \in S THEN NoValue ELSE d.data[s]]
      /\ r.exp = [s \in Slots |-> IF s \in S THEN NoExp ELSE d.exp[s]]
      /\ r.watched = d.watched
  BY DEF RemoveAll, DB
<1> HIDE DEF r
<1>3. ASSUME NEW s \in Slots
      PROVE  /\ Visible(r, s) = Visible(d, s)
             /\ Paired(d, s) => Paired(r, s)
             /\ IsEmpty(r.data[s]) => IsEmpty(d.data[s])
             /\ r.exp[s] \in {d.exp[s], NoExp}
  <2>1. CASE s \notin S
    <3>1. r.data[s] = d.data[s] /\ r.exp[s] = d.exp[s]
      BY <1>2, <2>1
    <3>2. Visible(r, s) = Visible(d, s)
      BY <1>2, <3>1, SameVisible
    <3> QED
      BY <3>1, <3>2 DEF Paired
  <2>2. CASE s \in S
    <3>1. r.data[s] = NoValue /\ r.exp[s] = NoExp /\ IsExpired(d, s)
      BY <1>2, <2>2 DEF Expired
    <3>2. Get(r, s) = NoValue /\ Get(d, s) = NoValue
      BY <3>1 DEF Get
    <3>3. Visible(r, s) = Visible(d, s)
      BY <3>2, Zenon DEF Visible
    <3> QED
      BY <3>1, <3>3, NothingEmpty DEF Paired
  <2> QED
    BY <2>1, <2>2
<1>4. Leaves(d, r, {}, {})
  BY <1>1, <1>2, <1>3 DEF Leaves, Tells, Keeps, Unset
<1>5. Modified(d, r) = {}
  BY <1>3 DEF Modified
<1> QED
  BY <1>1, <1>4, <1>5 DEF r

\* BLPOP and BRPOP report the key they pop from.
LEMMA GenericBpopLeaves ==
    ASSUME NEW d \in DB, NEW i \in Dbs, NEW keys \in Seq(Keys), NEW right \in BOOLEAN
    PROVE  LET r == GenericBpop(d, i, keys, right)
           IN Leaves(d, r.db, {}, {}) /\ Quietly(d, r)
<1> DEFINE r == GenericBpop(d, i, keys, right)
<1>1. PICK S \in SUBSET Expired(d, Slots) :
         \/ r.db = RemoveAll(d, S)
         \/ /\ r.reply = "ok"
            /\ \E s \in Slots : \E v \in Value :
                  r.db = KeyUpdated(Store(RemoveAll(d, S), s, v), s)
  BY GenericBpopEnds
<1> DEFINE m == RemoveAll(d, S)
<1>2. m \in DB /\ Leaves(d, m, {}, {}) /\ Modified(d, m) = {}
  BY RemoveAllLeaves
<1> HIDE DEF r, m
<1>3. ASSUME NEW s \in Slots, NEW v \in Value
      PROVE  Leaves(d, KeyUpdated(Store(m, s, v), s), {}, {})
  BY <1>2, StoreTouches, ReportAfter
<1>4. r.db = m \/ (r.reply = "ok" /\ \E s \in Slots : \E v \in Value : r.db = KeyUpdated(Store(m, s, v), s))
  BY <1>1 DEF m
<1>5. Leaves(d, r.db, {}, {}) /\ Quietly(d, r)
  BY <1>2, <1>3, <1>4 DEF Quietly
<1> QED
  BY <1>5 DEF r

-----------------------------------------------------------------------------
(* Every handler *)

\* The commands that move a value to another key, and do not report the key it leaves;
\* those that move an element; and those that set an expiration
Relocations == {"rename", "renamenx", "move"}
Transfers == {"rpoplpush", "brpoplpush"}
Expires(cmd) == cmd.op \in {"pexpire", "pexpireat"} \/ (cmd.op = "set" /\ cmd.px # NoExp)

\* What a command leaves of the record d: r
Handled(d, cmd, r) ==
    /\ (cmd.op \in Transfers => Fresh(d)) => Keeps(d, r, {})
    /\ cmd.op \notin Relocations /\ (cmd.op \in Transfers \cup Reviving => Fresh(d)) =>
          Tells(d, r, {})
    /\ ~Expires(cmd) => Unset(d, r)

\* What a handler that always ends in order is known for.
LEMMA LeavesHandled ==
    ASSUME NEW d, NEW cmd, NEW r, Leaves(d, r.db, {}, {}), Quietly(d, r)
    PROVE  Handled(d, cmd, r.db) /\ Quietly(d, r)
BY DEF Leaves, Handled

\* The commands on sets, hashes, lists and several keys.
LEMMA CollectionHandled ==
    ASSUME NEW d \in DB, NEW i \in Dbs, NEW cmd \in CollectionCommand
    PROVE  LET r == CollectionHandler(d, i, cmd)
           IN Handled(d, cmd, r.db) /\ Quietly(d, r)
<1> DEFINE r == CollectionHandler(d, i, cmd)
<1>1. \/ r.db = d
      \/ \E s \in Slots : \/ EndsTold(d, s, r)
                          \/ cmd.op \in Reviving /\ Ends(d, s, r)
                          \/ r.reply # "error" /\ r.db \in Reported(Remove(d, s), s)
      \/ cmd.op = "smove" /\ \E s, t \in Slots : \E e \in Elems : r = Smove(d, s, t, e)
      \/ \E K \in SUBSET Keys : \E vals \in [K -> StringVal] : r = Mset(d, i, vals)
  BY CollectionEnds DEF Reviving
<1> HIDE DEF r
<1>2. ASSUME r.db = d
      PROVE  Handled(d, cmd, r.db) /\ Quietly(d, r)
  <2>1. Modified(d, d) = {}
    BY DEF Modified
  <2> QED
    BY <1>2, <2>1, LeavesItself, LeavesHandled DEF Quietly
<1>3. ASSUME NEW s \in Slots, EndsTold(d, s, r)
      PROVE  Handled(d, cmd, r.db) /\ Quietly(d, r)
  BY <1>3, EndsLeave, LeavesHandled
<1>4. ASSUME NEW s \in Slots, cmd.op \in Reviving, Ends(d, s, r)
      PROVE  Handled(d, cmd, r.db) /\ Quietly(d, r)
  BY <1>4, EndsLeave DEF Handled, Leaves
<1>5. ASSUME NEW s \in Slots, r.reply # "error", r.db \in Reported(Remove(d, s), s)
      PROVE  Handled(d, cmd, r.db) /\ Quietly(d, r)
  <2> DEFINE m == Remove(d, s)
  <2>1. m \in DB /\ Touches(d, m, s)
    BY RemoveType, RemoveTouches
  <2> HIDE DEF m
  <2>2. ASSUME NEW o \in Opened(m, s)
        PROVE  /\ Touches(d, o, s)
               /\ Leaves(d, KeyUpdated(o, s), {}, {})
               /\ \A v \in Value : Leaves(d, KeyUpdated(Store(o, s, v), s), {}, {})
    <3>1. Touches(d, o, s)
      BY <2>1, OpenedTouches, TouchesTransitive
    <3> QED
      BY <3>1, ReportTouches, AssignTouches
  <2>3. r.db \in Reported(m, s)
    BY <1>5 DEF m
  <2>4. Leaves(d, r.db, {}, {})
    BY <2>2, <2>3 DEF Reported
  <2> QED
    BY <1>5, <2>4, LeavesHandled DEF Quietly
<1>6. ASSUME NEW s \in Slots, NEW t \in Slots, NEW e \in Elems, r = Smove(d, s, t, e)
      PROVE  Handled(d, cmd, r.db) /\ Quietly(d, r)
  BY <1>6, SmoveLeaves, LeavesHandled
<1>7. ASSUME NEW K \in SUBSET Keys, NEW vals \in [K -> StringVal], r = Mset(d, i, vals)
      PROVE  Handled(d, cmd, r.db) /\ Quietly(d, r)
  <2>1. Leaves(d, r.db, {}, {}) /\ r.reply = "ok"
    BY <1>7, MsetLeaves
  <2> QED
    BY <2>1, LeavesHandled DEF Quietly
<1>8. Handled(d, cmd, r.db) /\ Quietly(d, r)
  BY <1>1, <1>2, <1>3, <1>4, <1>5, <1>6, <1>7
<1> QED
  BY <1>8 DEF r

\* RENAME, RENAMENX and MOVE leave everything as it was or relocate a value.
LEMMA RelocationHandled ==
    ASSUME NEW d \in DB, NEW cmd, cmd.op \in Relocations, NEW r,
           \/ r.db = d
           \/ \E s, t \in Slots : r = Relocate(d, s, t)
    PROVE  Handled(d, cmd, r.db) /\ Quietly(d, r)
<1>1. CASE r.db = d
  <2>1. Modified(d, d) = {}
    BY DEF Modified
  <2> QED
    BY <1>1, <2>1, LeavesItself, LeavesHandled DEF Quietly
<1>2. CASE \E s, t \in Slots : r = Relocate(d, s, t)
  <2>1. Keeps(d, r.db, {}) /\ Unset(d, r.db) /\ Quietly(d, r)
    BY <1>2, RelocateLeaves
  <2> QED
    BY <2>1 DEF Handled
<1> QED
  BY <1>1, <1>2

\* Every command.
LEMMA CommandHandled ==
    ASSUME NEW d \in DB, Filled(d), NEW i \in Dbs, NEW cmd \in Command, cmd.op # "select"
    PROVE  LET r == Handler(d, i, cmd)
           IN Handled(d, cmd, r.db) /\ Quietly(d, r)
<1>a. CASE cmd \in CollectionCommand
  BY <1>a, CollectionsHandled, CollectionHandled
<1>b. CASE cmd \in KeyCommand
  <2> USE <1>b DEF KeyCommand, CollectionOps
  <2> DEFINE r == Handler(d, i, cmd)
             s == <<i, cmd.key>>
  <2>0. /\ \A k \in Keys : <<i, k>> \in Slots
        /\ d.now \in Nat
        /\ Slots \in SUBSET Slots
        /\ {x \in Slots : x[1] = i} \in SUBSET Slots
    BY DEF Slots, DB
  <2>1. CASE cmd.op \in {"flushdb", "flushall"}
    <3>1. \E S \in SUBSET Slots : r = Result("ok", Clear(d, S))
      BY <2>0, <2>1 DEF Handler
    <3> HIDE DEF r
    <3>2. Leaves(d, r.db, {}, {}) /\ Quietly(d, r)
      BY <3>1, ClearLeaves DEF Result, Quietly
    <3>3. Handled(d, cmd, r.db) /\ Quietly(d, r)
      BY <3>2, LeavesHandled
    <3> QED
      BY <3>3 DEF r
  <2>2. CASE cmd.op = "get"
    <3>1. r = Result("ok", d)
      BY <2>2 DEF Handler
    <3> HIDE DEF r
    <3>2. Leaves(d, r.db, {}, {}) /\ Quietly(d, r)
      BY <3>1, LeavesItself DEF Result, Quietly
    <3>3. Handled(d, cmd, r.db) /\ Quietly(d, r)
      BY <3>2, LeavesHandled
    <3> QED
      BY <3>3 DEF r
  <2>3. CASE cmd.op \in {"del", "persist"}
    <3>1. s \in Slots
      BY <2>0, <2>3
    <3>2. r = Del(d, s) \/ r = Persist(d, s)
      BY <2>3 DEF Handler
    <3> HIDE DEF r, s
    <3>3. Leaves(d, r.db, {}, {}) /\ Quietly(d, r)
      BY <3>1, <3>2, DelLeaves, PersistLeaves DEF Quietly
    <3>4. Handled(d, cmd, r.db) /\ Quietly(d, r)
      BY <3>3, LeavesHandled
    <3> QED
      BY <3>4 DEF r
  <2>4. CASE cmd.op = "set"
    <3>1. s \in Slots /\ cmd.val \in StringVal /\ cmd.px \in Int \cup {NoExp}
      BY <2>0, <2>4
    <3>2. r = GenericSet(d, s, cmd)
      BY <2>4 DEF Handler
    <3> HIDE DEF r, s
    <3>3. /\ Tells(d, r.db, {}) /\ Keeps(d, r.db, {}) /\ Quietly(d, r)
          /\ cmd.px = NoExp => Unset(d, r.db)
      BY <3>1, <3>2, GenericSetLeaves DEF Quietly
    <3>4. Handled(d, cmd, r.db) /\ Quietly(d, r)
      BY <2>4, <3>3 DEF Handled, Expires
    <3> QED
      BY <3>4 DEF r
  <2>5. CASE cmd.op \in {"getset", "incrby", "push", "pop"}
    <3>1. s \in Slots
      BY <2>0, <2>5
    <3>2. EndsTold(d, s, r)
      <4> HIDE DEF s
      <4>1. CASE cmd.op = "getset"
        BY <3>1, <4>1, GetSetEnds DEF Handler, s
      <4>2. CASE cmd.op = "incrby"
        BY <3>1, <4>2, GenericIncrEnds DEF Handler, s
      <4>3. CASE cmd.op = "push"
        BY <3>1, <4>3, GenericPushEnds DEF Handler, s
      <4>4. CASE cmd.op = "pop"
        BY <3>1, <4>4, GenericPopEnds DEF Handler, s
      <4> QED
        BY <2>5, <4>1, <4>2, <4>3, <4>4
    <3> HIDE DEF r, s
    <3>3. Handled(d, cmd, r.db) /\ Quietly(d, r)
      BY <3>1, <3>2, EndsLeave, LeavesHandled
    <3> QED
      BY <3>3 DEF r
  <2>6. CASE cmd.op \in {"pexpire", "pexpireat"}
    <3>1. s \in Slots
      BY <2>0, <2>6
    <3>2. \E t \in Int : r = GenericExpire(d, s, t)
      <4>1. cmd.ms \in Int /\ d.now + cmd.ms \in Int
        BY <2>0, <2>6
      <4> QED
        BY <2>6, <4>1 DEF Handler
    <3> HIDE DEF r, s
    <3>3. Tells(d, r.db, {}) /\ Keeps(d, r.db, {}) /\ Quietly(d, r)
      BY <3>1, <3>2, GenericExpireTells DEF Quietly
    <3>4. Handled(d, cmd, r.db) /\ Quietly(d, r)
      BY <2>6, <3>3 DEF Handled, Expires
    <3> QED
      BY <3>4 DEF r
  <2>7. CASE cmd.op \in Relocations
    <3>1. \/ r.db = d
          \/ \E x, y \in Slots : r = Relocate(d, x, y)
      <4>1. CASE cmd.op \in {"rename", "renamenx"}
        BY <2>0, <4>1 DEF Handler, Rename, RenameNx, Result
      <4>2. CASE cmd.op = "move"
        <5>1. cmd.to \in Dbs => <<cmd.to, cmd.key>> \in Slots
          BY <4>2 DEF Slots
        <5> QED
          BY <2>0, <4>2, <5>1 DEF Handler, MoveKey, Result
      <4> QED
        BY <2>7, <4>1, <4>2 DEF Relocations
    <3> HIDE DEF r
    <3>2. Handled(d, cmd, r.db) /\ Quietly(d, r)
      BY <2>7, <3>1, RelocationHandled
    <3> QED
      BY <3>2 DEF r
  <2>8. CASE cmd.op \in Transfers
    <3>1. \E x, y \in Slots : r = GenericRpoplpush(d, x, y)
      BY <2>0, <2>8 DEF Handler, Transfers
    <3> HIDE DEF r
    <3>2. Unset(d, r.db) /\ Quietly(d, r) /\ (Fresh(d) => Leaves(d, r.db, {}, {}))
      BY <3>1, GenericRpoplpushLeaves
    <3>3. Handled(d, cmd, r.db) /\ Quietly(d, r)
      BY <2>8, <3>2 DEF Handled, Leaves
    <3> QED
      BY <3>3 DEF r
  <2>9. CASE cmd.op = "bpop"
    <3>1. r = GenericBpop(d, i, cmd.keys, cmd.right)
      BY <2>9 DEF Handler
    <3>2. cmd.keys \in Seq(Keys) /\ cmd.right \in BOOLEAN
      BY <2>9
    <3> HIDE DEF r
    <3>3. Leaves(d, r.db, {}, {}) /\ Quietly(d, r)
      BY <3>1, <3>2, GenericBpopLeaves
    <3>4. Handled(d, cmd, r.db) /\ Quietly(d, r)
      BY <3>3, LeavesHandled
    <3> QED
      BY <3>4 DEF r
  <2> QED
    BY <2>1, <2>2, <2>3, <2>4, <2>5, <2>6, <2>7, <2>8, <2>9 DEF Relocations, Transfers
<1> QED
  BY <1>a, <1>b DEF Command

-----------------------------------------------------------------------------
(* Every step *)

\* A command some client issued, perhaps with another timeout
Issued(cmd) == \E e \in Cmds : e.op = cmd.op /\ (Expires(cmd) => Expires(e))

\* The commands of waits were issued.
WaitOps == \A c \in Clients : wait[c] \in Wait => \E e \in Cmds : e.op = wait[c].cmd.op

\* Nothing is set, removed or told, and the history of a client is kept or dropped
Rests ==
    /\ db'.data = db.data /\ db'.exp = db.exp /\ db'.watched = db.watched
    /\ \A c \in Clients : \/ dirty'[c] = {}
                          \/ dirty'[c] = dirty[c] /\ watched_keys'[c] = watched_keys[c]

\* A handler changes the keys, or nobody does, and the history is told
Records ==
    /\ Remember
    /\ \/ Leaves(db, db', {}, {})
       \/ \E cmd \in Command : Issued(cmd) /\ Handled(db, cmd, db')

\* The key subscribers have no part in this.
LEMMA SubscribedHandled ==
    ASSUME NEW d, NEW cmd, NEW m \in DB, Handled(d, cmd, m), NEW S \in SUBSET Slots, NEW c \in Clients
    PROVE  Handled(d, cmd, KeySubscribe(m, S, c))
<1> DEFINE r == KeySubscribe(m, S, c)
<1>1. r \in DB
  BY RegistrationType
<1>2. /\ r.data = m.data /\ r.exp = m.exp /\ r.watched = m.watched
      /\ r.now = m.now /\ r.loading = m.loading
  BY DEF KeySubscribe, DB
<1> HIDE DEF r
<1>3. \A s \in Slots : Visible(r, s) = Visible(m, s)
  BY <1>2, SameVisible
<1>4. Tells(d, m, {}) => Tells(d, r, {})
  BY <1>1, <1>2, <1>3 DEF Tells
<1>5. (Keeps(d, m, {}) => Keeps(d, r, {})) /\ (Unset(d, m) => Unset(d, r))
  BY <1>2 DEF Keeps, Unset, Paired
<1> QED
  BY <1>4, <1>5 DEF Handled, r

\* A handler is given a database that exists, or clears them all.
LEMMA IndexHandled ==
    ASSUME TypeOK, Filled(db), NEW c \in Clients, NEW cmd \in Command, ~BadIndex(c, cmd),
           cmd.op # "select"
    PROVE  LET r == Handler(db, dbindex[c], cmd)
           IN r.db \in DB /\ Handled(db, cmd, r.db)
<1>1. Handler(db, dbindex[c], cmd).db \in DB /\ db \in DB
  BY GoodIndex DEF TypeOK
<1>2. CASE dbindex[c] \in Dbs
  BY <1>1, <1>2, CommandHandled
<1>3. CASE dbindex[c] \notin Dbs
  <2>1. cmd.op = "flushall"
    BY <1>3 DEF BadIndex
  <2> DEFINE r == Handler(db, dbindex[c], cmd)
  <2>2. r = Result("ok", Clear(db, Slots))
    BY <2>1 DEF Handler, CollectionOps
  <2> HIDE DEF r
  <2>3. Leaves(db, r.db, {}, {}) /\ Quietly(db, r)
    BY <1>1, <2>2, ClearLeaves DEF Result, Quietly
  <2>4. Handled(db, cmd, r.db)
    BY <2>3, LeavesHandled
  <2> QED
    BY <1>1, <2>4 DEF r
<1> QED
  BY <1>2, <1>3

\* A command that replies.
LEMMA CompleteRecords ==
    ASSUME TypeOK, Filled(db), NEW c \in Clients, NEW cmd \in Command, Issued(cmd),
           Complete(c, cmd), Remember
    PROVE  Records
<1>1. CASE cmd.op = "select"
  <2>1. db' = db
    BY <1>1 DEF Complete
  <2> QED
    BY <2>1, LeavesItself DEF Records, TypeOK
<1>2. CASE cmd.op # "select"
  <2>1. db' = Handler(db, dbindex[c], cmd).db /\ ~BadIndex(c, cmd)
    BY <1>2 DEF Complete, Panics
  <2>2. Handled(db, cmd, db')
    BY <1>2, <2>1, IndexHandled
  <2> QED
    BY <2>2 DEF Records
<1> QED
  BY <1>1, <1>2

\* A command that blocks.
LEMMA BlockRecords ==
    ASSUME TypeOK, Filled(db), NEW c \in Clients, NEW cmd \in Command, Issued(cmd), Block(c, cmd)
    PROVE  Records
<1>1. cmd.op \in Blocking /\ ~BadIndex(c, cmd) /\ cmd.op # "select"
  BY DEF Block, MustWait, Blocking
<1>2. WaitSlots(dbindex[c], cmd) \in SUBSET Slots
  BY <1>1, GoodIndex, KeyOp DEF WaitSlots, Slots, KeyCommand, Blocking
<1> DEFINE m == Handler(db, dbindex[c], cmd).db
<1>3. m \in DB /\ Handled(db, cmd, m)
  BY <1>1, IndexHandled
<1>4. db' = KeySubscribe(m, WaitSlots(dbindex[c], cmd), c) /\ Remember
  BY DEF Block
<1> HIDE DEF m
<1>5. Handled(db, cmd, db')
  BY <1>2, <1>3, <1>4, SubscribedHandled
<1> QED
  BY <1>4, <1>5 DEF Records

\* Every step is one of three kinds.
LEMMA KindsOfStep ==
    ASSUME TypeInv, WaitOps, Filled(db), [Next]_vars
    PROVE  \/ Records
           \/ Rests
           \/ \E c \in Clients : \E ks \in WatchSets : Watch(c, ks)
<1> USE ServerAssumption
<1>0. /\ TypeOK /\ db \in DB
      /\ \A cmd \in Cmds : cmd \in Command /\ Issued(cmd)
      /\ dirty \in [Clients -> SUBSET Slots] /\ watched_keys \in [Clients -> SUBSET Slots]
  BY DEF TypeInv, TypeOK, Issued
<1>1. ASSUME NEW c \in Clients, NEW cmd \in Cmds, Request(c, cmd)
      PROVE  Records
  BY <1>0, <1>1, CompleteRecords DEF Request
<1>2. ASSUME NEW c \in Clients, NEW cmd \in Cmds, RequestBlock(c, cmd)
      PROVE  Records
  BY <1>0, <1>2, BlockRecords DEF RequestBlock
<1>3. ASSUME NEW c \in Clients, ExecStep(c)
      PROVE  Records
  <2>1. Head(running) \in Cmds
    BY <1>3 DEF ExecStep, TypeInv, TypeOK
  <2> QED
    BY <1>0, <1>3, <2>1, CompleteRecords DEF ExecStep
<1>4. ASSUME NEW c \in Clients, pc[c] = "retry"
      PROVE  wait[c].cmd \in Command /\ Issued(wait[c].cmd)
  <2>1. wait[c] \in Wait
    BY <1>4 DEF TypeInv
  <2>2. wait[c].cmd \in Command /\ wait[c].cmd.op \in Blocking
    BY <2>1 DEF Wait
  <2>3. ~Expires(wait[c].cmd)
    BY <2>2 DEF Expires, Blocking
  <2> QED
    BY <2>1, <2>2, <2>3 DEF Issued, WaitOps
<1>5. ASSUME NEW c \in Clients, Retry(c)
      PROVE  Records
  BY <1>0, <1>4, <1>5, CompleteRecords DEF Retry
<1>6. ASSUME NEW c \in Clients, RetryBlock(c)
      PROVE  Records
  BY <1>0, <1>4, <1>6, BlockRecords DEF RetryBlock
<1>7. ASSUME Hz
      PROVE  Records
  <2>1. PICK S \in SUBSET Expired(db, Slots) : db' = RemoveAll(db, S)
    BY <1>7 DEF Hz
  <2> QED
    BY <1>0, <1>7, <2>1, RemoveAllLeaves DEF Hz, Records
<1>8. ASSUME UNCHANGED <<db, dirty, watched_keys>>
      PROVE  Rests
  BY <1>8 DEF Rests
<1>9. ASSUME NEW c \in Clients, Unwatch(c) \/ LeaveMulti(c) \/ Leave(c)
      PROVE  Rests
  <2>1. /\ dirty' = [dirty EXCEPT ![c] = {}]
        /\ watched_keys' = [watched_keys EXCEPT ![c] = {}]
        /\ db' = db
    BY <1>9 DEF Unwatch, LeaveMulti, Leave
  <2> QED
    BY <1>0, <2>1 DEF Rests
<1>10. ASSUME NEW c \in Clients, Waker(c) \/ RecvTimeout(c) \/ RecvCommand(c)
       PROVE  Rests
  <2>1. /\ db'.data = db.data /\ db'.exp = db.exp /\ db'.watched = db.watched
        /\ dirty' = dirty /\ watched_keys' = watched_keys
    BY <1>0, <1>10 DEF Waker, RecvTimeout, RecvCommand, Forget, DB, clientVars
  <2> QED
    BY <2>1 DEF Rests
<1>11. ASSUME Tick
       PROVE  Rests
  BY <1>0, <1>11 DEF Tick, Rests, DB, clientVars
<1>12. ASSUME NEW c \in Clients, \/ \E cmd \in Cmds : RequestPanic(c, cmd) \/ Queue(c, cmd)
                                 \/ Multi(c) \/ ExecPanic(c) \/ Timer(c)
       PROVE  Rests
  BY <1>8, <1>12 DEF RequestPanic, Queue, Multi, ExecPanic, Timer, Panic, clientVars
<1>13. ASSUME NEW c \in Clients, Discard(c) \/ ExecNothing(c) \/ Exec(c)
       PROVE  Rests
  BY <1>9, <1>13 DEF Discard, ExecNothing, Exec
<1>14. ASSUME UNCHANGED vars
       PROVE  Rests
  BY <1>8, <1>14 DEF vars, clientVars
<1> QED
  BY <1>1, <1>2, <1>3, <1>5, <1>6, <1>7, <1>9, <1>10, <1>11, <1>12, <1>13, <1>14 DEF Next

-----------------------------------------------------------------------------
(* What the keyspace holds *)

\* Clients use no command that sets an expiration, or none that moves an element
NoExpirations == \A cmd \in Cmds : ~Expires(cmd)
NoTransfers == \A cmd \in Cmds : cmd.op \notin Transfers

\* Inductive where one of them holds
KeyInv ==
    /\ TypeInv
    /\ WaitOps
    /\ NoEmptyStored
    /\ NoOrphanExpiration
    /\ NoExpirations => \A s \in Slots : db.exp[s] = NoExp

\* Without expirations nothing expires.
LEMMA NeverExpired ==
    ASSUME NEW d, \A s \in Slots : d.exp[s] = NoExp
    PROVE  Fresh(d)
BY DEF Fresh, IsExpired

\* The invariant holds at the start.
LEMMA KeyInit == Init => KeyInv
<1> SUFFICES ASSUME Init
             PROVE  KeyInv
  OBVIOUS
<1>1. db.data = [s \in Slots |-> NoValue] /\ db.exp = [s \in Slots |-> NoExp]
  BY DEF Init, NewDatabase
<1>2. NoEmptyStored /\ NoOrphanExpiration
  BY <1>1, NothingEmpty DEF NoEmptyStored, NoOrphanExpiration
<1>3. WaitOps
  BY DEF Init, WaitOps, Wait, NoWait
<1> QED
  BY <1>1, <1>2, <1>3, InitType DEF KeyInv

\* A wait keeps the command it was begun with, but for the timeout.
LEMMA WaitOpsStep ==
    ASSUME TypeInv, WaitOps, [Next]_vars
    PROVE  WaitOps'
<1>0. /\ NoWait \notin Wait
      /\ wait \in [Clients -> Wait \cup {NoWait}]
  BY DEF TypeInv, TypeOK, Wait, NoWait
<1> DEFINE Keeps1(c) == wait'[c] \in Wait => wait[c] \in Wait /\ wait'[c].cmd.op = wait[c].cmd.op
           Keeping == \A c \in Clients : Keeps1(c)
<1>1. Keeping => WaitOps'
  BY DEF WaitOps
<1>2. ASSUME NEW c \in Clients, NEW cmd \in Cmds, RequestBlock(c, cmd)
      PROVE  WaitOps'
  <2>1. wait'[c].cmd = cmd /\ \A e \in Clients \ {c} : wait'[e] = wait[e]
    BY <1>0, <1>2 DEF RequestBlock, Block
  <2> QED
    BY <2>1 DEF WaitOps
<1>3. ASSUME NEW c \in Clients, RetryBlock(c)
      PROVE  Keeping
  <2>1. wait[c] \in Wait
    BY <1>3 DEF RetryBlock, TypeInv
  <2>2. wait'[c].cmd = wait[c].cmd /\ \A e \in Clients \ {c} : wait'[e] = wait[e]
    BY <1>0, <1>3 DEF RetryBlock, Block
  <2> QED
    BY <2>1, <2>2
<1>4. ASSUME NEW c \in Clients, Waker(c) \/ Timer(c) \/ RecvCommand(c)
      PROVE  Keeping
  <2>1. wait[c] \in Wait
    BY <1>0, <1>4 DEF Waker, Timer, RecvCommand, NoWait
  <2>2. wait'[c].cmd.op = wait[c].cmd.op
    <3>1. wait[c].cmd \in Command /\ wait[c].cmd.op \in Blocking
      BY <2>1 DEF Wait
    <3>2. [wait[c].cmd EXCEPT !.timeout = Head(wait[c].chan)].op = wait[c].cmd.op
      BY <3>1, KeyOp DEF KeyCommand, Blocking
    <3>3. CASE Waker(c) \/ Timer(c)
      <4>1. /\ DOMAIN wait[c] = {"cmd", "since", "deadline", "waker", "chan"}
            /\ wait[c] = [x \in DOMAIN wait[c] |-> wait[c][x]]
        BY <2>1 DEF Wait
      <4>2. wait'[c].cmd = wait[c].cmd
        BY <1>0, <3>3, <4>1 DEF Waker, Timer
      <4> QED
        BY <4>2
    <3>4. CASE RecvCommand(c)
      <4>1. wait'[c].cmd = [wait[c].cmd EXCEPT !.timeout = Head(wait[c].chan)]
        BY <1>0, <3>4 DEF RecvCommand
      <4> QED
        BY <3>2, <4>1
    <3> QED
      BY <1>4, <3>3, <3>4
  <2>3. \A e \in Clients \ {c} : wait'[e] = wait[e]
    BY <1>0, <1>4 DEF Waker, Timer, RecvCommand
  <2> QED
    BY <2>1, <2>2, <2>3
<1>5. ASSUME NEW c \in Clients, RecvTimeout(c) \/ Retry(c) \/ Leave(c) \/ Panic(c)
      PROVE  Keeping
  <2>1. wait' = [wait EXCEPT ![c] = NoWait]
    BY <1>5 DEF RecvTimeout, Retry, Leave, Panic
  <2> QED
    BY <1>0, <2>1
<1>6. ASSUME UNCHANGED wait
      PROVE  Keeping
  BY <1>6
<1> HIDE DEF Keeping
<1> QED
  BY <1>1, <1>2, <1>3, <1>4, <1>5, <1>6
     DEF Next, vars, clientVars, Request, RequestPanic, Queue, Watch, Unwatch, Multi,
         Discard, ExecNothing, Exec, ExecStep, ExecPanic, LeaveMulti, Hz, Tick

\* Every step of every thread preserves the invariant.
LEMMA KeyStep ==
    ASSUME NoTransfers \/ NoExpirations
    PROVE  KeyInv /\ [Next]_vars => KeyInv'
<1> SUFFICES ASSUME KeyInv, [Next]_vars
             PROVE  KeyInv'
  OBVIOUS
<1>1. TypeInv' /\ WaitOps'
  BY TypeStep, WaitOpsStep DEF KeyInv
<1>2. Filled(db) /\ \A s \in Slots : Paired(db, s)
  BY DEF KeyInv, NoEmptyStored, NoOrphanExpiration, Filled, Paired
<1>3. Keeps(db, db', {}) /\ (NoExpirations => Unset(db, db')) => KeyInv'
  <2>1. Slots \ {} = Slots
    OBVIOUS
  <2> QED
    BY <1>1, <1>2, <2>1 DEF KeyInv, NoEmptyStored, NoOrphanExpiration, Filled, Paired, Keeps, Unset
<1>4. NoExpirations => Fresh(db)
  BY NeverExpired DEF KeyInv
<1>5. CASE Records
  <2>1. CASE Leaves(db, db', {}, {})
    BY <1>3, <2>1 DEF Leaves
  <2>2. CASE \E cmd \in Command : Issued(cmd) /\ Handled(db, cmd, db')
    <3>1. PICK cmd \in Command : Issued(cmd) /\ Handled(db, cmd, db')
      BY <2>2
    <3>2. cmd.op \in Transfers => Fresh(db)
      BY <1>4, <3>1 DEF Issued, NoTransfers
    <3>3. NoExpirations => ~Expires(cmd)
      BY <3>1 DEF Issued, NoExpirations
    <3> QED
      BY <1>3, <3>1, <3>2, <3>3 DEF Handled
  <2> QED
    BY <1>5, <2>1, <2>2 DEF Records
<1>6. CASE Rests \/ \E c \in Clients : \E ks \in WatchSets : Watch(c, ks)
  <2>1. db \in DB
    BY DEF KeyInv, TypeInv, TypeOK
  <2>2. db'.data = db.data /\ db'.exp = db.exp
    BY <1>6, <2>1 DEF Rests, Watch, KeyWatch, DB
  <2> QED
    BY <1>3, <2>2 DEF Keeps, Unset, Paired
<1> QED
  BY <1>2, <1>5, <1>6, KindsOfStep DEF KeyInv

\* No list, set or hash without elements and no nil is stored, however handlers
\* interleave with expirations.  Where an RPOPLPUSH can meet an expired destination the
\* push fails after the pop, and key_updated is not called for the source.
THEOREM NothingEmptyStored ==
    ASSUME NoTransfers \/ NoExpirations
    PROVE  Spec => []NoEmptyStored
<1>1. KeyInv => NoEmptyStored
  BY DEF KeyInv
<1> QED
  BY KeyInit, KeyStep, <1>1, PTL DEF Spec

\* An expiration goes with its value: whichever of the two a handler, key_updated, the
\* hz thread or a flush drops, it drops the other.
THEOREM ExpirationsHaveValues ==
    ASSUME NoTransfers \/ NoExpirations
    PROVE  Spec => []NoOrphanExpiration
<1>1. KeyInv => NoOrphanExpiration
  BY DEF KeyInv
<1> QED
  BY KeyInit, KeyStep, <1>1, PTL DEF Spec

\* A command that fails changes nothing a client sees, in any state in which no key has
\* expired; an expired one may be back after it.
THEOREM FailureHarmless ==
    ASSUME NoTransfers \/ NoExpirations
    PROVE  /\ Spec => []((\A s \in Slots : ~IsExpired(db, s)) => FailureChangesNothing)
           /\ NoExpirations => (Spec => []FailureChangesNothing)
<1>1. ASSUME KeyInv, \A s \in Slots : ~IsExpired(db, s)
      PROVE  FailureChangesNothing
  <2> SUFFICES ASSUME NEW cmd \in Cmds, NEW d \in Dbs, cmd.op # "select",
                      Handler(db, d, cmd).reply = "error"
               PROVE  Modified(db, Handler(db, d, cmd).db) = {}
    BY DEF FailureChangesNothing
  <2>1. db \in DB /\ cmd \in Command /\ Filled(db) /\ Fresh(db)
    BY <1>1, ServerAssumption DEF KeyInv, TypeInv, TypeOK, NoEmptyStored, Filled, Fresh
  <2> QED
    BY <2>1, CommandHandled DEF Quietly
<1>2. KeyInv => ((\A s \in Slots : ~IsExpired(db, s)) => FailureChangesNothing)
  BY <1>1
<1>3. NoExpirations => (KeyInv => FailureChangesNothing)
  BY <1>1, NeverExpired DEF KeyInv, Fresh
<1>4. Spec => []KeyInv
  BY KeyInit, KeyStep, PTL DEF Spec
<1>5. Spec => []((\A s \in Slots : ~IsExpired(db, s)) => FailureChangesNothing)
  BY <1>2, <1>4, PTL
<1>6. ASSUME NoExpirations
      PROVE  Spec => []FailureChangesNothing
  <2>1. KeyInv => FailureChangesNothing
    BY <1>3, <1>6
  <2> QED
    BY <1>4, <2>1, PTL
<1> QED
  BY <1>5, <1>6

-----------------------------------------------------------------------------
(* LTRIM *)

\* What stays of the list l when it is trimmed from position a to position b.
LEMMA TrimKeeps ==
    ASSUME NEW l \in Seq(Elems), l # <<>>, NEW start \in Int, NEW stop \in Int,
           Trimmed(l, start, stop).reply # "panic"
    PROVE  LET kept == {i \in DOMAIN l : /\ Position(start, Len(l)) <= i - 1
                                         /\ i - 1 <= Position(stop, Len(l))}
               r == Trimmed(l, start, stop)
           IN /\ Len(r.elems) = Cardinality(kept)
              /\ \A i \in kept : r.elems[1 + Cardinality({j \in kept : j < i})] = l[i]
<1> DEFINE a == Position(start, Len(l))
           b == Position(stop, Len(l))
           from == IF a < 0 THEN 0 ELSE a
           to == IF b >= Len(l) THEN Len(l) - 1 ELSE b
           kept == {i \in DOMAIN l : a <= i - 1 /\ i - 1 <= b}
           r == Trimmed(l, start, stop)
<1>1. a \in Int /\ b \in Int
  BY DEF Position
<1>2. Len(l) \in Nat /\ DOMAIN l = 1 .. Len(l)
  OBVIOUS
<1>3. r = IF from >= Len(l) \/ to < 0 THEN [reply |-> "ok", elems |-> <<>>]
          ELSE IF from > to + 1 THEN [reply |-> "panic", elems |-> l]
          ELSE [reply |-> "ok", elems |-> SubSeq(l, from + 1, to + 1)]
  BY Zenon DEF Trimmed, from, to, a, b
<1> HIDE DEF a, b, r
<1>4. from \in Nat /\ to \in Int /\ to < Len(l)
  BY <1>1, <1>2
<1>5. kept = (from + 1) .. (to + 1)
  BY <1>1, <1>2
<1>6. CASE from >= Len(l) \/ to < 0
  <2>1. r.elems = <<>> /\ Len(r.elems) = 0
    BY <1>3, <1>6
  <2>2. kept = {}
    BY <1>1, <1>2, <1>6
  <2> HIDE DEF kept
  <2>3. Len(r.elems) = Cardinality(kept)
    BY <2>1, <2>2, FS_EmptySet
  <2> QED
    BY <2>2, <2>3 DEF kept, a, b, r
<1>7. CASE ~(from >= Len(l) \/ to < 0)
  <2>1. from <= to + 1 /\ r.elems = SubSeq(l, from + 1, to + 1)
    <3>1. r.reply # "panic"
      BY DEF r
    <3> HIDE DEF from, to
    <3> QED
      BY <1>3, <1>4, <1>7, <3>1
  <2> HIDE DEF from, to, kept
  <2>2. \A i \in (from + 1) .. (to + 1) : l[i] \in Elems
    BY <1>2, <1>4
  <2>3. from + 1 \in Int /\ to + 1 \in Int
    BY <1>4
  <2>4. /\ Len(r.elems) = IF from + 1 <= to + 1 THEN (to + 1) - (from + 1) + 1 ELSE 0
        /\ \A i \in 1 .. (to + 1) - (from + 1) + 1 : r.elems[i] = l[from + 1 + i - 1]
    BY <2>1, <2>2, <2>3, SubSeqProperties
  <2>5. Cardinality(kept) = IF from + 1 > to + 1 THEN 0 ELSE (to + 1) - (from + 1) + 1
    BY <1>5, <2>3, FS_Interval
  <2>6. Len(r.elems) = Cardinality(kept)
    BY <1>4, <2>4, <2>5
  <2>7. ASSUME NEW i \in kept
        PROVE  r.elems[1 + Cardinality({j \in kept : j < i})] = l[i]
    <3>1. i \in (from + 1) .. (to + 1) /\ i \in Int
      BY <1>4, <1>5
    <3>2. {j \in kept : j < i} = (from + 1) .. (i - 1)
      <4>1. \A j : j \in kept /\ j < i <=> j \in (from + 1) .. (i - 1)
        BY <1>4, <1>5, <3>1
      <4> QED
        BY <4>1, Zenon
    <3>3. Cardinality((from + 1) .. (i - 1)) = IF from + 1 > i - 1 THEN 0 ELSE (i - 1) - (from + 1) + 1
      <4> DEFINE hi == i - 1
      <4>1. from + 1 \in Int /\ hi \in Int
        BY <2>3, <3>1
      <4> HIDE DEF hi
      <4>2. Cardinality((from + 1) .. hi) = IF from + 1 > hi THEN 0 ELSE hi - (from + 1) + 1
        BY <4>1, FS_Interval
      <4> QED
        BY <4>2 DEF hi
    <3>4. 1 + Cardinality({j \in kept : j < i}) = i - from
      <4>1. 1 + Cardinality((from + 1) .. (i - 1)) = i - from
        BY <1>4, <3>1, <3>3
      <4> QED
        BY <3>2, <4>1
    <3>5. i - from \in 1 .. (to + 1) - (from + 1) + 1 /\ from + 1 + (i - from) - 1 = i
      BY <1>4, <3>1
    <3> QED
      BY <2>4, <3>4, <3>5
  <2> QED
    BY <2>6, <2>7 DEF kept, a, b, r
<1> QED
  BY <1>6, <1>7

\* LTRIM keeps the elements between its two positions, in their order, and no others,
\* for every list that can be stored and all positions, when it does not panic.
THEOREM TrimExact == Spec => []TrimKeepsRange
<1>1. TypeOK => TrimKeepsRange
  <2> SUFFICES ASSUME TypeOK, NEW s \in Slots, NEW cmd \in {c \in Cmds : c.op = "ltrim"},
                      Elements(db.data[s]) # <<>>
               PROVE  LET l == Elements(db.data[s])
                          kept == {i \in DOMAIN l : /\ Position(cmd.start, Len(l)) <= i - 1
                                                    /\ i - 1 <= Position(cmd.stop, Len(l))}
                          r == Trimmed(l, cmd.start, cmd.stop)
                      IN r.reply # "panic" =>
                           /\ Len(r.elems) = Cardinality(kept)
                           /\ \A i \in kept : r.elems[1 + Cardinality({j \in kept : j < i})] = l[i]
    BY Zenon DEF TrimKeepsRange
  <2>1. cmd \in CollectionCommand /\ cmd.start \in Int /\ cmd.stop \in Int
    <3>1. cmd \in CollectionCommand /\ cmd.op = "ltrim"
      BY ServerAssumption, CollectionOp DEF CollectionOps
    <3> QED
      BY <3>1 DEF CollectionCommand
  <2>2. Elements(db.data[s]) \in Seq(Elems)
    BY ValueCases DEF TypeOK, DB
  <2> QED
    BY <2>1, <2>2, TrimKeeps
<1> QED
  BY TypeCorrect, <1>1, PTL

-----------------------------------------------------------------------------
(* Watched keys *)

NoRelocations == \A cmd \in Cmds : cmd.op \notin Relocations
NoRevivals == \A cmd \in Cmds : cmd.op \notin Reviving \cup Transfers

\* The clients of the theorems
AllTold == NoRelocations /\ (NoRevivals \/ NoExpirations)

\* What a client missed is among what it watches
WatchInv ==
    /\ WatchSound
    /\ \A c \in Clients : dirty[c] \subseteq watched_keys[c]

\* Whoever keeps the history has told the watchers.
LEMMA RecordsTell ==
    ASSUME AllTold, KeyInv, Records
    PROVE  Tells(db, db', {})
<1>1. NoExpirations => Fresh(db)
  BY NeverExpired DEF KeyInv
<1>2. CASE Leaves(db, db', {}, {})
  BY <1>2 DEF Leaves
<1>3. ASSUME NEW cmd \in Command, Issued(cmd), Handled(db, cmd, db')
      PROVE  Tells(db, db', {})
  <2>1. cmd.op \notin Relocations /\ (cmd.op \in Transfers \cup Reviving => Fresh(db))
    BY <1>1, <1>3 DEF Issued, AllTold, NoRelocations, NoRevivals
  <2> QED
    BY <1>3, <2>1 DEF Handled
<1> QED
  BY <1>2, <1>3 DEF Records

\* The invariant holds at the start.
LEMMA WatchInit == Init => WatchInv
BY DEF Init, WatchInv, WatchSound

\* Every step of every thread preserves the invariant.
LEMMA WatchStep ==
    ASSUME AllTold
    PROVE  KeyInv /\ WatchInv /\ [Next]_vars => WatchInv'
<1> SUFFICES ASSUME KeyInv, WatchInv, [Next]_vars
             PROVE  WatchInv'
  OBVIOUS
<1>1. /\ TypeInv /\ WaitOps /\ Filled(db) /\ db \in DB
      /\ dirty \in [Clients -> SUBSET Slots] /\ watched_keys \in [Clients -> SUBSET Slots]
      /\ \A c \in Clients : \A s \in dirty[c] : c \notin db.watched[s]
      /\ \A c \in Clients : dirty[c] \subseteq watched_keys[c]
  BY DEF KeyInv, TypeInv, TypeOK, NoEmptyStored, Filled, WatchInv, WatchSound, KeyWatchVerify
<1>2. CASE Records
  <2>1. \A s \in Slots : /\ db'.watched[s] \subseteq db.watched[s]
                         /\ s \in Modified(db, db') => db'.watched[s] = {}
    BY <1>2, RecordsTell DEF Tells, Modified
  <2>2. \A c \in Clients : dirty'[c] = (dirty[c] \cup Modified(db, db')) \cap watched_keys'[c]
    BY <1>2 DEF Records, Remember
  <2>3. Modified(db, db') \subseteq Slots
    BY DEF Modified
  <2>4. ASSUME NEW c \in Clients, NEW s \in dirty'[c]
        PROVE  c \notin db'.watched[s]
    <3>1. s \in dirty[c] \/ s \in Modified(db, db')
      BY <2>2
    <3> QED
      BY <1>1, <2>1, <2>3, <3>1
  <2> QED
    BY <2>2, <2>4 DEF WatchInv, WatchSound, KeyWatchVerify
<1>3. CASE Rests
  BY <1>1, <1>3 DEF Rests, WatchInv, WatchSound, KeyWatchVerify
<1>4. ASSUME NEW c \in Clients, NEW ks \in WatchSets, Watch(c, ks)
      PROVE  WatchInv'
  <2> DEFINE S == {<<dbindex[c], k>> : k \in ks}
  <2>1. S \in SUBSET Slots
    BY <1>4, ServerAssumption DEF Watch, Slots
  <2>2. /\ db' = KeyWatch(db, S, c)
        /\ watched_keys' = [watched_keys EXCEPT ![c] = @ \cup S]
        /\ dirty' = [dirty EXCEPT ![c] = @ \ S]
    BY <1>4 DEF Watch
  <2> HIDE DEF S
  <2>3. db'.watched = [s \in Slots |-> IF s \in S THEN db.watched[s] \cup {c} ELSE db.watched[s]]
    BY <1>1, <2>2 DEF KeyWatch, DB
  <2>4. ASSUME NEW e \in Clients
        PROVE  /\ dirty'[e] \subseteq watched_keys'[e]
               /\ \A s \in dirty'[e] : s \in Slots /\ s \in dirty[e] /\ (e = c => s \notin S)
    BY <1>1, <2>2
  <2>5. ASSUME NEW e \in Clients, NEW s \in dirty'[e]
        PROVE  e \notin db'.watched[s]
    BY <1>1, <2>3, <2>4, <2>5
  <2> QED
    BY <2>4, <2>5 DEF WatchInv, WatchSound, KeyWatchVerify
<1> QED
  BY <1>1, <1>2, <1>3, <1>4, KindsOfStep

\* Both invariants hold for ever.
LEMMA WatchInvariant ==
    ASSUME AllTold
    PROVE  Spec => [](KeyInv /\ WatchInv)
<1>1. NoTransfers \/ NoExpirations
  BY DEF AllTold, NoRevivals, NoTransfers
<1>2. KeyInv /\ [Next]_vars => KeyInv'
  BY <1>1, KeyStep
<1>3. KeyInv /\ WatchInv /\ [Next]_vars => WatchInv'
  BY WatchStep
<1> QED
  BY KeyInit, WatchInit, <1>2, <1>3, PTL DEF Spec

\* A watched key that any command of any client, a pop that was woken, the hz thread or
\* a flush modified has lost its watcher's registration, so that the watcher's EXEC notices.
THEOREM WatchersAreTold ==
    ASSUME AllTold
    PROVE  Spec => []WatchSound
<1>1. WatchInv => WatchSound
  BY DEF WatchInv
<1> QED
  BY WatchInvariant, <1>1, PTL

\* A transaction one of whose watched keys was modified is dropped before its first
\* command: the MULTI ends without the mutex and without a change.
THEOREM ExecGivesUp ==
    ASSUME AllTold
    PROVE  Spec => ExecOnlyIfUnmodified
<1> DEFINE GivesUp ==
      \A c \in Clients : dirty[c] # {} /\ multi[c] /\ ~multi'[c] => lock' # c /\ db' = db
<1>1. ASSUME KeyInv, WatchInv, PoisonInv, [Next]_vars
      PROVE  [GivesUp]_vars
  <2> SUFFICES ASSUME NEW c \in Clients, dirty[c] # {}, multi[c], ~multi'[c]
               PROVE  lock' # c /\ db' = db
    OBVIOUS
  <2>1. ~WatchedVerified(c)
    BY <1>1 DEF WatchInv, WatchSound, WatchedVerified
  <2>2. NoClient # c /\ multi \in [Clients -> BOOLEAN]
    BY <1>1, ServerAssumption DEF KeyInv, TypeInv, TypeOK
  <2>3. ASSUME NEW e \in Clients, Discard(e) \/ ExecNothing(e)
        PROVE  lock' # c /\ db' = db
    BY <2>2, <2>3 DEF Discard, ExecNothing, LeaveMulti, Lockable
  <2>4. ASSUME NEW e \in Clients, Exec(e)
        PROVE  FALSE
    <3>1. e = c
      BY <2>2, <2>4 DEF Exec, LeaveMulti
    <3> QED
      BY <2>1, <2>4, <3>1 DEF Exec
  <2>5. ASSUME NEW e \in Clients, Leave(e)
        PROVE  lock' # c /\ db' = db
    <3>1. e = c
      BY <2>2, <2>5 DEF Leave
    <3> QED
      BY <1>1, <2>2, <2>5, <3>1 DEF Leave, PoisonInv, execVars
  <2>6. ASSUME NEW e \in Clients, Multi(e)
        PROVE  FALSE
    BY <2>2, <2>6 DEF Multi
  <2>7. multi' # multi
    OBVIOUS
  <2> QED
    BY ZenonT(30), <1>1, <2>3, <2>4, <2>5, <2>6, <2>7
       DEF Next, vars, clientVars, Request, RequestBlock, Block, RequestPanic, Panic, Queue,
           Watch, Unwatch, ExecStep, ExecPanic, Waker, Timer, RecvTimeout, RecvCommand,
           Retry, RetryBlock, Hz, Tick
<1>2. KeyInv => TypeInv
  BY DEF KeyInv
<1>3. Init => PoisonInv
  BY DEF Init, PoisonInv
<1>4. Spec => [](KeyInv /\ WatchInv)
  BY WatchInvariant
<1> QED
  BY <1>1, <1>2, <1>3, <1>4, PoisonStep, PTL DEF Spec, ExecOnlyIfUnmodified

-----------------------------------------------------------------------------
(* Expired keys *)

\* Commands that bring an expired value back: through get_or_create, without having
\* asked for the value first, or through remove_msexpiration.
Blind == {"persist", "incrby", "sadd", "srem", "smove", "hset", "hincrby",
          "rpoplpush", "brpoplpush"}
Looks(cmd) == cmd.op \notin Blind /\ (cmd.op = "push" => ~cmd.create)
AllLook == \A cmd \in Cmds : Looks(cmd)

\* A record with the maps of Database
Shaped(d) ==
    /\ DOMAIN d = {"data", "exp", "watched", "subs", "sent", "now", "loading"}
    /\ DOMAIN d.data = Slots
    /\ DOMAIN d.exp = Slots

\* y is x with some of its expired keys removed.
Agree(x, y, s) == y.data[s] = x.data[s] /\ y.exp[s] = x.exp[s]
Gone(x, y, s) == IsExpired(x, s) /\ y.data[s] = NoValue /\ y.exp[s] = NoExp
Like(x, y) ==
    /\ Shaped(x) /\ Shaped(y)
    /\ y.now = x.now /\ y.loading = x.loading
    /\ \A s \in Slots : Agree(x, y, s) \/ Gone(x, y, s)
Both(x, y, s) == Like(x, y) /\ Agree(x, y, s)

\* The same of two results
Alike(r, q) == r.reply = q.reply /\ Like(r.db, q.db)

\* r is d with value v and expiration e in slot s.
Puts(d, r, s, v, e) ==
    /\ Shaped(r) /\ r.now = d.now /\ r.loading = d.loading
    /\ \A t \in Slots : /\ r.data[t] = IF t = s THEN v ELSE d.data[t]
                        /\ r.exp[t] = IF t = s THEN e ELSE d.exp[t]

\* Every well typed database is a record of this shape.
LEMMA DBShaped ==
    ASSUME NEW d \in DB
    PROVE  Shaped(d)
BY DEF DB, Shaped

\* What each method puts in its slot.
LEMMA MethodsPut ==
    ASSUME NEW d, Shaped(d), NEW s \in Slots
    PROVE  /\ Puts(d, Remove(d, s), s, NoValue, NoExp)
           /\ \A v : Puts(d, Store(d, s, v), s, v, d.exp[s])
           /\ Puts(d, GetMut(d, s), s, Get(d, s), IF IsExpired(d, s) THEN NoExp ELSE d.exp[s])
           /\ Puts(d, GetOrCreate(d, s), s, IF d.data[s] = NoValue THEN Nil ELSE d.data[s],
                   IF IsExpired(d, s) THEN NoExp ELSE d.exp[s])
           /\ Puts(d, KeyUpdated(d, s), s, IF IsEmpty(d.data[s]) THEN NoValue ELSE d.data[s],
                   IF IsEmpty(d.data[s]) THEN NoExp ELSE d.exp[s])
           /\ \A t : Puts(d, SetMsexpiration(d, s, t), s,
                          IF IsEmpty(d.data[s]) THEN NoValue ELSE d.data[s], t)
<1>1. Puts(d, Remove(d, s), s, NoValue, NoExp)
  BY DEF Puts, Shaped, Remove
<1>2. ASSUME NEW v
      PROVE  Puts(d, Store(d, s, v), s, v, d.exp[s])
  BY DEF Puts, Shaped, Store
<1>3. Puts(d, d, s, d.data[s], d.exp[s])
  BY DEF Puts
<1>4. Puts(d, GetMut(d, s), s, Get(d, s), IF IsExpired(d, s) THEN NoExp ELSE d.exp[s])
  BY <1>1, <1>3, Zenon DEF GetMut, Get
<1>5. Puts(d, GetOrCreate(d, s), s, IF d.data[s] = NoValue THEN Nil ELSE d.data[s],
           IF IsExpired(d, s) THEN NoExp ELSE d.exp[s])
  BY DEF Puts, Shaped, GetOrCreate
<1> DEFINE v == IF IsEmpty(d.data[s]) THEN NoValue ELSE d.data[s]
           e == IF IsEmpty(d.data[s]) THEN NoExp ELSE d.exp[s]
           kept == IF IsEmpty(d.data[s]) THEN Remove(d, s) ELSE d
<1>6. Puts(d, kept, s, v, e)
  BY <1>1, <1>3
<1>7. KeyUpdated(d, s) = [kept EXCEPT !.sent = @ \cup d.subs[s], !.subs[s] = {}, !.watched[s] = {}]
  BY DEF KeyUpdated
<1> HIDE DEF kept
<1>8. /\ KeyUpdated(d, s).data = kept.data /\ KeyUpdated(d, s).exp = kept.exp
      /\ KeyUpdated(d, s).now = kept.now /\ KeyUpdated(d, s).loading = kept.loading
      /\ DOMAIN KeyUpdated(d, s) = DOMAIN kept
  BY <1>6, <1>7 DEF Puts, Shaped
<1> HIDE DEF v, e
<1>9. Puts(d, KeyUpdated(d, s), s, v, e)
  BY <1>6, <1>8 DEF Puts, Shaped
<1>10. ASSUME NEW t
       PROVE  Puts(d, SetMsexpiration(d, s, t), s, v, t)
  BY <1>9 DEF Puts, Shaped, SetMsexpiration
<1> QED
  BY <1>1, <1>2, <1>4, <1>5, <1>9, <1>10 DEF v, e

\* The same value put on both sides is the same on both sides.
LEMMA PutsBoth ==
    ASSUME NEW x, NEW y, Like(x, y), NEW s \in Slots, NEW v, NEW e, NEW p, NEW q,
           Puts(x, p, s, v, e), Puts(y, q, s, v, e)
    PROVE  Both(p, q, s)
BY DEF Both, Like, Puts, Agree, Gone, IsExpired

\* Nobody sees the difference.
LEMMA LikeSeen ==
    ASSUME NEW x, NEW y, Like(x, y), NEW s \in Slots
    PROVE  /\ Get(x, s) = Get(y, s)
           /\ Visible(x, s) = Visible(y, s)
           /\ Get(x, s) # NoValue => Agree(x, y, s)
<1>1. CASE Agree(x, y, s)
  BY <1>1 DEF Like, Agree, Get, Visible, IsExpired
<1>2. CASE Gone(x, y, s)
  <2>1. Get(x, s) = NoValue /\ Get(y, s) = NoValue
    BY <1>2 DEF Gone, Get
  <2> QED
    BY <2>1, Zenon DEF Visible
<1> QED
  BY <1>1, <1>2 DEF Like

\* Methods called on a slot that is the same on both sides leave it so.
LEMMA BothKept ==
    ASSUME NEW x, NEW y, NEW s \in Slots, Both(x, y, s)
    PROVE  /\ \A v : Both(Store(x, s, v), Store(y, s, v), s)
           /\ Both(KeyUpdated(x, s), KeyUpdated(y, s), s)
           /\ \A v : Both(KeyUpdated(Store(x, s, v), s), KeyUpdated(Store(y, s, v), s), s)
           /\ \A t : Both(SetMsexpiration(x, s, t), SetMsexpiration(y, s, t), s)
<1>1. Like(x, y) /\ Shaped(x) /\ Shaped(y) /\ x.data[s] = y.data[s] /\ x.exp[s] = y.exp[s]
  BY DEF Both, Like, Agree
<1>2. ASSUME NEW v
      PROVE  Both(Store(x, s, v), Store(y, s, v), s)
  BY <1>1, MethodsPut, PutsBoth
<1>3. ASSUME NEW a, NEW b, Both(a, b, s)
      PROVE  /\ Both(KeyUpdated(a, s), KeyUpdated(b, s), s)
             /\ \A t : Both(SetMsexpiration(a, s, t), SetMsexpiration(b, s, t), s)
  <2>1. Like(a, b) /\ Shaped(a) /\ Shaped(b) /\ a.data[s] = b.data[s] /\ a.exp[s] = b.exp[s]
    BY <1>3 DEF Both, Like, Agree
  <2>2. Both(KeyUpdated(a, s), KeyUpdated(b, s), s)
    BY <2>1, MethodsPut, PutsBoth
  <2>3. ASSUME NEW t
        PROVE  Both(SetMsexpiration(a, s, t), SetMsexpiration(b, s, t), s)
    BY <2>1, MethodsPut, PutsBoth
  <2> QED
    BY <2>2, <2>3
<1> QED
  BY <1>2, <1>3

\* Methods that look first, or take away, or put a value of their own, make a slot the
\* same on both sides.
LEMMA MadeSame ==
    ASSUME NEW x, NEW y, NEW s \in Slots, Like(x, y)
    PROVE  /\ Both(Remove(x, s), Remove(y, s), s)
           /\ Both(GetMut(x, s), GetMut(y, s), s)
           /\ \A v : Both(Store(GetOrCreate(x, s), s, v), Store(GetOrCreate(y, s), s, v), s)
<1>1. Shaped(x) /\ Shaped(y)
  BY DEF Like
<1>2. Both(Remove(x, s), Remove(y, s), s)
  BY <1>1, MethodsPut, PutsBoth
<1>3. (IF IsExpired(x, s) THEN NoExp ELSE x.exp[s]) = IF IsExpired(y, s) THEN NoExp ELSE y.exp[s]
  BY DEF Like, Agree, Gone, IsExpired
<1>4. Both(GetMut(x, s), GetMut(y, s), s)
  <2>1. Get(x, s) = Get(y, s)
    BY LikeSeen
  <2> QED
    BY <1>1, <1>3, <2>1, MethodsPut, PutsBoth
<1>5. ASSUME NEW v
      PROVE  Both(Store(GetOrCreate(x, s), s, v), Store(GetOrCreate(y, s), s, v), s)
  <2>1. ASSUME NEW d, Shaped(d)
        PROVE  Puts(d, Store(GetOrCreate(d, s), s, v), s, v,
                    IF IsExpired(d, s) THEN NoExp ELSE d.exp[s])
    <3> DEFINE o == GetOrCreate(d, s)
               e == IF IsExpired(d, s) THEN NoExp ELSE d.exp[s]
               w == IF d.data[s] = NoValue THEN Nil ELSE d.data[s]
    <3>1. Puts(d, o, s, w, e)
      BY <2>1, MethodsPut
    <3> HIDE DEF o, e, w
    <3>2. Shaped(o) /\ o.exp[s] = e
      BY <3>1 DEF Puts
    <3>3. Puts(o, Store(o, s, v), s, v, e)
      BY <3>2, MethodsPut
    <3>4. Puts(d, Store(o, s, v), s, v, e)
      BY <3>1, <3>3 DEF Puts
    <3> QED
      BY <3>4 DEF o, e
  <2> QED
    BY <1>1, <1>3, <2>1, PutsBoth
<1> QED
  BY <1>2, <1>4, <1>5

\* A handler that opens its slot by get_mut sees the same value there, may assign to
\* it, and reports it.
LEMMA OpenedAlike ==
    ASSUME NEW x \in DB, NEW y \in DB, Like(x, y), NEW s \in Slots
    PROVE  LET p == GetMut(x, s)
               q == GetMut(y, s)
           IN /\ p \in DB /\ q \in DB /\ Like(p, q)
              /\ q.data[s] = p.data[s] /\ p.data[s] \in Value \cup {NoValue}
              /\ Like(KeyUpdated(p, s), KeyUpdated(q, s))
              /\ \A v : Like(KeyUpdated(Store(p, s, v), s), KeyUpdated(Store(q, s, v), s))
<1> DEFINE p == GetMut(x, s)
           q == GetMut(y, s)
<1>1. p \in DB /\ q \in DB
  BY GetMutType
<1>2. Both(p, q, s)
  BY MadeSame
<1>3. p.data[s] \in Value \cup {NoValue}
  BY <1>1 DEF DB
<1> HIDE DEF p, q
<1>4. /\ Like(p, q) /\ q.data[s] = p.data[s]
      /\ Like(KeyUpdated(p, s), KeyUpdated(q, s))
      /\ \A v : Like(KeyUpdated(Store(p, s, v), s), KeyUpdated(Store(q, s, v), s))
  BY <1>2, BothKept DEF Both, Agree
<1> QED
  BY <1>1, <1>3, <1>4 DEF p, q

\* A handler that overwrites its slot reports the same value on both sides.
LEMMA OverwrittenAlike ==
    ASSUME NEW x, NEW y, Like(x, y), NEW s \in Slots, NEW v
    PROVE  Both(KeyUpdated(Store(GetOrCreate(x, s), s, v), s),
                KeyUpdated(Store(GetOrCreate(y, s), s, v), s), s)
<1>1. Both(Store(GetOrCreate(x, s), s, v), Store(GetOrCreate(y, s), s, v), s)
  BY MadeSame
<1> QED
  BY <1>1, BothKept

\* SPOP, HDEL, LINSERT, LSET, LTRIM, LPUSHX, LPOP and their like
LEMMA SpopAlike ==
    ASSUME NEW x \in DB, NEW y \in DB, Like(x, y), NEW s \in Slots, NEW count, NEW rank
    PROVE  Alike(Spop(x, s, count, rank), Spop(y, s, count, rank))
<1> DEFINE p == GetMut(x, s)
           q == GetMut(y, s)
           v == p.data[s]
           left == SetOf(Members(v) \ Drawn(Members(v), count, rank))
           End(o) == CASE v = NoValue -> Result("nil", o)
                       [] v.type = "set" -> Result("ok", KeyUpdated(Store(o, s, left), s))
                       [] v # NoValue /\ v.type # "set" ->
                            Result(IF v = Nil THEN "nil" ELSE "error", KeyUpdated(o, s))
<1>1. /\ Like(p, q) /\ q.data[s] = v
      /\ Like(KeyUpdated(p, s), KeyUpdated(q, s))
      /\ Like(KeyUpdated(Store(p, s, left), s), KeyUpdated(Store(q, s, left), s))
  BY OpenedAlike
<1>2. Spop(x, s, count, rank) = End(p)
  BY Zenon DEF Spop
<1>3. Spop(y, s, count, rank) = End(q)
  BY <1>1, Zenon DEF Spop
<1>4. NoValue.type # "set"
  BY DEF NoValue
<1> HIDE DEF p, q, v, left
<1>5. Alike(End(p), End(q))
  BY <1>1, <1>4 DEF Alike, Result
<1> QED
  BY <1>2, <1>3, <1>5

LEMMA HdelAlike ==
    ASSUME NEW x \in DB, NEW y \in DB, Like(x, y), NEW s \in Slots, NEW es
    PROVE  Alike(Hdel(x, s, es), Hdel(y, s, es))
<1> DEFINE p == GetMut(x, s)
           q == GetMut(y, s)
           v == p.data[s]
           left == HashOf([e \in DOMAIN Fields(v) \ es |-> Fields(v)[e]])
           End(o) == CASE v = NoValue -> Result("ok", o)
                       [] v = Nil -> Result("ok", KeyUpdated(o, s))
                       [] v.type = "hash" -> Result("ok", KeyUpdated(Store(o, s, left), s))
                       [] v # NoValue /\ ~Hashable(v) -> Result("error", o)
<1>1. /\ Like(p, q) /\ q.data[s] = v /\ v \in Value \cup {NoValue}
      /\ Like(KeyUpdated(p, s), KeyUpdated(q, s))
      /\ Like(KeyUpdated(Store(p, s, left), s), KeyUpdated(Store(q, s, left), s))
  BY OpenedAlike
<1>2. Hdel(x, s, es) = End(p)
  BY Zenon DEF Hdel
<1>3. Hdel(y, s, es) = End(q)
  BY <1>1, Zenon DEF Hdel
<1>4. NoValue.type = "none" /\ Nil.type = "nil" /\ (v # NoValue /\ Hashable(v) => v = Nil \/ v.type = "hash")
  BY <1>1 DEF NoValue, Nil, Hashable, Value, Strings, Lists, Sets, Hashes
<1>5. Hashable(v) <=> v.type \in {"nil", "hash"}
  BY DEF Hashable
<1> HIDE DEF p, q, v, left
<1>6. Alike(End(p), End(q))
  BY <1>1, <1>4, <1>5 DEF Alike, Result
<1> QED
  BY <1>2, <1>3, <1>6

LEMMA HsetnxAlike ==
    ASSUME NEW x \in DB, NEW y \in DB, Like(x, y), NEW s \in Slots, NEW e, NEW w
    PROVE  Alike(Hsetnx(x, s, e, w), Hsetnx(y, s, e, w))
<1> DEFINE p == GetMut(x, s)
           q == GetMut(y, s)
           v == p.data[s]
           set == HashOf(With(Fields(v), Field(e, w)))
           End(o) == IF v = NoValue THEN Hset(o, s, Field(e, w))
                     ELSE IF ~Hashable(v) THEN Result("error", o)
                     ELSE IF e \in DOMAIN Fields(v) THEN Result("ok", o)
                     ELSE Result("ok", KeyUpdated(Store(o, s, set), s))
<1>1. /\ p \in DB /\ q \in DB /\ Like(p, q) /\ q.data[s] = v
      /\ Like(KeyUpdated(Store(p, s, set), s), KeyUpdated(Store(q, s, set), s))
  BY OpenedAlike
<1>2. Hsetnx(x, s, e, w) = End(p)
  BY Zenon DEF Hsetnx
<1>3. Hsetnx(y, s, e, w) = End(q)
  BY <1>1, Zenon DEF Hsetnx
<1>4. ASSUME NEW o \in DB, o.data[s] = NoValue
      PROVE  Hset(o, s, Field(e, w)) =
               Result("ok", KeyUpdated(Store(GetOrCreate(o, s), s, HashOf(With(Fields(Nil), Field(e, w)))), s))
  <2>1. GetOrCreate(o, s).data[s] = Nil
    BY <1>4, GetOrCreateTouches
  <2>2. Hashable(Nil)
    BY DEF Hashable, Nil
  <2> QED
    BY <2>1, <2>2, Zenon DEF Hset
<1>5. q.data[s] = p.data[s]
  BY <1>1
<1> HIDE DEF p, q, set
<1>6. v = NoValue => Alike(Hset(p, s, Field(e, w)), Hset(q, s, Field(e, w)))
  <2> SUFFICES ASSUME v = NoValue
               PROVE  Alike(Hset(p, s, Field(e, w)), Hset(q, s, Field(e, w)))
    OBVIOUS
  <2> DEFINE new == HashOf(With(Fields(Nil), Field(e, w)))
  <2>1. Like(KeyUpdated(Store(GetOrCreate(p, s), s, new), s), KeyUpdated(Store(GetOrCreate(q, s), s, new), s))
    BY <1>1, OverwrittenAlike DEF Both
  <2>2. /\ Hset(p, s, Field(e, w)) = Result("ok", KeyUpdated(Store(GetOrCreate(p, s), s, new), s))
        /\ Hset(q, s, Field(e, w)) = Result("ok", KeyUpdated(Store(GetOrCreate(q, s), s, new), s))
    BY <1>1, <1>4, <1>5
  <2> HIDE DEF new
  <2> QED
    BY <2>1, <2>2 DEF Alike, Result
<1> HIDE DEF v
<1>7. Alike(End(p), End(q))
  BY <1>1, <1>6 DEF Alike, Result
<1> QED
  BY <1>2, <1>3, <1>7

LEMMA OnListAlike ==
    ASSUME NEW x \in DB, NEW y \in DB, Like(x, y), NEW s \in Slots, NEW absent, NEW r
    PROVE  Alike(OnList(x, s, absent, r), OnList(y, s, absent, r))
<1> DEFINE p == GetMut(x, s)
           q == GetMut(y, s)
           v == p.data[s]
           End(d, o) ==
             CASE v = NoValue -> Result(absent, KeyUpdated(o, s))
               [] v.type = "list" /\ r.reply = "panic" -> Result("panic", d)
               [] v.type = "list" /\ r.reply # "panic" ->
                    Result(r.reply, KeyUpdated(Store(o, s, List(r.elems)), s))
               [] v # NoValue /\ v.type # "list" -> Result("error", KeyUpdated(o, s))
<1>1. /\ q.data[s] = v
      /\ Like(KeyUpdated(p, s), KeyUpdated(q, s))
      /\ Like(KeyUpdated(Store(p, s, List(r.elems)), s), KeyUpdated(Store(q, s, List(r.elems)), s))
  BY OpenedAlike
<1>2. OnList(x, s, absent, r) = End(x, p)
  BY Zenon DEF OnList
<1>3. OnList(y, s, absent, r) = End(y, q)
  BY <1>1, Zenon DEF OnList
<1>4. NoValue.type # "list"
  BY DEF NoValue
<1> HIDE DEF p, q, v
<1>5. Alike(End(x, p), End(y, q))
  BY <1>1, <1>4 DEF Alike, Result
<1> QED
  BY <1>2, <1>3, <1>5

LEMMA PushxAlike ==
    ASSUME NEW x \in DB, NEW y \in DB, Like(x, y), NEW s \in Slots, NEW cmd, ~cmd.create
    PROVE  Alike(GenericPush(x, s, cmd), GenericPush(y, s, cmd))
<1> DEFINE p == GetMut(x, s)
           q == GetMut(y, s)
           v == p.data[s]
           w == PushValue(v, cmd.elems, cmd.right)
           End(o) == CASE v = NoValue -> Result("ok", o)
                       [] v # NoValue /\ ~Listable(v) -> Result("error", KeyUpdated(o, s))
                       [] v # NoValue /\ Listable(v) -> Result("ok", KeyUpdated(Store(o, s, w), s))
<1>1. /\ Like(p, q) /\ q.data[s] = v
      /\ Like(KeyUpdated(p, s), KeyUpdated(q, s))
      /\ Like(KeyUpdated(Store(p, s, w), s), KeyUpdated(Store(q, s, w), s))
  BY OpenedAlike
<1>2. GenericPush(x, s, cmd) = End(p)
  BY Zenon DEF GenericPush
<1>3. GenericPush(y, s, cmd) = End(q)
  BY <1>1, Zenon DEF GenericPush
<1> HIDE DEF p, q, v, w
<1>4. Alike(End(p), End(q))
  BY <1>1 DEF Alike, Result
<1> QED
  BY <1>2, <1>3, <1>4

LEMMA PopAlike ==
    ASSUME NEW x \in DB, NEW y \in DB, Like(x, y), NEW s \in Slots, NEW right
    PROVE  Alike(GenericPop(x, s, right), GenericPop(y, s, right))
<1> DEFINE p == GetMut(x, s)
           q == GetMut(y, s)
           v == p.data[s]
           w == PopValue(v, right)
           End(o) == CASE Listable(v) /\ Elements(v) # <<>> -> Result("ok", KeyUpdated(Store(o, s, w), s))
                       [] v = NoValue \/ (Listable(v) /\ Elements(v) = <<>>) ->
                            Result("nil", KeyUpdated(o, s))
                       [] v # NoValue /\ ~Listable(v) -> Result("error", KeyUpdated(o, s))
<1>1. /\ q.data[s] = v
      /\ Like(KeyUpdated(p, s), KeyUpdated(q, s))
      /\ Like(KeyUpdated(Store(p, s, w), s), KeyUpdated(Store(q, s, w), s))
  BY OpenedAlike
<1>2. GenericPop(x, s, right) = End(p)
  BY Zenon DEF GenericPop
<1>3. GenericPop(y, s, right) = End(q)
  BY <1>1, Zenon DEF GenericPop
<1>4. ~Listable(NoValue)
  BY DEF NoValue, Listable
<1> HIDE DEF p, q, v, w
<1>5. Alike(End(p), End(q))
  BY <1>1, <1>4 DEF Alike, Result
<1> QED
  BY <1>2, <1>3, <1>5

\* Calls of remove on every expired slot of a set
LEMMA RemoveAllAlike ==
    ASSUME NEW x \in DB, NEW y \in DB, Like(x, y), NEW S, S \subseteq Slots
    PROVE  LET p == RemoveAll(x, Expired(x, S))
               q == RemoveAll(y, Expired(y, S))
           IN Like(p, q) /\ \A s \in S : Both(p, q, s)
<1> DEFINE p == RemoveAll(x, Expired(x, S))
           q == RemoveAll(y, Expired(y, S))
<1>1. ASSUME NEW d \in DB
      PROVE  LET r == RemoveAll(d, Expired(d, S))
             IN /\ Shaped(r) /\ r.now = d.now /\ r.loading = d.loading
                /\ \A s \in Slots :
                      /\ r.data[s] = IF s \in S /\ IsExpired(d, s) THEN NoValue ELSE d.data[s]
                      /\ r.exp[s] = IF s \in S /\ IsExpired(d, s) THEN NoExp ELSE d.exp[s]
  BY DEF RemoveAll, Expired, Shaped, DB
<1>2. /\ Shaped(p) /\ p.now = x.now /\ p.loading = x.loading
      /\ \A s \in Slots :
            /\ p.data[s] = IF s \in S /\ IsExpired(x, s) THEN NoValue ELSE x.data[s]
            /\ p.exp[s] = IF s \in S /\ IsExpired(x, s) THEN NoExp ELSE x.exp[s]
  BY <1>1
<1>3. /\ Shaped(q) /\ q.now = y.now /\ q.loading = y.loading
      /\ \A s \in Slots :
            /\ q.data[s] = IF s \in S /\ IsExpired(y, s) THEN NoValue ELSE y.data[s]
            /\ q.exp[s] = IF s \in S /\ IsExpired(y, s) THEN NoExp ELSE y.exp[s]
  BY <1>1
<1> HIDE DEF p, q
<1>4. ASSUME NEW s \in Slots
      PROVE  /\ Agree(p, q, s) \/ Gone(p, q, s)
             /\ s \in S => Agree(p, q, s)
  <2>1. CASE Agree(x, y, s)
    <3>1. IsExpired(y, s) <=> IsExpired(x, s)
      BY <2>1 DEF Like, Agree, IsExpired
    <3>2. q.data[s] = p.data[s] /\ q.exp[s] = p.exp[s]
      BY <1>2, <1>3, <2>1, <3>1 DEF Agree
    <3> QED
      BY <3>2 DEF Agree
  <2>2. CASE Gone(x, y, s)
    <3>1. ~IsExpired(y, s) /\ IsExpired(x, s)
      BY <2>2 DEF Gone, IsExpired
    <3>2. q.data[s] = NoValue /\ q.exp[s] = NoExp
      BY <1>3, <2>2, <3>1 DEF Gone
    <3>3. CASE s \in S
      <4>1. p.data[s] = NoValue /\ p.exp[s] = NoExp
        BY <1>2, <3>1, <3>3
      <4> QED
        BY <3>2, <4>1 DEF Agree
    <3>4. CASE s \notin S
      <4>1. IsExpired(p, s)
        BY <1>2, <3>1, <3>4 DEF IsExpired
      <4> QED
        BY <3>2, <3>4, <4>1 DEF Gone
    <3> QED
      BY <3>3, <3>4
  <2> QED
    BY <2>1, <2>2 DEF Like
<1>5. q.now = p.now /\ q.loading = p.loading
  BY <1>2, <1>3 DEF Like
<1>6. Like(p, q)
  BY <1>2, <1>3, <1>4, <1>5 DEF Like
<1>7. \A s \in S : Both(p, q, s)
  BY <1>4, <1>6 DEF Both
<1> QED
  BY <1>6, <1>7 DEF p, q

\* FLUSHDB and FLUSHALL
LEMMA ClearAlike ==
    ASSUME NEW x \in DB, NEW y \in DB, Like(x, y), NEW S \in SUBSET Slots
    PROVE  Like(Clear(x, S), Clear(y, S))
<1>1. ASSUME NEW d \in DB
      PROVE  LET r == Clear(d, S)
             IN /\ Shaped(r) /\ r.now = d.now /\ r.loading = d.loading
                /\ \A s \in Slots : /\ r.data[s] = IF s \in S THEN NoValue ELSE d.data[s]
                                    /\ r.exp[s] = IF s \in S THEN NoExp ELSE d.exp[s]
  BY DEF Clear, Shaped, DB
<1> DEFINE p == Clear(x, S)
           q == Clear(y, S)
<1>2. /\ Shaped(p) /\ p.now = x.now /\ p.loading = x.loading
      /\ \A s \in Slots : /\ p.data[s] = IF s \in S THEN NoValue ELSE x.data[s]
                          /\ p.exp[s] = IF s \in S THEN NoExp ELSE x.exp[s]
  BY <1>1
<1>3. /\ Shaped(q) /\ q.now = y.now /\ q.loading = y.loading
      /\ \A s \in Slots : /\ q.data[s] = IF s \in S THEN NoValue ELSE y.data[s]
                          /\ q.exp[s] = IF s \in S THEN NoExp ELSE y.exp[s]
  BY <1>1
<1> HIDE DEF p, q
<1>4. Like(p, q)
  BY <1>2, <1>3 DEF Like, Agree, Gone, IsExpired
<1> QED
  BY <1>4 DEF p, q

\* MSET, which overwrites
LEMMA MsetAlike ==
    ASSUME NEW x \in DB, NEW y \in DB, Like(x, y), NEW i, NEW vals
    PROVE  Alike(Mset(x, i, vals), Mset(y, i, vals))
<1> DEFINE S == {<<i, k>> : k \in DOMAIN vals}
<1>1. ASSUME NEW d \in DB
      PROVE  LET r == Mset(d, i, vals)
             IN /\ r.reply = "ok"
                /\ Shaped(r.db) /\ r.db.now = d.now /\ r.db.loading = d.loading
                /\ \A s \in Slots :
                      /\ r.db.data[s] = IF s \in S THEN Str(vals[s[2]]) ELSE d.data[s]
                      /\ r.db.exp[s] = IF s \in S /\ IsExpired(d, s) THEN NoExp ELSE d.exp[s]
  <2> DEFINE data == [s \in Slots |-> IF s \in S THEN Str(vals[s[2]]) ELSE d.data[s]]
             exp == [s \in Slots |-> IF s \in S /\ IsExpired(d, s) THEN NoExp ELSE d.exp[s]]
             woken == UNION {d.subs[s] : s \in S}
             subs == [s \in Slots |-> IF s \in S THEN {} ELSE d.subs[s]]
             watched == [s \in Slots |-> IF s \in S THEN {} ELSE d.watched[s]]
  <2>1. Mset(d, i, vals) =
          Result("ok", [d EXCEPT !.data = data, !.exp = exp, !.sent = @ \cup woken,
                                 !.subs = subs, !.watched = watched])
    BY Zenon DEF Mset
  <2>2. /\ DOMAIN data = Slots /\ DOMAIN exp = Slots
        /\ \A s \in Slots : /\ data[s] = IF s \in S THEN Str(vals[s[2]]) ELSE d.data[s]
                            /\ exp[s] = IF s \in S /\ IsExpired(d, s) THEN NoExp ELSE d.exp[s]
    BY Zenon
  <2> HIDE DEF S, data, exp, woken, subs, watched
  <2>3. /\ Mset(d, i, vals).reply = "ok" /\ Shaped(Mset(d, i, vals).db)
        /\ Mset(d, i, vals).db.now = d.now /\ Mset(d, i, vals).db.loading = d.loading
        /\ Mset(d, i, vals).db.data = data /\ Mset(d, i, vals).db.exp = exp
    <3>1. DOMAIN d = {"data", "exp", "watched", "subs", "sent", "now", "loading"}
      BY DEF DB
    <3> DEFINE r == [d EXCEPT !.data = data, !.exp = exp, !.sent = @ \cup woken,
                              !.subs = subs, !.watched = watched]
    <3>2. /\ r.data = data /\ r.exp = exp /\ r.now = d.now /\ r.loading = d.loading
          /\ DOMAIN r = DOMAIN d
      BY <3>1
    <3>3. Mset(d, i, vals).reply = "ok" /\ Mset(d, i, vals).db = r
      BY <2>1 DEF Result
    <3> HIDE DEF r
    <3>4. Shaped(r)
      BY <2>2, <3>1, <3>2 DEF Shaped
    <3> QED
      BY <3>2, <3>3, <3>4
  <2> QED
    BY <2>2, <2>3
<1> DEFINE p == Mset(x, i, vals)
           q == Mset(y, i, vals)
<1> HIDE DEF S
<1>2. /\ p.reply = "ok"
      /\ Shaped(p.db) /\ p.db.now = x.now /\ p.db.loading = x.loading
      /\ \A s \in Slots : /\ p.db.data[s] = IF s \in S THEN Str(vals[s[2]]) ELSE x.data[s]
                          /\ p.db.exp[s] = IF s \in S /\ IsExpired(x, s) THEN NoExp ELSE x.exp[s]
  BY <1>1
<1>3. /\ q.reply = "ok"
      /\ Shaped(q.db) /\ q.db.now = y.now /\ q.db.loading = y.loading
      /\ \A s \in Slots : /\ q.db.data[s] = IF s \in S THEN Str(vals[s[2]]) ELSE y.data[s]
                          /\ q.db.exp[s] = IF s \in S /\ IsExpired(y, s) THEN NoExp ELSE y.exp[s]
  BY <1>1
<1> HIDE DEF p, q
<1>4. ASSUME NEW s \in Slots
      PROVE  Agree(p.db, q.db, s) \/ Gone(p.db, q.db, s)
  <2>1. CASE Agree(x, y, s)
    <3>1. IsExpired(y, s) <=> IsExpired(x, s)
      BY <2>1 DEF Like, Agree, IsExpired
    <3> QED
      BY <1>2, <1>3, <2>1, <3>1 DEF Agree
  <2>2. CASE Gone(x, y, s)
    <3>1. ~IsExpired(y, s) /\ IsExpired(x, s)
      BY <2>2 DEF Gone, IsExpired
    <3>2. s \in S => Agree(p.db, q.db, s)
      BY <1>2, <1>3, <2>2, <3>1 DEF Agree, Gone
    <3>3. s \notin S => IsExpired(p.db, s)
      BY <1>2, <3>1 DEF IsExpired
    <3>4. s \notin S => q.db.data[s] = NoValue /\ q.db.exp[s] = NoExp
      BY <1>3, <2>2 DEF Gone
    <3> QED
      BY <3>2, <3>3, <3>4 DEF Gone
  <2> QED
    BY <2>1, <2>2 DEF Like
<1>5. q.db.now = p.db.now /\ q.db.loading = p.db.loading
  BY <1>2, <1>3 DEF Like
<1>6. Alike(p, q)
  BY <1>2, <1>3, <1>4, <1>5 DEF Alike, Like
<1> QED
  BY <1>6 DEF p, q

\* SDIFFSTORE, SINTERSTORE and SUNIONSTORE
LEMMA SetStoreAlike ==
    ASSUME NEW x \in DB, NEW y \in DB, Like(x, y), NEW i \in Dbs, NEW op, NEW dest \in Keys,
           NEW keys \in Seq(Keys)
    PROVE  Alike(SetStore(x, i, op, dest, keys), SetStore(y, i, op, dest, keys))
<1> DEFINE s == <<i, dest>>
           Values(d) == [j \in DOMAIN keys |-> Operand(d, <<i, keys[j]>>)]
           vals == Values(x)
           new == SetOf(Combined(op, vals))
           End(d) == IF op = "sdiffstore" /\ vals[1] = Nil THEN Result("ok", d)
                     ELSE IF CombineFails(op, vals) THEN Result("error", d)
                     ELSE Result("ok", KeyUpdated(Store(GetOrCreate(Remove(d, s), s), s, new), s))
<1>1. s \in Slots /\ \A j \in DOMAIN keys : <<i, keys[j]>> \in Slots
  BY DEF Slots
<1>2. \A j \in DOMAIN keys : Operand(y, <<i, keys[j]>>) = Operand(x, <<i, keys[j]>>)
  BY <1>1, LikeSeen DEF Operand
<1>3. Values(y) = vals
  BY <1>2
<1>4. SetStore(x, i, op, dest, keys) = End(x)
  BY Zenon DEF SetStore, ReplaceBySet
<1>5. SetStore(y, i, op, dest, keys) = End(y)
  BY <1>3, Zenon DEF SetStore, ReplaceBySet
<1> HIDE DEF new, vals, s
<1>6. Like(KeyUpdated(Store(GetOrCreate(Remove(x, s), s), s, new), s),
           KeyUpdated(Store(GetOrCreate(Remove(y, s), s), s, new), s))
  BY <1>1, MadeSame, OverwrittenAlike DEF Both
<1>7. Alike(End(x), End(y))
  BY <1>6 DEF Alike, Result
<1> QED
  BY <1>4, <1>5, <1>7

\* SET and its variants, which compute a deadline from the clock
LEMMA GenericSetAlike ==
    ASSUME NEW x, NEW y, Like(x, y), NEW s \in Slots, NEW cmd
    PROVE  Alike(GenericSet(x, s, cmd), GenericSet(y, s, cmd))
<1> DEFINE Stored(d) == KeyUpdated(Store(GetOrCreate(d, s), s, Str(cmd.val)), s)
           Refused == \/ cmd.nx /\ Get(x, s) # NoValue
                      \/ cmd.xx /\ Get(x, s) = NoValue
           End(d) == IF Refused THEN Result("nil", d)
                     ELSE Result("ok", IF cmd.px = NoExp THEN Stored(d)
                                       ELSE SetMsexpiration(Stored(d), s, cmd.px + x.now))
<1>1. Get(y, s) = Get(x, s) /\ y.now = x.now
  BY LikeSeen DEF Like
<1>2. GenericSet(x, s, cmd) = End(x)
  BY Zenon DEF GenericSet
<1>3. GenericSet(y, s, cmd) = End(y)
  BY <1>1, Zenon DEF GenericSet
<1>4. Both(Stored(x), Stored(y), s)
  BY OverwrittenAlike
<1> HIDE DEF Stored, Refused
<1>5. /\ Like(Stored(x), Stored(y))
      /\ \A t : Like(SetMsexpiration(Stored(x), s, t), SetMsexpiration(Stored(y), s, t))
  BY <1>4, BothKept DEF Both
<1>6. Alike(End(x), End(y))
  BY <1>5 DEF Alike, Result
<1> QED
  BY <1>2, <1>3, <1>6

\* GETSET
LEMMA GetSetAlike ==
    ASSUME NEW x, NEW y, Like(x, y), NEW s \in Slots, NEW val
    PROVE  Alike(GetSet(x, s, val), GetSet(y, s, val))
<1>1. Get(y, s) = Get(x, s)
  BY LikeSeen
<1>2. Like(KeyUpdated(Store(GetOrCreate(x, s), s, Str(val)), s),
           KeyUpdated(Store(GetOrCreate(y, s), s, Str(val)), s))
  BY OverwrittenAlike DEF Both
<1> QED
  BY <1>1, <1>2 DEF Alike, GetSet, Result

\* DEL
LEMMA DelAlike ==
    ASSUME NEW x, NEW y, Like(x, y), NEW s \in Slots
    PROVE  Alike(Del(x, s), Del(y, s))
<1>1. Removed(y, s) = Removed(x, s)
  BY LikeSeen DEF Removed
<1>2. Both(Remove(x, s), Remove(y, s), s)
  BY MadeSame
<1>3. /\ Like(Remove(x, s), Remove(y, s))
      /\ Like(KeyUpdated(Remove(x, s), s), KeyUpdated(Remove(y, s), s))
  BY <1>2, BothKept DEF Both
<1> QED
  BY <1>1, <1>3 DEF Alike, Del, Result

\* EXPIRE and its variants, which set an expiration only of a value they found
LEMMA GenericExpireAlike ==
    ASSUME NEW x, NEW y, Like(x, y), NEW s \in Slots, NEW t
    PROVE  Alike(GenericExpire(x, s, t), GenericExpire(y, s, t))
<1>1. Get(y, s) = Get(x, s)
  BY LikeSeen
<1>2. CASE Get(x, s) = NoValue
  BY <1>1, <1>2 DEF Alike, GenericExpire, Result
<1>3. CASE Get(x, s) # NoValue
  <2>1. Both(x, y, s)
    BY <1>3, LikeSeen DEF Both
  <2>2. Both(SetMsexpiration(x, s, t), SetMsexpiration(y, s, t), s)
    BY <2>1, BothKept
  <2>3. Like(KeyUpdated(SetMsexpiration(x, s, t), s), KeyUpdated(SetMsexpiration(y, s, t), s))
    BY <2>2, BothKept DEF Both
  <2> QED
    BY <1>1, <1>3, <2>3 DEF Alike, GenericExpire, Result
<1> QED
  BY <1>2, <1>3

\* RENAME, RENAMENX and MOVE, which take away and overwrite
LEMMA RelocateAlike ==
    ASSUME NEW x, NEW y, Like(x, y), NEW from \in Slots, NEW to \in Slots
    PROVE  Alike(Relocate(x, from, to), Relocate(y, from, to))
<1> DEFINE v == Removed(x, from)
           p == Remove(x, from)
           q == Remove(y, from)
           Placed(o) == Store(GetOrCreate(o, to), to, v)
           End(o) == IF v = NoValue THEN Result("error", o)
                     ELSE Result("ok", KeyUpdated(Placed(o), to))
<1>1. Removed(y, from) = v
  BY LikeSeen DEF Removed
<1>2. p.exp[from] = NoExp /\ q.exp[from] = NoExp
  <2>1. Puts(x, p, from, NoValue, NoExp) /\ Puts(y, q, from, NoValue, NoExp)
    BY MethodsPut DEF Like
  <2> HIDE DEF p, q
  <2> QED
    BY <2>1 DEF Puts
<1>3. Relocate(x, from, to) = End(p)
  BY <1>2, Zenon DEF Relocate
<1>4. Relocate(y, from, to) = End(q)
  BY <1>1, <1>2, Zenon DEF Relocate
<1>5. Like(p, q)
  BY MadeSame DEF Both
<1> HIDE DEF p, q, v
<1>6. Like(KeyUpdated(Placed(p), to), KeyUpdated(Placed(q), to))
  BY <1>5, OverwrittenAlike DEF Both
<1>7. Alike(End(p), End(q))
  BY <1>5, <1>6 DEF Alike, Result
<1> QED
  BY <1>3, <1>4, <1>7

\* BLPOP and BRPOP, which ask for their keys in turn
LEMMA BpopAlike ==
    ASSUME NEW x \in DB, NEW y \in DB, Like(x, y), NEW i \in Dbs, NEW keys \in Seq(Keys), NEW right
    PROVE  Alike(GenericBpop(x, i, keys, right), GenericBpop(y, i, keys, right))
<1> DEFINE slot(j) == <<i, keys[j]>>
           ReadyAt(d) == {j \in DOMAIN keys : Ready(Get(d, slot(j)))}
           FirstOf(R) == CHOOSE j \in R : \A k \in R : j <= k
           LookedOf(R) == {slot(j) : j \in IF R = {} THEN DOMAIN keys ELSE 1 .. FirstOf(R)}
           End(o, R, s) == IF R = {} THEN Result("nil", o)
                           ELSE IF ~Listable(o.data[s]) THEN Result("error", o)
                           ELSE Result("ok", KeyUpdated(Store(o, s, PopValue(o.data[s], right)), s))
           EndsOf(d, R) == End(RemoveAll(d, Expired(d, LookedOf(R))), R, slot(FirstOf(R)))
           ready == ReadyAt(x)
           first == FirstOf(ready)
           s == slot(first)
           looked == LookedOf(ready)
           p == RemoveAll(x, Expired(x, looked))
           q == RemoveAll(y, Expired(y, looked))
<1>1. \A j \in DOMAIN keys : slot(j) \in Slots
  BY DEF Slots
<1>2. \A j \in DOMAIN keys : Get(y, slot(j)) = Get(x, slot(j))
  BY <1>1, LikeSeen
<1>3. ReadyAt(y) = ready
  BY <1>2
<1>4. GenericBpop(x, i, keys, right) = EndsOf(x, ReadyAt(x))
  BY Zenon DEF GenericBpop
<1>5. GenericBpop(y, i, keys, right) = EndsOf(y, ready)
  <2>1. GenericBpop(y, i, keys, right) = EndsOf(y, ReadyAt(y))
    BY Zenon DEF GenericBpop
  <2> HIDE DEF ReadyAt, Ends
  <2> QED
    BY <1>3, <2>1
<1>6. ready \subseteq DOMAIN keys /\ DOMAIN keys = 1 .. Len(keys) /\ Len(keys) \in Nat
  OBVIOUS
<1> HIDE DEF ready, slot
<1>a. GenericBpop(x, i, keys, right) = End(p, ready, s) /\ GenericBpop(y, i, keys, right) = End(q, ready, s)
  BY <1>4, <1>5 DEF ready
<1>7. ready # {} => first \in ready
  <2>1. ready \subseteq Nat
    BY <1>6
  <2> QED
    BY <2>1, FirstExists
<1>b. looked = {slot(j) : j \in IF ready = {} THEN DOMAIN keys ELSE 1 .. first}
  OBVIOUS
<1> HIDE DEF first, looked
<1>8. ready # {} => s \in looked /\ s \in Slots
  <2>1. ready # {} => first \in 1 .. first
    BY <1>6, <1>7
  <2> QED
    BY <1>1, <1>6, <1>7, <1>b, <2>1
<1>9. looked \subseteq Slots
  <2>1. ready # {} => 1 .. first \subseteq DOMAIN keys
    BY <1>6, <1>7
  <2> QED
    BY <1>1, <1>b, <2>1
<1> HIDE DEF s
<1>10. Like(p, q) /\ (ready # {} => Both(p, q, s))
  BY <1>8, <1>9, RemoveAllAlike
<1> HIDE DEF p, q
<1>11. ready # {} =>
          /\ q.data[s] = p.data[s]
          /\ \A v : Like(KeyUpdated(Store(p, s, v), s), KeyUpdated(Store(q, s, v), s))
  <2>1. ready # {} => q.data[s] = p.data[s]
    BY <1>10 DEF Both, Agree
  <2>2. ASSUME ready # {}, NEW v
        PROVE  Like(KeyUpdated(Store(p, s, v), s), KeyUpdated(Store(q, s, v), s))
    <3>1. Both(p, q, s) /\ s \in Slots
      BY <1>8, <1>10, <2>2
    <3> QED
      BY <3>1, BothKept DEF Both
  <2> QED
    BY <2>1, <2>2
<1>12. Alike(End(p, ready, s), End(q, ready, s))
  BY <1>10, <1>11 DEF Alike, Result
<1> QED
  BY <1>a, <1>12

\* The commands of Collections that look first
LEMMA CollectionAlike ==
    ASSUME NEW x \in DB, NEW y \in DB, Like(x, y), NEW i \in Dbs, NEW cmd \in CollectionCommand,
           Looks(cmd)
    PROVE  Alike(CollectionHandler(x, i, cmd), CollectionHandler(y, i, cmd))
<1> USE DEF CollectionCommand
<1> DEFINE s == <<i, cmd.key>>
<1>0. \A k \in Keys : <<i, k>> \in Slots
  BY DEF Slots
<1>1. CASE cmd.op = "read"
  <2>1. s \in Slots
    BY <1>0, <1>1
  <2>2. Get(y, s) = Get(x, s)
    BY <2>1, LikeSeen
  <2>3. Alike(Read(x, s, cmd.type), Read(y, s, cmd.type))
    BY <2>2 DEF Alike, Read, Result
  <2> QED
    BY <1>1, <2>3 DEF CollectionHandler
<1>2. CASE cmd.op = "spop"
  <2>1. s \in Slots
    BY <1>0, <1>2
  <2>2. Alike(Spop(x, s, cmd.count, cmd.rank), Spop(y, s, cmd.count, cmd.rank))
    BY <2>1, SpopAlike
  <2> QED
    BY <1>2, <2>2 DEF CollectionHandler
<1>3. CASE cmd.op \in {"sdiffstore", "sinterstore", "sunionstore"}
  <2>1. cmd.dest \in Keys /\ cmd.keys \in Seq(Keys)
    BY <1>3
  <2>2. Alike(SetStore(x, i, cmd.op, cmd.dest, cmd.keys), SetStore(y, i, cmd.op, cmd.dest, cmd.keys))
    BY <2>1, SetStoreAlike
  <2>3. \A d : CollectionHandler(d, i, cmd) = SetStore(d, i, cmd.op, cmd.dest, cmd.keys)
    BY <1>3 DEF CollectionHandler
  <2> QED
    BY <2>2, <2>3
<1>4. CASE cmd.op = "hsetnx"
  <2>1. s \in Slots
    BY <1>0, <1>4
  <2>2. Alike(Hsetnx(x, s, cmd.field, cmd.val), Hsetnx(y, s, cmd.field, cmd.val))
    BY <2>1, HsetnxAlike
  <2> QED
    BY <1>4, <2>2 DEF CollectionHandler
<1>5. CASE cmd.op = "hdel"
  <2>1. s \in Slots
    BY <1>0, <1>5
  <2>2. Alike(Hdel(x, s, cmd.members), Hdel(y, s, cmd.members))
    BY <2>1, HdelAlike
  <2> QED
    BY <1>5, <2>2 DEF CollectionHandler
<1>6. CASE cmd.op \in {"linsert", "lset", "ltrim"}
  <2>1. s \in Slots
    BY <1>0, <1>6
  <2>2. ListAt(y, s) = ListAt(x, s)
    BY <2>1, OpenedAlike, Zenon DEF ListAt
  <2>3. CASE cmd.op = "linsert"
    <3>1. \A d : CollectionHandler(d, i, cmd) =
                   OnList(d, s, "ok", Inserted(ListAt(d, s), cmd.before, cmd.pivot, cmd.elem))
      BY <2>3 DEF CollectionHandler, Linsert
    <3> HIDE DEF s
    <3> QED
      BY <2>1, <2>2, <3>1, OnListAlike
  <2>4. CASE cmd.op = "lset"
    <3>1. \A d : CollectionHandler(d, i, cmd) =
                   OnList(d, s, "error", Replaced(ListAt(d, s), cmd.index, cmd.elem))
      BY <2>4 DEF CollectionHandler, Lset
    <3> HIDE DEF s
    <3> QED
      BY <2>1, <2>2, <3>1, OnListAlike
  <2>5. CASE cmd.op = "ltrim"
    <3>1. \A d : CollectionHandler(d, i, cmd) =
                   OnList(d, s, "ok", Trimmed(ListAt(d, s), cmd.start, cmd.stop))
      BY <2>5 DEF CollectionHandler, Ltrim
    <3> HIDE DEF s
    <3> QED
      BY <2>1, <2>2, <3>1, OnListAlike
  <2> QED
    BY <1>6, <2>3, <2>4, <2>5
<1>7. CASE cmd.op \in {"mset", "msetnx"}
  <2>1. Alike(Mset(x, i, cmd.vals), Mset(y, i, cmd.vals))
    BY MsetAlike
  <2>2. DOMAIN cmd.vals \subseteq Keys
    BY <1>7
  <2>3. \A k \in DOMAIN cmd.vals : Get(y, <<i, k>>) = Get(x, <<i, k>>)
    BY <1>0, <2>2, LikeSeen
  <2>4. Alike(Msetnx(x, i, cmd.vals), Msetnx(y, i, cmd.vals))
    BY <2>1, <2>3 DEF Alike, Msetnx, Result
  <2> QED
    BY <1>7, <2>1, <2>4 DEF CollectionHandler
<1> QED
  BY <1>1, <1>2, <1>3, <1>4, <1>5, <1>6, <1>7 DEF Looks, Blind

\* Every command that looks first
LEMMA HandlerAlike ==
    ASSUME NEW x \in DB, NEW y \in DB, Like(x, y), NEW i \in Dbs, NEW cmd \in Command,
           cmd.op # "select", Looks(cmd)
    PROVE  Alike(Handler(x, i, cmd), Handler(y, i, cmd))
<1>a. CASE cmd \in CollectionCommand
  BY <1>a, CollectionsHandled, CollectionAlike
<1>b. CASE cmd \in KeyCommand
  <2> USE <1>b DEF KeyCommand, CollectionOps
  <2> DEFINE s == <<i, cmd.key>>
  <2>0. \A k \in Keys : <<i, k>> \in Slots
    BY DEF Slots
  <2>1. CASE cmd.op = "get"
    BY <2>1 DEF Handler, Alike, Result
  <2>2. CASE cmd.op \in {"flushdb", "flushall"}
    <3> DEFINE own == {t \in Slots : t[1] = i}
    <3>1. /\ Alike(Result("ok", Clear(x, own)), Result("ok", Clear(y, own)))
          /\ Alike(Result("ok", Clear(x, Slots)), Result("ok", Clear(y, Slots)))
      BY ClearAlike DEF Alike, Result
    <3>2. \/ \A d : Handler(d, i, cmd) = Result("ok", Clear(d, own))
          \/ \A d : Handler(d, i, cmd) = Result("ok", Clear(d, Slots))
      BY <2>2 DEF Handler
    <3> HIDE DEF own
    <3> QED
      BY <3>1, <3>2
  <2>3. CASE cmd.op = "set"
    <3>1. s \in Slots
      BY <2>0, <2>3
    <3>2. Alike(GenericSet(x, s, cmd), GenericSet(y, s, cmd))
      BY <3>1, GenericSetAlike
    <3> QED
      BY <2>3, <3>2 DEF Handler
  <2>4. CASE cmd.op = "getset"
    <3>1. s \in Slots
      BY <2>0, <2>4
    <3>2. Alike(GetSet(x, s, cmd.val), GetSet(y, s, cmd.val))
      BY <3>1, GetSetAlike
    <3> QED
      BY <2>4, <3>2 DEF Handler
  <2>5. CASE cmd.op = "del"
    <3>1. s \in Slots
      BY <2>0, <2>5
    <3>2. Alike(Del(x, s), Del(y, s))
      BY <3>1, DelAlike
    <3> QED
      BY <2>5, <3>2 DEF Handler
  <2>6. CASE cmd.op \in {"pexpire", "pexpireat"}
    <3>1. s \in Slots /\ y.now = x.now
      BY <2>0, <2>6 DEF Like
    <3>2. \A t : Alike(GenericExpire(x, s, t), GenericExpire(y, s, t))
      BY <3>1, GenericExpireAlike
    <3>3. \/ \A d : Handler(d, i, cmd) = GenericExpire(d, s, d.now + cmd.ms)
          \/ \A d : Handler(d, i, cmd) = GenericExpire(d, s, cmd.ms)
      BY <2>6 DEF Handler
    <3> HIDE DEF s
    <3> QED
      BY <3>1, <3>2, <3>3
  <2>7. CASE cmd.op \in {"rename", "renamenx"}
    <3> DEFINE t == <<i, cmd.dest>>
    <3>1. s \in Slots /\ t \in Slots
      BY <2>0, <2>7
    <3>2. Get(y, t) = Get(x, t) /\ Alike(Relocate(x, s, t), Relocate(y, s, t))
      BY <3>1, LikeSeen, RelocateAlike
    <3>3. \/ \A d : Handler(d, i, cmd) = Rename(d, s, t)
          \/ \A d : Handler(d, i, cmd) = RenameNx(d, s, t)
      BY <2>7 DEF Handler
    <3> HIDE DEF s, t
    <3>4. Alike(Rename(x, s, t), Rename(y, s, t)) /\ Alike(RenameNx(x, s, t), RenameNx(y, s, t))
      BY <3>2 DEF Alike, Rename, RenameNx, Result
    <3> QED
      BY <3>3, <3>4
  <2>8. CASE cmd.op = "move"
    <3> DEFINE t == <<cmd.to, cmd.key>>
    <3>1. s \in Slots /\ (cmd.to \in Dbs => t \in Slots)
      BY <2>0, <2>8 DEF Slots
    <3>2. cmd.to \in Dbs => Alike(Relocate(x, s, t), Relocate(y, s, t))
      BY <3>1, RelocateAlike
    <3>3. Alike(MoveKey(x, i, cmd.key, cmd.to), MoveKey(y, i, cmd.key, cmd.to))
      BY <3>2 DEF Alike, MoveKey, Result
    <3> QED
      BY <2>8, <3>3 DEF Handler
  <2>9. CASE cmd.op = "push"
    <3>1. s \in Slots /\ ~cmd.create
      BY <2>0, <2>9 DEF Looks
    <3>2. Alike(GenericPush(x, s, cmd), GenericPush(y, s, cmd))
      BY <3>1, PushxAlike
    <3> QED
      BY <2>9, <3>2 DEF Handler
  <2>10. CASE cmd.op = "pop"
    <3>1. s \in Slots
      BY <2>0, <2>10
    <3>2. Alike(GenericPop(x, s, cmd.right), GenericPop(y, s, cmd.right))
      BY <3>1, PopAlike
    <3> QED
      BY <2>10, <3>2 DEF Handler
  <2>11. CASE cmd.op = "bpop"
    <3>1. cmd.keys \in Seq(Keys)
      BY <2>11
    <3>2. Alike(GenericBpop(x, i, cmd.keys, cmd.right), GenericBpop(y, i, cmd.keys, cmd.right))
      BY <3>1, BpopAlike
    <3> QED
      BY <2>11, <3>2 DEF Handler
  <2> QED
    BY <2>1, <2>2, <2>3, <2>4, <2>5, <2>6, <2>7, <2>8, <2>9, <2>10, <2>11 DEF Looks, Blind
<1> QED
  BY <1>a, <1>b DEF Command

\* A command that asks for a key's value before it creates or overwrites the key leaves
\* what it would leave had every expired key been removed before it, in every reachable
\* state: get, get_mut and remove take an expired value for none.
THEOREM ExpiredUnseen ==
    ASSUME AllLook
    PROVE  Spec => []ExpiredIsAbsent
<1>1. ASSUME TypeOK
      PROVE  ExpiredIsAbsent
  <2> DEFINE clean == RemoveAll(db, Expired(db, Slots))
  <2> SUFFICES ASSUME NEW cmd \in Cmds, NEW d \in Dbs, cmd.op # "select"
               PROVE  Modified(Handler(db, d, cmd).db, Handler(clean, d, cmd).db) = {}
    BY Zenon DEF ExpiredIsAbsent
  <2>1. db \in DB /\ cmd \in Command /\ Looks(cmd)
    BY <1>1, ServerAssumption DEF TypeOK, AllLook
  <2>2. Like(db, clean)
    <3>1. /\ Shaped(clean) /\ clean.now = db.now /\ clean.loading = db.loading
          /\ \A s \in Slots :
                /\ clean.data[s] = IF IsExpired(db, s) THEN NoValue ELSE db.data[s]
                /\ clean.exp[s] = IF IsExpired(db, s) THEN NoExp ELSE db.exp[s]
      BY <2>1 DEF RemoveAll, Expired, Shaped, DB
    <3> HIDE DEF clean
    <3> QED
      BY <2>1, <3>1, DBShaped DEF Like, Agree, Gone
  <2>3. clean \in DB
    BY <2>1, RemoveAllType DEF Expired
  <2> HIDE DEF clean
  <2>4. Like(Handler(db, d, cmd).db, Handler(clean, d, cmd).db)
    BY <2>1, <2>2, <2>3, HandlerAlike DEF Alike
  <2> QED
    BY <2>4, LikeSeen DEF Modified
<1>2. Spec => []TypeOK
  BY TypeCorrect
<1>3. TypeOK => ExpiredIsAbsent
  BY <1>1
<1> QED
  BY <1>2, <1>3, PTL

-----------------------------------------------------------------------------
(* What a move keeps *)

\* What a value holds, as a set
Inside(v) == Members(v) \cup {Elements(v)[i] : i \in DOMAIN Elements(v)}

\* The contents and the places of two keys
LEMMA ContentsOfTwo ==
    \A d, s, t : /\ Contents(d, {s, t}) = Inside(Get(d, s)) \cup Inside(Get(d, t))
                 /\ Places(d, {s, t}) = ({s} \X DOMAIN Elements(Get(d, s)))
                                           \cup ({t} \X DOMAIN Elements(Get(d, t)))
<1> TAKE d, s, t
<1>1. \A x : {Inside(Get(d, u)) : u \in {s, t}} = {Inside(Get(d, s)), Inside(Get(d, t))}
  OBVIOUS
<1>2. Contents(d, {s, t}) = UNION {Inside(Get(d, u)) : u \in {s, t}}
  BY Zenon DEF Contents, Inside
<1>3. \A A, B : UNION {A, B} = A \cup B
  OBVIOUS
<1>4. {{u} \X DOMAIN Elements(Get(d, u)) : u \in {s, t}} =
        {{s} \X DOMAIN Elements(Get(d, s)), {t} \X DOMAIN Elements(Get(d, t))}
  OBVIOUS
<1>5. Places(d, {s, t}) = UNION {{u} \X DOMAIN Elements(Get(d, u)) : u \in {s, t}}
  BY Zenon DEF Places
<1> QED
  BY <1>1, <1>2, <1>3, <1>4, <1>5, Zenon

\* An empty value holds what no value holds: key_updated may remove it.
LEMMA EmptyHolds ==
    ASSUME NEW v, IsEmpty(v)
    PROVE  /\ Members(v) = Members(NoValue) /\ Elements(v) = Elements(NoValue)
<1>1. Members(NoValue) = {} /\ Elements(NoValue) = <<>>
  BY DEF Members, Elements, NoValue
<1>2. CASE v.type \in {"zset", "bloom"}
  BY <1>1, <1>2 DEF Members, Elements
<1>3. CASE v \in {Nil, List(<<>>), SetOf({}), HashOf(<<>>)}
  <2>1. /\ Members(Nil) = {} /\ Members(List(<<>>)) = {} /\ Members(SetOf({})) = {}
        /\ Members(HashOf(<<>>)) = {}
    BY DEF Members, Nil, List, SetOf, HashOf
  <2>2. /\ Elements(Nil) = <<>> /\ Elements(List(<<>>)) = <<>> /\ Elements(SetOf({})) = <<>>
        /\ Elements(HashOf(<<>>)) = <<>>
    BY DEF Elements, Nil, List, SetOf, HashOf
  <2> QED
    BY <1>1, <1>3, <2>1, <2>2
<1> QED
  BY <1>2, <1>3 DEF IsEmpty

\* A method that sets no deadline leaves nothing expired.
LEMMA PutsFresh ==
    ASSUME NEW d, Fresh(d), NEW s \in Slots, NEW v, NEW e \in {d.exp[s], NoExp}, NEW r,
           Puts(d, r, s, v, e)
    PROVE  Shaped(r) /\ Fresh(r)
BY DEF Fresh, Puts, IsExpired

\* Where nothing has expired, SMOVE and RPOPLPUSH find both their keys, leave a in the
\* first and b in the second, and key_updated takes nothing away that holds anything.
LEMMA TwoAssigned ==
    ASSUME NEW d \in DB, Fresh(d), NEW s \in Slots, NEW t \in Slots, NEW a, a # NoValue, NEW b,
           NEW created, created = GetOrCreate(Store(GetMut(d, s), s, a), t),
           NEW r, r = KeyUpdated(KeyUpdated(Store(created, t, b), s), t)
    PROVE  /\ created.data[t] = IF t = s THEN a ELSE IF d.data[t] = NoValue THEN Nil ELSE d.data[t]
           /\ Members(Get(r, t)) = Members(b) /\ Elements(Get(r, t)) = Elements(b)
           /\ s # t => Members(Get(r, s)) = Members(a) /\ Elements(Get(r, s)) = Elements(a)
<1> DEFINE opened == GetMut(d, s)
           taken == Store(opened, s, a)
           added == Store(created, t, b)
           first == KeyUpdated(added, s)
           Left(u) == IF u = t THEN b ELSE IF u = s THEN a ELSE d.data[u]
<1>1. opened = d /\ Shaped(d)
  BY DBShaped DEF GetMut, Fresh
<1>2. Shaped(taken) /\ Fresh(taken) /\ Puts(d, taken, s, a, d.exp[s])
  BY <1>1, MethodsPut, PutsFresh
<1> HIDE DEF taken
<1>3. /\ Shaped(created) /\ Fresh(created)
      /\ Puts(taken, created, t, IF taken.data[t] = NoValue THEN Nil ELSE taken.data[t], taken.exp[t])
  <2>1. ~IsExpired(taken, t)
    BY <1>2 DEF Fresh
  <2>2. created = GetOrCreate(taken, t)
    BY DEF taken
  <2>3. Puts(taken, GetOrCreate(taken, t), t, IF taken.data[t] = NoValue THEN Nil ELSE taken.data[t], taken.exp[t])
    BY <1>2, <2>1, MethodsPut
  <2>4. Puts(taken, created, t, IF taken.data[t] = NoValue THEN Nil ELSE taken.data[t], taken.exp[t])
    BY <2>2, <2>3, Zenon
  <2> QED
    BY <1>2, <2>4, PutsFresh
<1>4. Shaped(added) /\ Fresh(added) /\ Puts(created, added, t, b, created.exp[t])
  BY <1>3, MethodsPut, PutsFresh
<1> HIDE DEF added
<1>5. created.data[t] = IF t = s THEN a ELSE IF d.data[t] = NoValue THEN Nil ELSE d.data[t]
  BY <1>2, <1>3 DEF Puts
<1>6. \A u \in Slots : added.data[u] = Left(u)
  BY <1>2, <1>3, <1>4 DEF Puts
<1>7. ASSUME NEW m, Shaped(m), Fresh(m), NEW x \in Slots
      PROVE  /\ Shaped(KeyUpdated(m, x)) /\ Fresh(KeyUpdated(m, x))
             /\ \A u \in Slots : /\ Members(KeyUpdated(m, x).data[u]) = Members(m.data[u])
                                 /\ Elements(KeyUpdated(m, x).data[u]) = Elements(m.data[u])
  <2> DEFINE v == IF IsEmpty(m.data[x]) THEN NoValue ELSE m.data[x]
             e == IF IsEmpty(m.data[x]) THEN NoExp ELSE m.exp[x]
             k == KeyUpdated(m, x)
  <2>1. Puts(m, k, x, v, e) /\ e \in {m.exp[x], NoExp}
    BY <1>7, MethodsPut
  <2>2. Members(v) = Members(m.data[x]) /\ Elements(v) = Elements(m.data[x])
    BY EmptyHolds
  <2> HIDE DEF v, e, k
  <2>3. Shaped(k) /\ Fresh(k)
    BY <1>7, <2>1, PutsFresh
  <2>4. \A u \in Slots : Members(k.data[u]) = Members(m.data[u]) /\ Elements(k.data[u]) = Elements(m.data[u])
    BY <2>1, <2>2 DEF Puts
  <2> QED
    BY <2>3, <2>4 DEF k
<1>8. /\ Shaped(first) /\ Fresh(first)
      /\ \A u \in Slots : /\ Members(first.data[u]) = Members(added.data[u])
                          /\ Elements(first.data[u]) = Elements(added.data[u])
  BY <1>4, <1>7
<1> HIDE DEF first
<1>9. /\ Fresh(KeyUpdated(first, t))
      /\ \A u \in Slots : /\ Members(KeyUpdated(first, t).data[u]) = Members(first.data[u])
                          /\ Elements(KeyUpdated(first, t).data[u]) = Elements(first.data[u])
  BY <1>7, <1>8
<1>10. r = KeyUpdated(first, t)
  BY DEF first, added
<1>11. \A u \in Slots : Get(r, u) = r.data[u]
  BY <1>9, <1>10 DEF Get, Fresh
<1>12. \A u \in Slots : Members(Get(r, u)) = Members(Left(u)) /\ Elements(Get(r, u)) = Elements(Left(u))
  BY <1>6, <1>8, <1>9, <1>10, <1>11, Zenon
<1>13. Left(t) = b /\ (s # t => Left(s) = a)
  OBVIOUS
<1> HIDE DEF Left
<1> QED
  BY <1>5, <1>12, <1>13
\* SMOVE keeps the members of both sets together, and has no places.
LEMMA SmoveConserves ==
    ASSUME NEW d \in DB, Fresh(d), NEW s \in Slots, NEW t \in Slots, NEW e
    PROVE  LET after == Smove(d, s, t, e).db
           IN /\ Contents(after, {s, t}) = Contents(d, {s, t})
              /\ Places(after, {s, t}) = Places(d, {s, t})
<1> DEFINE target  == Get(d, t)
           opened  == GetMut(d, s)
           v       == opened.data[s]
           a       == SetOf(Members(v) \ {e})
           created == GetOrCreate(Store(opened, s, a), t)
           w       == created.data[t]
           b       == SetOf(Members(w) \cup {e})
           moved   == KeyUpdated(KeyUpdated(Store(created, t, b), s), t)
<1>1. Smove(d, s, t, e) =
        IF target # NoValue /\ target.type # "set" THEN Result("error", d)
        ELSE IF v = NoValue THEN Result("ok", opened)
        ELSE IF ~Settable(v) THEN Result("error", opened)
        ELSE IF e \notin Members(v) THEN Result("ok", opened)
        ELSE IF ~Settable(w) THEN Result("panic", d)
        ELSE Result("ok", moved)
  BY Zenon DEF Smove
<1>2. opened = d
  BY DEF GetMut, Fresh
<1>3. \A u \in Slots : Get(d, u) = d.data[u]
  BY DEF Get, Fresh
<1>4. a # NoValue /\ Members(a) = Members(v) \ {e} /\ Elements(a) = <<>>
  BY DEF SetOf, NoValue, Members, Elements
<1>5. Members(b) = Members(w) \cup {e} /\ Elements(b) = <<>>
  BY DEF SetOf, Members, Elements
<1>6. \A x : Settable(x) \/ x = NoValue => Elements(x) = <<>>
  BY DEF Settable, Elements, NoValue
<1>7. Members(Nil) = {} /\ Members(NoValue) = {}
  BY DEF Members, Nil, NoValue
<1>8. /\ w = IF t = s THEN a ELSE IF d.data[t] = NoValue THEN Nil ELSE d.data[t]
      /\ Members(Get(moved, t)) = Members(b) /\ Elements(Get(moved, t)) = Elements(b)
      /\ s # t => Members(Get(moved, s)) = Members(a) /\ Elements(Get(moved, s)) = Elements(a)
  <2>1. a # NoValue
    BY <1>4
  <2>2. created = GetOrCreate(Store(GetMut(d, s), s, a), t) /\ moved = KeyUpdated(KeyUpdated(Store(created, t, b), s), t)
    OBVIOUS
  <2> HIDE DEF a, b, created, moved
  <2> QED
    BY <2>1, <2>2, TwoAssigned
<1> HIDE DEF target, a, b, moved, created
<1>9. ASSUME e \in Members(v), Settable(v), Settable(w)
      PROVE  /\ Contents(moved, {s, t}) = Contents(d, {s, t})
             /\ Places(moved, {s, t}) = Places(d, {s, t})
  <2>1. /\ Members(Get(moved, t)) = Members(w) \cup {e} /\ Elements(Get(moved, t)) = <<>>
        /\ s # t => Members(Get(moved, s)) = Members(v) \ {e} /\ Elements(Get(moved, s)) = <<>>
    BY <1>4, <1>5, <1>8
  <2>2. /\ Members(Get(d, s)) = Members(v) /\ Elements(Get(d, s)) = <<>>
        /\ s # t => Members(Get(d, t)) = Members(w)
        /\ Elements(Get(d, t)) = <<>>
    <3>1. Get(d, s) = v
      BY <1>2, <1>3
    <3>2. s # t => (Get(d, t) = NoValue /\ w = Nil) \/ Get(d, t) = w
      BY <1>3, <1>8
    <3> HIDE DEF v
    <3> QED
      BY <1>6, <1>7, <1>9, <3>1, <3>2
  <2>3. s = t => Members(w) = Members(v) \ {e}
    BY <1>4, <1>8
  <2>4. \A x : Elements(x) = <<>> => Inside(x) = Members(x) /\ DOMAIN Elements(x) = {}
    BY DEF Inside
  <2> HIDE DEF v, w
  <2>5. /\ Inside(Get(moved, s)) \cup Inside(Get(moved, t)) = Inside(Get(d, s)) \cup Inside(Get(d, t))
        /\ DOMAIN Elements(Get(moved, s)) = {} /\ DOMAIN Elements(Get(moved, t)) = {}
        /\ DOMAIN Elements(Get(d, s)) = {} /\ DOMAIN Elements(Get(d, t)) = {}
    <3>1. CASE s = t
      BY <1>9, <2>1, <2>2, <2>3, <2>4, <3>1
    <3>2. CASE s # t
      BY <1>9, <2>1, <2>2, <2>4, <3>2
    <3> QED
      BY <3>1, <3>2
  <2>6. \A x : Contents(x, {s, t}) = Inside(Get(x, s)) \cup Inside(Get(x, t))
    BY ContentsOfTwo, Zenon
  <2>7. \A x : Places(x, {s, t}) = ({s} \X DOMAIN Elements(Get(x, s)))
                                     \cup ({t} \X DOMAIN Elements(Get(x, t)))
    BY ContentsOfTwo, SMT
  <2> QED
    BY <2>5, <2>6, <2>7, Zenon
<1> HIDE DEF v, w, opened
<1> DEFINE r == Smove(d, s, t, e)
<1>10. r.db = d \/ (r.db = moved /\ e \in Members(v) /\ Settable(v) /\ Settable(w))
  BY <1>1, <1>2 DEF Result
<1> HIDE DEF r
<1>11. Contents(r.db, {s, t}) = Contents(d, {s, t}) /\ Places(r.db, {s, t}) = Places(d, {s, t})
  BY <1>9, <1>10
<1> QED
  BY <1>11 DEF r

\* What stands in a sequence
Held(x) == {x[i] : i \in DOMAIN x}

\* The last element of the list l put before the elements of m; what is as it was
LastBefore(l, m, short, long) ==
    short = SubSeq(l, 1, Len(l) - 1) /\ long = <<l[Len(l)]>> \o m
OneOver(l, m, short, long) ==
    /\ Len(short) = Len(l) - 1 /\ DOMAIN short = 1 .. Len(l) - 1
    /\ DOMAIN long = 1 .. Len(m) + 1
    /\ Held(short) \cup Held(long) = Held(l) \cup Held(m)
    /\ m = short => Held(long) = Held(l)

\* Nothing is lost, and one place goes where one comes, in one list or in two.
LEMMA LastMoved ==
    ASSUME NEW l \in Seq(Elems), l # <<>>, NEW m \in Seq(Elems),
           NEW short, NEW long, LastBefore(l, m, short, long)
    PROVE  OneOver(l, m, short, long)
<1> DEFINE n == Len(l)
           k == Len(m)
           el == l[n]
<1>1. n \in Nat /\ n >= 1 /\ DOMAIN l = 1 .. n /\ k \in Nat /\ DOMAIN m = 1 .. k
  BY EmptySeq, LenProperties
<1>2. el \in Elems
  BY <1>1, ElementOfSeq
<1>3. /\ short \in Seq(Elems) /\ Len(short) = n - 1 /\ DOMAIN short = 1 .. n - 1
      /\ \A i \in 1 .. n - 1 : short[i] = l[i]
  <2>1. short = SubSeq(l, 1, n - 1)
    BY DEF LastBefore
  <2> QED
    BY <1>1, <2>1, SubSeqProperties
<1>4. long = <<el>> \o m
  BY DEF LastBefore
<1>5. <<el>> \in Seq(Elems)
  BY <1>2
<1>6. /\ long \in Seq(Elems) /\ Len(long) = 1 + k
      /\ long[1] = el /\ \A i \in 1 .. k : long[i + 1] = m[i]
  BY <1>1, <1>4, <1>5
<1>7. DOMAIN long = 1 .. k + 1
  BY <1>1, <1>6
<1> HIDE DEF n, k, el
<1>8. Held(long) = {el} \cup Held(m)
  <2>1. \A i \in 1 .. k + 1 : i = 1 \/ (i - 1 \in 1 .. k /\ long[i] = m[i - 1])
    <3> SUFFICES ASSUME NEW i \in 1 .. k + 1, i # 1
                 PROVE  i - 1 \in 1 .. k /\ long[i] = m[i - 1]
      OBVIOUS
    <3>1. i - 1 \in 1 .. k /\ (i - 1) + 1 = i
      BY <1>1
    <3> QED
      BY <1>6, <3>1
  <2>2. \A i \in 1 .. k : i + 1 \in 1 .. k + 1 /\ long[i + 1] = m[i]
    BY <1>1, <1>6
  <2>3. 1 \in 1 .. k + 1 /\ long[1] = el
    BY <1>1, <1>6
  <2>4. Held(long) \subseteq {el} \cup Held(m)
    <3>1. \A i \in 1 .. k : m[i] \in Held(m)
      BY <1>1 DEF Held
    <3>2. \A i \in 1 .. k + 1 : long[i] \in {el} \cup Held(m)
      BY <2>1, <2>3, <3>1
    <3> QED
      BY <1>7, <3>2 DEF Held
  <2>5. el \in Held(long)
    BY <1>7, <2>3 DEF Held
  <2>6. Held(m) \subseteq Held(long)
    BY <1>1, <1>7, <2>2 DEF Held
  <2> QED
    BY <2>4, <2>5, <2>6
<1>9. Held(l) = Held(short) \cup {el}
  <2>1. \A i \in 1 .. n : i = n \/ i \in 1 .. n - 1
    BY <1>1
  <2>2. n \in 1 .. n /\ \A i \in 1 .. n - 1 : i \in 1 .. n
    BY <1>1
  <2>3. el = l[n]
    BY DEF el
  <2> QED
    BY <1>1, <1>3, <2>1, <2>2, <2>3 DEF Held
<1>10. /\ Len(short) = n - 1 /\ DOMAIN short = 1 .. n - 1 /\ DOMAIN long = 1 .. k + 1
       /\ Held(short) \cup Held(long) = Held(l) \cup Held(m)
       /\ m = short => Held(long) = Held(l)
  BY <1>3, <1>7, <1>8, <1>9
<1> QED
  BY <1>10, Zenon DEF OneOver, n, k

\* The places of a list of n elements at the key s
Row(s, n) == {s} \X (1 .. n)

\* A place gone from one list and another come to a second one leave as many places.
LEMMA PlaceMoved ==
    ASSUME NEW s, NEW t, s # t, NEW n \in Nat, n >= 1, NEW k \in Nat
    PROVE  Cardinality(Row(s, n - 1) \cup Row(t, k + 1)) = Cardinality(Row(s, n) \cup Row(t, k))
<1> DEFINE C == Row(s, n - 1) \cup Row(t, k)
           old == <<s, n>>
           new == <<t, k + 1>>
<1>1. IsFiniteSet(C)
  <2>1. IsFiniteSet(1 .. n - 1) /\ IsFiniteSet(1 .. k)
    BY FS_Interval
  <2>2. IsFiniteSet({s}) /\ IsFiniteSet({t})
    BY FS_Singleton
  <2>3. IsFiniteSet(Row(s, n - 1)) /\ IsFiniteSet(Row(t, k))
    BY <2>1, <2>2, FS_Product DEF Row
  <2> QED
    BY <2>3, FS_Union
<1>2. 1 .. n = (1 .. n - 1) \cup {n} /\ 1 .. k + 1 = (1 .. k) \cup {k + 1}
  OBVIOUS
<1>3. Row(s, n) \cup Row(t, k) = C \cup {old}
  BY <1>2 DEF Row
<1>4. Row(s, n - 1) \cup Row(t, k + 1) = C \cup {new}
  BY <1>2 DEF Row
<1>5. n \notin 1 .. n - 1 /\ k + 1 \notin 1 .. k
  OBVIOUS
<1>6. old \notin C /\ new \notin C
  BY <1>5 DEF Row
<1> HIDE DEF C, old, new
<1>7. Cardinality(C \cup {old}) = Cardinality(C) + 1 /\ Cardinality(C \cup {new}) = Cardinality(C) + 1
  BY <1>1, <1>6, FS_AddElement
<1> QED
  BY <1>3, <1>4, <1>7, Zenon

\* RPOPLPUSH keeps the elements of both lists together and the number of their places.
LEMMA RpoplpushConserves ==
    ASSUME NEW d \in DB, Fresh(d), NEW s \in Slots, NEW t \in Slots
    PROVE  LET after == GenericRpoplpush(d, s, t).db
           IN /\ Contents(after, {s, t}) = Contents(d, {s, t})
              /\ Cardinality(Places(after, {s, t})) = Cardinality(Places(d, {s, t}))
<1> DEFINE target  == Get(d, t)
           opened  == GetMut(d, s)
           v       == opened.data[s]
           el      == Popped(v, TRUE)
           a       == PopValue(v, TRUE)
           created == GetOrCreate(Store(opened, s, a), t)
           w       == created.data[t]
           b       == PushValue(w, <<el>>, FALSE)
           moved   == KeyUpdated(KeyUpdated(Store(created, t, b), s), t)
           r       == GenericRpoplpush(d, s, t)
<1>1. r = IF target # NoValue /\ ~Listable(target) THEN Result("error", d)
          ELSE IF v = NoValue THEN Result("nil", opened)
          ELSE IF ~Listable(v) THEN Result("error", opened)
          ELSE IF Elements(v) = <<>> THEN Result("nil", opened)
          ELSE IF ~Listable(w) THEN Result("error", created)
          ELSE Result("ok", moved)
  BY Zenon DEF GenericRpoplpush
<1>2. opened = d
  BY DEF GetMut, Fresh
<1>3. \A u \in Slots : Get(d, u) = d.data[u]
  BY DEF Get, Fresh
<1>4. a # NoValue /\ Listable(a) /\ Members(a) = {} /\ Elements(a) = SubSeq(v.elems, 1, Len(v.elems) - 1)
  BY DEF PopValue, List, NoValue, Listable, Members, Elements
<1>5. /\ Members(b) = {}
      /\ Elements(b) = <<el>> \o Elements(w)
  <2> HIDE DEF el, w
  <2>1. [i \in 1 .. Len(<<el>>) |-> <<el>>[Len(<<el>>) + 1 - i]] = <<el>>
    OBVIOUS
  <2> QED
    BY <2>1 DEF PushValue, List, Members, Elements
<1>6. \A x : Listable(x) \/ x = NoValue => Members(x) = {}
  BY DEF Listable, Members, NoValue
<1>7. Listable(Nil) /\ Elements(Nil) = <<>> /\ Elements(NoValue) = <<>>
  BY DEF Listable, Elements, Nil, NoValue
<1>8. /\ w = IF t = s THEN a ELSE IF d.data[t] = NoValue THEN Nil ELSE d.data[t]
      /\ Members(Get(moved, t)) = Members(b) /\ Elements(Get(moved, t)) = Elements(b)
      /\ s # t => Members(Get(moved, s)) = Members(a) /\ Elements(Get(moved, s)) = Elements(a)
  <2>1. a # NoValue
    BY <1>4
  <2>2. created = GetOrCreate(Store(GetMut(d, s), s, a), t) /\ moved = KeyUpdated(KeyUpdated(Store(created, t, b), s), t)
    OBVIOUS
  <2> HIDE DEF a, b, created, moved
  <2> QED
    BY <2>1, <2>2, TwoAssigned
<1>9. \A x \in Value \cup {NoValue} : Elements(x) \in Seq(Elems)
  <2>1. \A x \in Lists : Elements(x) \in Seq(Elems)
    BY DEF Lists, Elements
  <2>2. \A x \in {NoValue, Nil} \cup Strings \cup Sets \cup Hashes : Elements(x) \in Seq(Elems)
    BY DEF NoValue, Nil, Strings, Sets, Hashes, Elements
  <2> QED
    BY <2>1, <2>2 DEF Value
<1>10. d.data[s] \in Value \cup {NoValue} /\ d.data[t] \in Value \cup {NoValue}
  BY DEF DB
<1>11. v = d.data[s]
  BY <1>2
<1> HIDE DEF target, el, a, b, moved, created, opened, v, w
<1>12. ASSUME v # NoValue, Listable(v), Elements(v) # <<>>, target = NoValue \/ Listable(target)
       PROVE  /\ Listable(w)
              /\ Contents(moved, {s, t}) = Contents(d, {s, t})
              /\ Cardinality(Places(moved, {s, t})) = Cardinality(Places(d, {s, t}))
  <2> DEFINE l == Elements(v)
             m == Elements(w)
             short == SubSeq(l, 1, Len(l) - 1)
             last == l[Len(l)]
             long == <<last>> \o m
  <2>1. l = v.elems
    BY <1>12 DEF Elements
  <2>2. l \in Seq(Elems) /\ l # <<>>
    BY <1>9, <1>10, <1>11, <1>12
  <2>3. Elements(a) = short /\ Elements(b) = long
    <3>1. el = last
      BY <2>1 DEF el, Popped
    <3> QED
      BY <1>4, <1>5, <2>1, <3>1, Zenon
  <2>4. short \in Seq(Elems)
    BY <2>2
  <2>5. /\ Listable(w)
        /\ s = t => m = short
        /\ s # t => m = Elements(d.data[t])
    <3>1. CASE s = t
      BY <1>4, <1>8, <2>3, <3>1
    <3>2. CASE s # t
      BY <1>3, <1>7, <1>8, <1>12, <3>2 DEF target
    <3> QED
      BY <3>1, <3>2
  <2>6. m \in Seq(Elems)
    BY <1>9, <1>10, <2>4, <2>5
  <2> HIDE DEF l, m, short, long, last
  <2>7. OneOver(l, m, short, long)
    <3>1. LastBefore(l, m, short, long)
      BY Zenon DEF LastBefore, short, long, last
    <3> QED
      BY <2>2, <2>6, <3>1, LastMoved
  <2>8. /\ DOMAIN l = 1 .. Len(l) /\ DOMAIN m = 1 .. Len(m)
        /\ Len(l) \in Nat /\ Len(l) >= 1 /\ Len(m) \in Nat
    BY <2>2, <2>6, EmptySeq, LenProperties
  <2>9. \A x : Members(x) = {} => Inside(x) = Held(Elements(x))
    BY Zenon DEF Inside, Held
  <2>10. /\ Inside(Get(moved, t)) = Held(long) /\ DOMAIN Elements(Get(moved, t)) = 1 .. Len(m) + 1
         /\ s # t => Inside(Get(moved, s)) = Held(short) /\ DOMAIN Elements(Get(moved, s)) = 1 .. Len(l) - 1
    <3>1. Members(Get(moved, t)) = {} /\ Elements(Get(moved, t)) = long
      BY <1>5, <1>8, <2>3
    <3>2. s # t => Members(Get(moved, s)) = {} /\ Elements(Get(moved, s)) = short
      BY <1>4, <1>8, <2>3
    <3> QED
      BY <2>7, <2>9, <3>1, <3>2 DEF OneOver
  <2>11. /\ Inside(Get(d, s)) = Held(l) /\ DOMAIN Elements(Get(d, s)) = 1 .. Len(l)
         /\ s # t => Inside(Get(d, t)) = Held(m) /\ DOMAIN Elements(Get(d, t)) = 1 .. Len(m)
    <3>1. Members(Get(d, s)) = {} /\ Elements(Get(d, s)) = l
      BY <1>3, <1>6, <1>11, <1>12 DEF l
    <3>2. Members(Get(d, t)) = {} /\ (s # t => Elements(Get(d, t)) = m)
      BY <1>3, <1>6, <1>12, <2>5 DEF target
    <3> QED
      BY <2>8, <2>9, <3>1, <3>2
  <2>12. Inside(Get(moved, s)) \cup Inside(Get(moved, t)) = Inside(Get(d, s)) \cup Inside(Get(d, t))
    <3>1. CASE s = t
      BY <2>5, <2>7, <2>10, <2>11, <3>1 DEF OneOver
    <3>2. CASE s # t
      BY <2>7, <2>10, <2>11, <3>2 DEF OneOver
    <3> QED
      BY <3>1, <3>2
  <2> DEFINE after == ({s} \X DOMAIN Elements(Get(moved, s))) \cup ({t} \X DOMAIN Elements(Get(moved, t)))
             before == ({s} \X DOMAIN Elements(Get(d, s))) \cup ({t} \X DOMAIN Elements(Get(d, t)))
  <2>13. Cardinality(after) = Cardinality(before)
    <3>1. CASE s = t
      <4>1. DOMAIN Elements(Get(moved, s)) = DOMAIN Elements(Get(d, s))
        <5>1. Len(m) + 1 = Len(l)
          BY <2>5, <2>7, <2>8, <3>1 DEF OneOver
        <5> QED
          BY <2>10, <2>11, <3>1, <5>1
      <4> QED
        BY <3>1, <4>1
    <3>2. CASE s # t
      <4>1. /\ after = Row(s, Len(l) - 1) \cup Row(t, Len(m) + 1)
            /\ before = Row(s, Len(l)) \cup Row(t, Len(m))
        BY <2>10, <2>11, <3>2 DEF Row
      <4> HIDE DEF after, before
      <4> QED
        <5>1. \A n \in Nat, k \in Nat : n >= 1 =>
                Cardinality(Row(s, n - 1) \cup Row(t, k + 1)) = Cardinality(Row(s, n) \cup Row(t, k))
          BY <3>2, PlaceMoved
        <5> QED
          BY <2>8, <4>1, <5>1, Zenon
    <3> QED
      BY <3>1, <3>2
  <2>14. \A x : Contents(x, {s, t}) = Inside(Get(x, s)) \cup Inside(Get(x, t))
    BY ContentsOfTwo, Zenon
  <2>15. \A x : Places(x, {s, t}) = ({s} \X DOMAIN Elements(Get(x, s)))
                                     \cup ({t} \X DOMAIN Elements(Get(x, t)))
    BY ContentsOfTwo, SMT
  <2> QED
    BY <2>5, <2>12, <2>13, <2>14, <2>15, Zenon
<1> HIDE DEF r
<1>13. \/ r.db = d
       \/ /\ r.db = moved
          /\ v # NoValue /\ Listable(v) /\ Elements(v) # <<>> /\ (target = NoValue \/ Listable(target))
  <2>1. v # NoValue /\ Listable(v) /\ Elements(v) # <<>> /\ (target = NoValue \/ Listable(target)) => Listable(w)
    BY <1>12
  <2> QED
    BY <1>1, <1>2, <2>1 DEF Result
<1>14. /\ Contents(r.db, {s, t}) = Contents(d, {s, t})
       /\ Cardinality(Places(r.db, {s, t})) = Cardinality(Places(d, {s, t}))
  BY <1>12, <1>13
<1> QED
  BY <1>14 DEF r

\* SMOVE and RPOPLPUSH, one key twice or two, lose no element and make none in any state
\* in which no key has expired.  Where a destination has, it counts as missing when its
\* type is looked at and is there when the element is added.
THEOREM MovesConserve ==
    /\ Spec => []((\A s \in Slots : ~IsExpired(db, s)) => MoveConserves)
    /\ NoExpirations => (Spec => []MoveConserves)
<1>1. ASSUME db \in DB, Fresh(db)
      PROVE  MoveConserves
  <2> SUFFICES ASSUME NEW cmd \in Cmds, cmd.op \in {"smove", "rpoplpush"}, NEW d \in Dbs
               PROVE  LET S == {<<d, cmd.key>>, <<d, cmd.dest>>}
                          after == Handler(db, d, cmd).db
                      IN /\ Contents(after, S) = Contents(db, S)
                         /\ Cardinality(Places(after, S)) = Cardinality(Places(db, S))
    BY DEF MoveConserves
  <2> DEFINE s == <<d, cmd.key>>
             t == <<d, cmd.dest>>
  <2>1. cmd \in CollectionCommand \cup KeyCommand
    BY ServerAssumption DEF Command
  <2>2. s \in Slots /\ t \in Slots
    <3>1. cmd.key \in Keys /\ cmd.dest \in Keys
      <4>1. CASE cmd \in CollectionCommand
        BY <4>1 DEF CollectionCommand
      <4>2. CASE cmd \in KeyCommand
        BY <4>2 DEF KeyCommand
      <4> QED
        BY <2>1, <4>1, <4>2
    <3> QED
      BY <3>1 DEF Slots
  <2>3. CASE cmd.op = "smove"
    <3>1. Handler(db, d, cmd) = Smove(db, s, t, cmd.member)
      BY <2>3, Zenon DEF Handler, CollectionHandler, CollectionOps
    <3> HIDE DEF s, t
    <3>2. /\ Contents(Handler(db, d, cmd).db, {s, t}) = Contents(db, {s, t})
          /\ Places(Handler(db, d, cmd).db, {s, t}) = Places(db, {s, t})
      BY <1>1, <2>2, <3>1, SmoveConserves
    <3> QED
      BY <3>2, Zenon DEF s, t
  <2>4. CASE cmd.op = "rpoplpush"
    <3>1. Handler(db, d, cmd) = GenericRpoplpush(db, s, t)
      BY <2>4, Zenon DEF Handler, CollectionOps
    <3> HIDE DEF s, t
    <3>2. /\ Contents(Handler(db, d, cmd).db, {s, t}) = Contents(db, {s, t})
          /\ Cardinality(Places(Handler(db, d, cmd).db, {s, t})) = Cardinality(Places(db, {s, t}))
      BY <1>1, <2>2, <3>1, RpoplpushConserves
    <3> QED
      BY <3>2, Zenon DEF s, t
  <2> QED
    BY <2>3, <2>4
<1>2. TypeOK => ((\A s \in Slots : ~IsExpired(db, s)) => MoveConserves)
  BY <1>1 DEF TypeOK, Fresh
<1>3. Spec => []TypeOK
  BY TypeCorrect
<1>4. Spec => []((\A s \in Slots : ~IsExpired(db, s)) => MoveConserves)
  BY <1>2, <1>3, PTL
<1>5. ASSUME NoExpirations
      PROVE  Spec => []MoveConserves
  <2>1. KeyInv => MoveConserves
    BY <1>1, <1>5, NeverExpired DEF KeyInv, TypeInv, TypeOK
  <2>2. NoTransfers \/ NoExpirations
    BY <1>5
  <2>3. Spec => []KeyInv
    BY <2>2, KeyInit, KeyStep, PTL DEF Spec
  <2> QED
    BY <2>1, <2>3, PTL
<1> QED
  BY <1>4, <1>5
=============================================================================
