--------------------------- MODULE CommandsProofs ---------------------------
(***************************************************************************)
(* Lemmas about the methods of Database and the handlers of Collections    *)
(* and Commands: each leaves a record of type DB behind.  A handler of one *)
(* key of Collections ends in one of a few ways (OneSlot), of which what   *)
(* the other modules prove about handlers follows once for all of them.    *)
(***************************************************************************)
EXTENDS Commands, WellFoundedInduction, TLAPS

-----------------------------------------------------------------------------
(* Values *)

\* What a value holds, as a list, a set or a hash, is of the right kind; a value of
\* another type holds nothing.
LEMMA ValueCases ==
    ASSUME NEW v \in Value \cup {NoValue}
    PROVE  /\ NoValue \notin Value
           /\ v # NoValue /\ Listable(v) => v = Nil \/ v \in Lists
           /\ Elements(v) \in Seq(Elems)
           /\ Members(v) \in SUBSET Elems
           /\ Fields(v) \in FieldMap
<1>1. /\ NoValue \notin Value
      /\ v # NoValue /\ Listable(v) => v = Nil \/ v \in Lists
  BY DEF Value, NoValue, Nil, Strings, Lists, Sets, Hashes, Listable
<1>2. Elements(v) \in Seq(Elems)
  BY DEF Value, NoValue, Nil, Strings, Lists, Sets, Hashes, Elements
<1>3. Members(v) \in SUBSET Elems
  BY DEF Value, NoValue, Nil, Strings, Lists, Sets, Hashes, Members
<1>4. Fields(v) \in FieldMap
  <2>1. <<>> \in FieldMap
    <3>1. <<>> \in [{} -> StringVal]
      OBVIOUS
    <3> QED
      BY <3>1, Zenon DEF FieldMap
  <2>2. v \in Hashes => v.fields \in FieldMap
    BY DEF Hashes
  <2>3. v.type = "hash" => v \in Hashes
    BY DEF Value, NoValue, Nil, Strings, Lists, Sets, Hashes
  <2> QED
    BY <2>1, <2>2, <2>3 DEF Fields
<1> QED
  BY <1>1, <1>2, <1>3, <1>4

\* The values that sets and hashes are rebuilt as.
LEMMA CollectionType ==
    ASSUME NEW S \in SUBSET Elems, NEW f \in FieldMap, NEW l \in Seq(Elems)
    PROVE  SetOf(S) \in Value /\ HashOf(f) \in Value /\ List(l) \in Value
BY DEF SetOf, HashOf, List, Value, Sets, Hashes, Lists

\* Fields added to a hash, and fields taken away, leave a map of fields.
LEMMA WithType ==
    ASSUME NEW f \in FieldMap, NEW g \in FieldMap, NEW es \in SUBSET Elems
    PROVE  /\ With(f, g) \in FieldMap
           /\ [e \in DOMAIN f \ es |-> f[e]] \in FieldMap
<1>1. /\ DOMAIN f \in SUBSET Elems /\ f \in [DOMAIN f -> StringVal]
      /\ DOMAIN g \in SUBSET Elems /\ g \in [DOMAIN g -> StringVal]
  BY DEF FieldMap
<1>2. With(f, g) \in [DOMAIN f \cup DOMAIN g -> StringVal]
  BY <1>1 DEF With
<1>3. [e \in DOMAIN f \ es |-> f[e]] \in [DOMAIN f \ es -> StringVal]
  BY <1>1
<1>4. ASSUME NEW K \in SUBSET Elems, NEW h \in [K -> StringVal]
      PROVE  h \in FieldMap
  BY <1>4 DEF FieldMap
<1> QED
  BY <1>1, <1>2, <1>3, <1>4

\* push and pop of a listable value leave a list.
LEMMA PushType ==
    ASSUME NEW v \in Value, Listable(v), NEW es \in Seq(Elems), NEW right \in BOOLEAN
    PROVE  PushValue(v, es, right) \in Lists
<1>1. Elements(v) \in Seq(Elems)
  BY ValueCases
<1>2. [i \in 1 .. Len(es) |-> es[Len(es) + 1 - i]] \in Seq(Elems)
  <2>1. \A i \in 1 .. Len(es) : es[Len(es) + 1 - i] \in Elems
    OBVIOUS
  <2> QED
    BY <2>1
<1> QED
  BY <1>1, <1>2 DEF PushValue, List, Lists

\* Value::pop of a list with an element returns an element and leaves a list.
LEMMA PopType ==
    ASSUME NEW v \in Value, Listable(v), Elements(v) # <<>>, NEW right \in BOOLEAN
    PROVE  /\ v \in Lists
           /\ PopValue(v, right) \in Lists
           /\ Popped(v, right) \in Elems
<1>1. v \in Lists /\ v.elems \in Seq(Elems) /\ v.elems # <<>>
  BY ValueCases DEF Elements, Nil, Lists
<1>2. SubSeq(v.elems, 1, Len(v.elems) - 1) \in Seq(Elems) /\ Tail(v.elems) \in Seq(Elems)
  BY <1>1
<1>3. Head(v.elems) \in Elems /\ v.elems[Len(v.elems)] \in Elems
  BY <1>1
<1> QED
  BY <1>1, <1>2, <1>3 DEF PopValue, Popped, List, Lists

\* incr leaves an integer string of the width of i64.
LEMMA IncrType ==
    ASSUME NEW v \in Value, NEW n \in Ints, ~IncrFails(v, n)
    PROVE  IncrValue(v, n) \in Strings
<1>1. (IF v = Nil THEN n ELSE v.int + n) \in StringVal
  BY DEF IncrFails, StringVal
<1> QED
  BY <1>1 DEF IncrValue, Counter, Strings

-----------------------------------------------------------------------------
(* Methods of Database *)

\* Database::remove leaves a well-typed record.
LEMMA RemoveType ==
    ASSUME NEW db \in DB, NEW s \in Slots
    PROVE  Remove(db, s) \in DB
BY DEF Remove, DB

\* Database::get_mut leaves a well-typed record.
LEMMA GetMutType ==
    ASSUME NEW db \in DB, NEW s \in Slots
    PROVE  GetMut(db, s) \in DB
BY RemoveType DEF GetMut

\* A value written through the reference that get_or_create returned is in its
\* place.
LEMMA StoreType ==
    ASSUME NEW db \in DB, NEW s \in Slots, NEW v \in Value
    PROVE  /\ Store(db, s, v) \in DB
           /\ Store(db, s, v).data[s] = v
BY DEF Store, DB

\* get_or_create leaves a value in the slot.
LEMMA GetOrCreateType ==
    ASSUME NEW db \in DB, NEW s \in Slots
    PROVE  /\ GetOrCreate(db, s) \in DB
           /\ GetOrCreate(db, s).data[s] \in Value
<1>1. Nil \in Value
  BY DEF Value
<1> QED
  BY <1>1 DEF GetOrCreate, DB

\* Database::key_updated leaves a well-typed record.
LEMMA KeyUpdatedType ==
    ASSUME NEW db \in DB, NEW s \in Slots
    PROVE  KeyUpdated(db, s) \in DB
<1> DEFINE kept == IF IsEmpty(db.data[s]) THEN Remove(db, s) ELSE db
<1>1. kept \in DB
  BY RemoveType
<1>2. [kept EXCEPT !.sent = @ \cup db.subs[s], !.subs[s] = {}, !.watched[s] = {}] \in DB
  <2>1. db.subs[s] \in SUBSET Clients
    BY DEF DB
  <2> HIDE DEF kept
  <2> QED
    BY <1>1, <2>1 DEF DB
<1> QED
  BY <1>2 DEF KeyUpdated

\* Database::set_msexpiration leaves a well-typed record, for a deadline in the
\* past too.
LEMMA SetMsexpirationType ==
    ASSUME NEW db \in DB, NEW s \in Slots, NEW t \in Int
    PROVE  SetMsexpiration(db, s, t) \in DB
<1>1. KeyUpdated(db, s) \in DB
  BY KeyUpdatedType
<1> QED
  BY <1>1 DEF SetMsexpiration, DB

\* Database::clear, over one database or all of them, leaves a well-typed
\* record.
LEMMA ClearType ==
    ASSUME NEW db \in DB, NEW S \in SUBSET Slots
    PROVE  Clear(db, S) \in DB
<1> DEFINE updated == {s \in S : db.watched[s] # {} /\ db.data[s] # NoValue}
           data  == [s \in Slots |-> IF s \in S THEN NoValue ELSE db.data[s]]
           exp   == [s \in Slots |-> IF s \in S THEN NoExp ELSE db.exp[s]]
           watched == [s \in Slots |-> IF s \in updated THEN {} ELSE db.watched[s]]
           subs  == [s \in Slots |-> IF s \in updated THEN {} ELSE db.subs[s]]
           woken == UNION {db.subs[s] : s \in updated}
<1>1. /\ data \in [Slots -> Value \cup {NoValue}]
      /\ exp \in [Slots -> Int \cup {NoExp}]
  BY DEF DB
<1>2. /\ watched \in [Slots -> SUBSET Clients]
      /\ subs \in [Slots -> SUBSET Clients]
  BY DEF DB
<1>3. woken \in SUBSET Clients
  <2>1. \A s \in updated : db.subs[s] \in SUBSET Clients
    BY DEF DB
  <2> HIDE DEF updated
  <2> QED
    BY <2>1
<1>4. Clear(db, S) = [db EXCEPT !.data = data, !.exp = exp, !.watched = watched,
                                !.subs = subs, !.sent = @ \cup woken]
  BY Zenon DEF Clear
<1> HIDE DEF data, exp, watched, subs, woken
<1> QED
  BY <1>1, <1>2, <1>3, <1>4 DEF DB

\* What the hz thread removes leaves a well-typed record.
LEMMA RemoveAllType ==
    ASSUME NEW db \in DB, NEW S \in SUBSET Slots
    PROVE  RemoveAll(db, S) \in DB
BY DEF RemoveAll, DB

\* Database::get returns a value or none.
LEMMA GetType ==
    ASSUME NEW db \in DB, NEW s \in Slots
    PROVE  Get(db, s) \in Value \cup {NoValue}
BY DEF Get, DB

\* get_or_create, an assignment and key_updated: how most writes go.
LEMMA WriteType ==
    ASSUME NEW db \in DB, NEW s \in Slots, NEW v \in Value
    PROVE  KeyUpdated(Store(GetOrCreate(db, s), s, v), s) \in DB
<1>1. GetOrCreate(db, s) \in DB
  BY GetOrCreateType
<1>2. Store(GetOrCreate(db, s), s, v) \in DB
  BY <1>1, StoreType
<1> QED
  BY <1>2, KeyUpdatedType

\* A non-empty set of positions has a smallest one.
LEMMA FirstExists ==
    ASSUME NEW S, S \subseteq Nat, S # {}
    PROVE  LET first == CHOOSE i \in S : \A j \in S : i <= j
           IN first \in S /\ \A j \in S : first <= j
<1>1. PICK i \in S : \A j \in S : ~(<<j, i>> \in OpToRel(<, Nat))
  BY NatLessThanWellFounded, WFMin, Zenon
<1>2. \A j \in S : i <= j
  <2> SUFFICES ASSUME NEW j \in S
               PROVE  i <= j
    OBVIOUS
  <2>1. i \in Nat /\ j \in Nat
    OBVIOUS
  <2>2. j < i => <<j, i>> \in OpToRel(<, Nat)
    <3>1. <<j, i>> \in Nat \X Nat
      BY <2>1
    <3> QED
      BY <3>1, Zenon DEF OpToRel
  <2>3. ~(j < i)
    BY <1>1, <2>2
  <2> QED
    BY <2>1, <2>3
<1> QED
  BY <1>2

-----------------------------------------------------------------------------
(* How a handler of one key ends *)

\* The record after the methods that return a reference to the value
Opened(d, s) == {d, GetMut(d, s), GetOrCreate(d, s), GetOrCreate(GetMut(d, s), s)}

\* Left by an early return: as it was, without the expired value, or with a value that
\* get_or_create found, expired or not.  No early return leaves one it made.
Quiet(d, s) == {d, GetMut(d, s)}
Found(d, s) == IF d.data[s] = NoValue THEN {} ELSE {GetOrCreate(d, s)}

\* Reported as updated, or assigned to and reported as updated
Reported(d, s) ==
    {KeyUpdated(o, s) : o \in Opened(d, s)}
    \cup {KeyUpdated(Store(o, s, v), s) : o \in Opened(d, s), v \in Value}

OneSlot(d, s) == Quiet(d, s) \cup Found(d, s) \cup Reported(d, s)

\* Left with an error: nothing was assigned
Failed(d, s) ==
    Quiet(d, s) \cup Found(d, s) \cup {KeyUpdated(o, s) : o \in Quiet(d, s) \cup Found(d, s)}

\* How the result r of a handler of slot s follows from the record d; Told: without an
\* early return that leaves a value found by get_or_create.
Ends(d, s, r) ==
    /\ r.db \in OneSlot(d, s)
    /\ r.reply = "error" => r.db \in Failed(d, s)
EndsTold(d, s, r) ==
    /\ r.db \in Quiet(d, s) \cup Reported(d, s)
    /\ r.reply = "error" => r.db \in Failed(d, s)

\* What get_mut and get_or_create leave is well typed.
LEMMA OpenedType ==
    ASSUME NEW db \in DB, NEW s \in Slots, NEW o \in Opened(db, s)
    PROVE  /\ o \in DB
           /\ o.data[s] \in Value \cup {NoValue}
<1>1. o \in DB
  BY GetMutType, GetOrCreateType DEF Opened
<1> QED
  BY <1>1 DEF DB

\* What an early return leaves was opened.
LEMMA FoundOpened ==
    ASSUME NEW db, NEW s, NEW o \in Quiet(db, s) \cup Found(db, s)
    PROVE  o \in Opened(db, s)
BY DEF Quiet, Found, Opened

\* So is the record a handler of one key leaves.
LEMMA OneSlotType ==
    ASSUME NEW db \in DB, NEW s \in Slots, NEW r \in OneSlot(db, s)
    PROVE  r \in DB
<1>1. \A o \in Opened(db, s) : /\ o \in DB
                               /\ KeyUpdated(o, s) \in DB
                               /\ \A v \in Value : KeyUpdated(Store(o, s, v), s) \in DB
  BY OpenedType, StoreType, KeyUpdatedType
<1> QED
  BY <1>1, FoundOpened DEF OneSlot, Reported

\* get_or_create fails to give a nil only for a value that was there.
LEMMA FoundValue ==
    ASSUME NEW db \in DB, NEW s \in Slots, GetOrCreate(db, s).data[s] # Nil
    PROVE  GetOrCreate(db, s) \in Found(db, s)
BY DEF GetOrCreate, Found, DB

\* An early return is an end, with any reply.
LEMMA EarlyEnds ==
    ASSUME NEW db, NEW s, NEW reply
    PROVE  /\ \A o \in Quiet(db, s) : EndsTold(db, s, Result(reply, o))
           /\ \A o \in Found(db, s) : Ends(db, s, Result(reply, o))
BY DEF Ends, EndsTold, Failed, OneSlot, Result

\* A failing handler may report a slot it only looked at, as most list commands do.
LEMMA ReportEnds ==
    ASSUME NEW db, NEW s, NEW reply
    PROVE  /\ \A o \in Quiet(db, s) \cup Found(db, s) : EndsTold(db, s, Result(reply, KeyUpdated(o, s)))
           /\ reply # "error" =>
                \A o \in Opened(db, s) : EndsTold(db, s, Result(reply, KeyUpdated(o, s)))
BY FoundOpened DEF EndsTold, Failed, Reported, Result

\* A handler that assigned a value reports it.
LEMMA AssignEnds ==
    ASSUME NEW db, NEW s, NEW reply, reply # "error",
           NEW o \in Opened(db, s), NEW v \in Value
    PROVE  EndsTold(db, s, Result(reply, KeyUpdated(Store(o, s, v), s)))
BY DEF EndsTold, Reported, Result

\* One of these sets of ends holds the other.
LEMMA ToldEnds ==
    ASSUME NEW db, NEW s, NEW r, EndsTold(db, s, r)
    PROVE  Ends(db, s, r)
BY DEF Ends, EndsTold, OneSlot

\* So a handler that ends in one of these ways leaves a well-typed record.
LEMMA EndsType ==
    ASSUME NEW db \in DB, NEW s \in Slots, NEW r, EndsTold(db, s, r)
    PROVE  r.db \in DB
BY ToldEnds, OneSlotType DEF Ends

\* SADD ends in one of these ways.
LEMMA SaddEnds ==
    ASSUME NEW db \in DB, NEW s \in Slots, NEW es \in SUBSET Elems
    PROVE  Ends(db, s, Sadd(db, s, es))
<1> DEFINE created == GetOrCreate(db, s)
           v == created.data[s]
<1>1. created \in Opened(db, s)
  BY DEF Opened
<1>2. Members(v) \cup es \in SUBSET Elems
  BY <1>1, OpenedType, ValueCases
<1>3. SetOf(Members(v) \cup es) \in Value
  BY <1>2 DEF SetOf, Value, Sets
<1>4. ~Settable(v) => created \in Found(db, s)
  BY FoundValue DEF Settable, Nil
<1> HIDE DEF created, v
<1>5. Sadd(db, s, es) =
        IF ~Settable(v) THEN Result("error", created)
        ELSE Result("ok", KeyUpdated(Store(created, s, SetOf(Members(v) \cup es)), s))
  BY DEF Sadd, created, v
<1> QED
  BY <1>1, <1>3, <1>4, <1>5, EarlyEnds, AssignEnds, ToldEnds

\* SREM ends in one of these ways.
LEMMA SremEnds ==
    ASSUME NEW db \in DB, NEW s \in Slots, NEW es \in SUBSET Elems
    PROVE  Ends(db, s, Srem(db, s, es))
<1> DEFINE created == GetOrCreate(db, s)
           v == created.data[s]
<1>1. created \in Opened(db, s) /\ v \in Value
  BY GetOrCreateType DEF Opened
<1>2. v.type = "set" => SetOf(v.members \ es) \in Value
  <2>1. v.type = "set" => v.members = Members(v)
    BY DEF Members
  <2> HIDE DEF v
  <2>2. Members(v) \ es \in SUBSET Elems
    BY <1>1, ValueCases
  <2> QED
    BY <2>1, <2>2 DEF SetOf, Value, Sets
<1>3. ~Settable(v) => created \in Found(db, s)
  BY FoundValue DEF Settable, Nil
<1> HIDE DEF created, v
<1>4. Settable(v) => v = Nil \/ v.type = "set"
  BY <1>1 DEF Settable, Value, Nil, Strings, Lists, Sets, Hashes
<1>5. v = Nil => v.type # "set" /\ Settable(v)
  BY DEF Nil, Settable
<1>6. v.type = "set" => Settable(v)
  BY DEF Settable
<1>7. Srem(db, s, es) =
        CASE ~Settable(v) -> Result("error", created)
          [] v = Nil -> Result("ok", KeyUpdated(created, s))
          [] v.type = "set" -> Result("ok", KeyUpdated(Store(created, s, SetOf(v.members \ es)), s))
  BY Zenon DEF Srem, created, v
<1> QED
  BY <1>1, <1>2, <1>3, <1>4, <1>5, <1>6, <1>7, EarlyEnds, ReportEnds, AssignEnds, ToldEnds

\* SPOP ends in one of these ways, whatever is drawn.
LEMMA SpopEnds ==
    ASSUME NEW db \in DB, NEW s \in Slots, NEW count, NEW rank
    PROVE  EndsTold(db, s, Spop(db, s, count, rank))
<1> DEFINE opened == GetMut(db, s)
           v == opened.data[s]
           M == Members(v) \ Drawn(Members(v), count, rank)
           left == SetOf(M)
           reply == IF v = Nil THEN "nil" ELSE "error"
<1>1. opened \in Opened(db, s) /\ opened \in Quiet(db, s)
  BY DEF Opened, Quiet
<1>2. left \in Value
  <2>1. Members(v) \in SUBSET Elems
    BY <1>1, OpenedType, ValueCases
  <2>2. M \in SUBSET Elems
    BY <2>1
  <2> HIDE DEF M
  <2> QED
    BY <2>2 DEF SetOf, Value, Sets
<1> HIDE DEF opened, v, left, reply
<1>3. Spop(db, s, count, rank) =
        CASE v = NoValue -> Result("nil", opened)
          [] v.type = "set" -> Result("ok", KeyUpdated(Store(opened, s, left), s))
          [] v # NoValue /\ v.type # "set" -> Result(reply, KeyUpdated(opened, s))
  BY Zenon DEF Spop, opened, v, left, reply
<1>4. v = NoValue => v.type # "set"
  BY DEF NoValue
<1> QED
  BY <1>1, <1>2, <1>3, <1>4, EarlyEnds, ReportEnds, AssignEnds

\* SDIFFSTORE, SINTERSTORE and SUNIONSTORE leave everything as it was, or end so
\* after the destination was removed.
LEMMA SetStoreEnds ==
    ASSUME NEW db \in DB, NEW d \in Dbs, NEW op \in {"sdiffstore", "sinterstore", "sunionstore"},
           NEW dest \in Keys, NEW keys \in Seq(Keys), keys # <<>>
    PROVE  LET r == SetStore(db, d, op, dest, keys)
           IN \/ r.db = db
              \/ r.reply # "error" /\ r.db \in Reported(Remove(db, <<d, dest>>), <<d, dest>>)
<1> DEFINE s == <<d, dest>>
           vals == [i \in DOMAIN keys |-> Operand(db, <<d, keys[i]>>)]
           created == GetOrCreate(Remove(db, s), s)
           S == Combined(op, vals)
<1>1. \A i \in DOMAIN vals : Members(vals[i]) \in SUBSET Elems
  <2> SUFFICES ASSUME NEW i \in DOMAIN keys
               PROVE  Members(vals[i]) \in SUBSET Elems
    OBVIOUS
  <2>1. <<d, keys[i]>> \in Slots
    BY DEF Slots
  <2>2. Operand(db, <<d, keys[i]>>) \in Value
    BY <2>1, GetType DEF Operand, Value
  <2> QED
    BY <2>2, ValueCases
<1>2. 1 \in DOMAIN vals
  OBVIOUS
<1> HIDE DEF vals
<1>3. S \in SUBSET Elems
  BY <1>1, <1>2 DEF Combined
<1>4. SetOf(S) \in Value
  BY <1>3 DEF SetOf, Value, Sets
<1>5. created \in Opened(Remove(db, s), s)
  BY DEF Opened
<1>6. SetStore(db, d, op, dest, keys) =
        IF op = "sdiffstore" /\ vals[1] = Nil THEN Result("ok", db)
        ELSE IF CombineFails(op, vals) THEN Result("error", db)
        ELSE Result("ok", KeyUpdated(Store(created, s, SetOf(S)), s))
  BY Zenon DEF SetStore, ReplaceBySet, vals
<1> HIDE DEF created, S, s
<1>7. KeyUpdated(Store(created, s, SetOf(S)), s) \in Reported(Remove(db, s), s)
  BY <1>4, <1>5 DEF Reported
<1> QED
  BY <1>6, <1>7 DEF Result, s

\* HSET and HMSET end in one of these ways.
LEMMA HsetEnds ==
    ASSUME NEW db, NEW s \in Slots, NEW o \in DB, NEW g \in FieldMap,
           GetOrCreate(o, s) \in Opened(db, s)
    PROVE  /\ o = db => Ends(db, s, Hset(o, s, g))
           /\ o.data[s] = NoValue => EndsTold(db, s, Hset(o, s, g))
<1> DEFINE created == GetOrCreate(o, s)
           v == created.data[s]
           new == HashOf(With(Fields(v), g))
<1>1. new \in Value
  BY GetOrCreateType, ValueCases, WithType, CollectionType
<1>2. ~Hashable(v) => created \in Found(o, s)
  BY FoundValue DEF Hashable, Nil
<1>3. created \in Opened(db, s)
  OBVIOUS
<1> HIDE DEF created, v, new
<1>4. Hset(o, s, g) =
        IF ~Hashable(v) THEN Result("error", created)
        ELSE Result("ok", KeyUpdated(Store(created, s, new), s))
  BY Zenon DEF Hset, created, v, new
<1>5. o.data[s] = NoValue => Found(o, s) = {}
  BY DEF Found
<1> QED
  BY <1>1, <1>2, <1>3, <1>4, <1>5, EarlyEnds, AssignEnds, ToldEnds

\* One field is a map of fields.
LEMMA FieldType ==
    ASSUME NEW e \in Elems, NEW x \in StringVal
    PROVE  Field(e, x) \in FieldMap
<1>1. Field(e, x) \in [{e} -> StringVal] /\ {e} \in SUBSET Elems
  BY DEF Field
<1> QED
  BY <1>1 DEF FieldMap

\* HSETNX ends in one of these ways; a missing key is left to HSET.
LEMMA HsetnxEnds ==
    ASSUME NEW db \in DB, NEW s \in Slots, NEW e \in Elems, NEW x \in StringVal
    PROVE  EndsTold(db, s, Hsetnx(db, s, e, x))
<1> DEFINE opened == GetMut(db, s)
           v == opened.data[s]
           new == HashOf(With(Fields(v), Field(e, x)))
<1>1. opened \in Opened(db, s) /\ opened \in Quiet(db, s) /\ opened \in DB
  BY GetMutType DEF Opened, Quiet
<1>2. new \in Value
  BY <1>1, OpenedType, ValueCases, FieldType, WithType, CollectionType
<1>3. v = NoValue => EndsTold(db, s, Hset(opened, s, Field(e, x)))
  BY <1>1, FieldType, HsetEnds DEF Opened
<1> HIDE DEF opened, v, new
<1>4. Hsetnx(db, s, e, x) =
        IF v = NoValue THEN Hset(opened, s, Field(e, x))
        ELSE IF ~Hashable(v) THEN Result("error", opened)
        ELSE IF e \in DOMAIN Fields(v) THEN Result("ok", opened)
        ELSE Result("ok", KeyUpdated(Store(opened, s, new), s))
  BY Zenon DEF Hsetnx, opened, v, new
<1> QED
  BY <1>1, <1>2, <1>3, <1>4, EarlyEnds, AssignEnds

\* HDEL ends in one of these ways.
LEMMA HdelEnds ==
    ASSUME NEW db \in DB, NEW s \in Slots, NEW es \in SUBSET Elems
    PROVE  EndsTold(db, s, Hdel(db, s, es))
<1> DEFINE opened == GetMut(db, s)
           v == opened.data[s]
           new == HashOf([e \in DOMAIN Fields(v) \ es |-> Fields(v)[e]])
<1>1. opened \in Opened(db, s) /\ opened \in Quiet(db, s)
  BY DEF Opened, Quiet
<1>2. v \in Value \cup {NoValue}
  BY <1>1, OpenedType
<1> HIDE DEF opened, v
<1>3. new \in Value
  BY <1>2, ValueCases, WithType, CollectionType
<1> HIDE DEF new
<1>4. v = NoValue \/ v = Nil \/ v.type = "hash" \/ (v # NoValue /\ ~Hashable(v))
  BY <1>2 DEF Hashable, Value, Nil, Strings, Lists, Sets, Hashes
<1>5. Hdel(db, s, es) =
        CASE v = NoValue -> Result("ok", opened)
          [] v = Nil -> Result("ok", KeyUpdated(opened, s))
          [] v.type = "hash" -> Result("ok", KeyUpdated(Store(opened, s, new), s))
          [] v # NoValue /\ ~Hashable(v) -> Result("error", opened)
  BY Zenon DEF Hdel, opened, v, new
<1> QED
  BY <1>1, <1>3, <1>4, <1>5, EarlyEnds, ReportEnds, AssignEnds

\* HINCRBY ends in one of these ways; a sum that it stores has the width of i64.
LEMMA HincrbyEnds ==
    ASSUME NEW db \in DB, NEW s \in Slots, NEW e \in Elems, NEW n \in Ints
    PROVE  Ends(db, s, Hincrby(db, s, e, n))
<1> DEFINE created == GetOrCreate(db, s)
           v == created.data[s]
           sum == IF Counted(Fields(v), e) THEN Fields(v)[e] + n ELSE n
           new == HashOf(With(Fields(v), Field(e, sum)))
<1>1. created \in Opened(db, s)
  BY DEF Opened
<1>2. Fields(v) \in FieldMap
  BY <1>1, OpenedType, ValueCases
<1> HIDE DEF created, v
<1>3. sum \in Ints => new \in Value
  <2> SUFFICES ASSUME sum \in Ints
               PROVE  new \in Value
    OBVIOUS
  <2>1. sum \in StringVal
    BY DEF StringVal
  <2> HIDE DEF sum
  <2>2. Field(e, sum) \in FieldMap
    BY <2>1, FieldType
  <2>3. With(Fields(v), Field(e, sum)) \in FieldMap
    BY <1>2, <2>2, WithType
  <2> QED
    BY <2>3 DEF HashOf, Value, Hashes
<1>4. ~Hashable(v) \/ sum \notin Ints => created \in Found(db, s)
  <2>1. v = Nil => Hashable(v) /\ sum = n
    BY DEF Hashable, Nil, Counted, Fields
  <2>2. v # Nil => created \in Found(db, s)
    BY FoundValue DEF created, v
  <2> QED
    BY <2>1, <2>2
<1> HIDE DEF new, sum
<1>5. Hincrby(db, s, e, n) =
        IF ~Hashable(v) \/ sum \notin Ints THEN Result("error", created)
        ELSE Result("ok", KeyUpdated(Store(created, s, new), s))
  BY Zenon DEF Hincrby, created, v, sum, new
<1> QED
  BY <1>1, <1>3, <1>4, <1>5, EarlyEnds, AssignEnds, ToldEnds

\* LINSERT leaves a list.
LEMMA InsertedType ==
    ASSUME NEW l \in Seq(Elems), NEW e \in Elems, NEW pivot, NEW before
    PROVE  Inserted(l, before, pivot, e).elems \in Seq(Elems)
<1> DEFINE at == {k \in DOMAIN l : l[k] = pivot}
           first == CHOOSE k \in at : \A m \in at : k <= m
           pos == IF before THEN first - 1 ELSE first
           new == SubSeq(l, 1, pos) \o <<e>> \o SubSeq(l, pos + 1, Len(l))
<1>1. CASE at = {}
  BY <1>1 DEF Inserted
<1>2. CASE at # {}
  <2>1. at \subseteq Nat /\ at \subseteq DOMAIN l
    OBVIOUS
  <2>2. first \in DOMAIN l
    <3> HIDE DEF at
    <3> QED
      BY <1>2, <2>1, FirstExists
  <2> HIDE DEF at, first
  <2>3. pos \in 0 .. Len(l)
    BY <2>2
  <2> HIDE DEF pos
  <2>4. SubSeq(l, 1, pos) \in Seq(Elems) /\ SubSeq(l, pos + 1, Len(l)) \in Seq(Elems)
    BY <2>3
  <2>5. new \in Seq(Elems)
    BY <2>4
  <2> HIDE DEF new
  <2>6. Inserted(l, before, pivot, e) =
          [reply |-> "ok", elems |-> IF at = {} THEN l ELSE new]
    BY Zenon DEF Inserted, at, first, pos, new
  <2> QED
    BY <1>2, <2>5, <2>6
<1> QED
  BY <1>1, <1>2

\* So does LSET.
LEMMA ReplacedType ==
    ASSUME NEW l \in Seq(Elems), NEW i \in Int, NEW e \in Elems
    PROVE  Replaced(l, i, e).elems \in Seq(Elems)
<1> DEFINE pos == Position(i, Len(l))
<1>1. pos \in 0 .. Len(l) - 1 => [l EXCEPT ![pos + 1] = e] \in Seq(Elems)
  <2> HIDE DEF pos
  <2> QED
    OBVIOUS
<1> QED
  BY <1>1 DEF Replaced

\* And LTRIM.
LEMMA TrimmedType ==
    ASSUME NEW l \in Seq(Elems), NEW i \in Int, NEW j \in Int
    PROVE  Trimmed(l, i, j).elems \in Seq(Elems)
<1> DEFINE from == IF Position(i, Len(l)) < 0 THEN 0 ELSE Position(i, Len(l))
           to == IF Position(j, Len(l)) >= Len(l) THEN Len(l) - 1 ELSE Position(j, Len(l))
<1>1. from \in Nat /\ to \in Int /\ to + 1 <= Len(l)
  BY DEF Position
<1> HIDE DEF from, to
<1>2. SubSeq(l, from + 1, to + 1) \in Seq(Elems)
  BY <1>1
<1>3. Trimmed(l, i, j) =
        IF from >= Len(l) \/ to < 0 THEN [reply |-> "ok", elems |-> <<>>]
        ELSE IF from > to + 1 THEN [reply |-> "panic", elems |-> l]
        ELSE [reply |-> "ok", elems |-> SubSeq(l, from + 1, to + 1)]
  BY Zenon DEF Trimmed, from, to
<1> QED
  BY <1>2, <1>3

\* LINSERT, LSET and LTRIM end in one of these ways; a panic leaves the record alone,
\* and LSET out of range stores the list it found.
LEMMA OnListEnds ==
    ASSUME NEW db \in DB, NEW s \in Slots, NEW absent, NEW r, r.elems \in Seq(Elems),
           r.reply = "error" => r.elems = ListAt(db, s)
    PROVE  EndsTold(db, s, OnList(db, s, absent, r))
<1> DEFINE opened == GetMut(db, s)
           v == opened.data[s]
           new == List(r.elems)
<1>1. opened \in Opened(db, s) /\ opened \in Quiet(db, s) /\ db \in Quiet(db, s)
  BY DEF Opened, Quiet
<1>2. new \in Value
  BY DEF List, Value, Lists
<1>3. v = NoValue => v.type # "list"
  BY DEF NoValue
<1>4. v.type = "list" /\ r.reply = "error" => Store(opened, s, new) = opened
  <2> SUFFICES ASSUME v.type = "list", r.reply = "error"
               PROVE  Store(opened, s, new) = opened
    OBVIOUS
  <2>1. opened \in DB /\ v \in Value \cup {NoValue}
    BY <1>1, OpenedType
  <2>2. new = List(v.elems)
    BY DEF ListAt, Elements
  <2> HIDE DEF opened, v, new
  <2>3. new = v
    BY <2>1, <2>2 DEF List, Value, NoValue, Nil, Strings, Lists, Sets, Hashes
  <2> QED
    BY <2>1, <2>3 DEF Store, DB, v
<1> HIDE DEF opened, v, new
<1>5. OnList(db, s, absent, r) =
        CASE v = NoValue -> Result(absent, KeyUpdated(opened, s))
          [] v.type = "list" /\ r.reply = "panic" -> Result("panic", db)
          [] v.type = "list" /\ r.reply # "panic" ->
               Result(r.reply, KeyUpdated(Store(opened, s, new), s))
          [] v # NoValue /\ v.type # "list" -> Result("error", KeyUpdated(opened, s))
  BY Zenon DEF OnList, opened, v, new
<1>6. v.type = "list" /\ r.reply # "panic" =>
         EndsTold(db, s, Result(r.reply, KeyUpdated(Store(opened, s, new), s)))
  BY <1>1, <1>2, <1>4, ReportEnds, AssignEnds
<1> QED
  BY <1>1, <1>3, <1>5, <1>6, EarlyEnds, ReportEnds

\* The list that LINSERT, LSET and LTRIM change has the elements of a list.
LEMMA ListAtType ==
    ASSUME NEW db \in DB, NEW s \in Slots
    PROVE  ListAt(db, s) \in Seq(Elems)
<1>1. GetMut(db, s) \in Opened(db, s)
  BY DEF Opened
<1> QED
  BY <1>1, OpenedType, ValueCases DEF ListAt

-----------------------------------------------------------------------------
(* Handlers of several keys *)

\* SMOVE: what it does when the member is there, step by step.
LEMMA SmoveType ==
    ASSUME NEW db \in DB, NEW src \in Slots, NEW dst \in Slots, NEW e \in Elems
    PROVE  Smove(db, src, dst, e).db \in DB
<1> DEFINE target  == Get(db, dst)
           opened  == GetMut(db, src)
           v       == opened.data[src]
           taken   == Store(opened, src, SetOf(Members(v) \ {e}))
           created == GetOrCreate(taken, dst)
           w       == created.data[dst]
           added   == Store(created, dst, SetOf(Members(w) \cup {e}))
           moved   == KeyUpdated(KeyUpdated(added, src), dst)
<1>1. opened \in DB /\ v \in Value \cup {NoValue}
  <2>1. opened \in Opened(db, src)
    BY DEF Opened
  <2> QED
    BY <2>1, OpenedType
<1> HIDE DEF opened, v
<1>2. SetOf(Members(v) \ {e}) \in Value
  BY <1>1, ValueCases DEF SetOf, Value, Sets
<1>3. created \in DB /\ w \in Value
  <2>1. taken \in DB
    BY <1>1, <1>2, StoreType
  <2> HIDE DEF taken
  <2> QED
    BY <2>1, GetOrCreateType
<1> HIDE DEF taken, created, w
<1>4. SetOf(Members(w) \cup {e}) \in Value
  BY <1>3, ValueCases DEF SetOf, Value, Sets
<1>5. moved \in DB
  BY <1>3, <1>4, StoreType, KeyUpdatedType
<1> HIDE DEF added, moved, target
<1>6. Smove(db, src, dst, e) =
        IF target # NoValue /\ target.type # "set" THEN Result("error", db)
        ELSE IF v = NoValue THEN Result("ok", opened)
        ELSE IF ~Settable(v) THEN Result("error", opened)
        ELSE IF e \notin Members(v) THEN Result("ok", opened)
        ELSE IF ~Settable(w) THEN Result("panic", db)
        ELSE Result("ok", moved)
  BY Zenon DEF Smove, target, opened, v, taken, created, w, added, moved
<1> QED
  BY <1>1, <1>5, <1>6 DEF Result

\* The slots of the keys K of database d
KeySlots(d, K) == {<<d, k>> : k \in K}

\* MSET changes the slots of its keys and what is registered for them.
LEMMA MsetFields ==
    ASSUME NEW db \in DB, NEW d \in Dbs, NEW K \in SUBSET Keys, NEW vals \in [K -> StringVal]
    PROVE  /\ Mset(db, d, vals).db \in DB
           /\ Mset(db, d, vals).db.sent = db.sent \cup UNION {db.subs[s] : s \in KeySlots(d, K)}
           /\ \A s \in Slots :
                 IF s \in KeySlots(d, K)
                 THEN /\ Mset(db, d, vals).db.subs[s] = {}
                      /\ Mset(db, d, vals).db.watched[s] = {}
                      /\ Mset(db, d, vals).db.data[s] \in {Str(i) : i \in StringVal}
                      /\ Mset(db, d, vals).db.exp[s] \in {db.exp[s], NoExp}
                 ELSE /\ Mset(db, d, vals).db.subs[s] = db.subs[s]
                      /\ Mset(db, d, vals).db.watched[s] = db.watched[s]
                      /\ Mset(db, d, vals).db.data[s] = db.data[s]
                      /\ Mset(db, d, vals).db.exp[s] = db.exp[s]
           /\ Mset(db, d, vals).db.now = db.now
           /\ Mset(db, d, vals).db.loading = db.loading
<1> DEFINE S == KeySlots(d, K)
           data == [s \in Slots |-> IF s \in S THEN Str(vals[s[2]]) ELSE db.data[s]]
           exp  == [s \in Slots |-> IF s \in S /\ IsExpired(db, s) THEN NoExp ELSE db.exp[s]]
           subs == [s \in Slots |-> IF s \in S THEN {} ELSE db.subs[s]]
           watched == [s \in Slots |-> IF s \in S THEN {} ELSE db.watched[s]]
           woken == UNION {db.subs[s] : s \in S}
<1>1. S \in SUBSET Slots /\ \A s \in S : s[2] \in K
  BY DEF Slots, KeySlots
<1>2. \A s \in S : Str(vals[s[2]]) \in Value
  BY <1>1 DEF StringVal, Str, Value, Strings
<1>3. DOMAIN vals = K
  OBVIOUS
<1>4. Mset(db, d, vals).db =
        [db EXCEPT !.data = data, !.exp = exp, !.sent = @ \cup woken,
                   !.subs = subs, !.watched = watched]
  BY <1>3 DEF Mset, Result, KeySlots
<1> HIDE DEF S
<1>5. /\ data \in [Slots -> Value \cup {NoValue}]
      /\ exp \in [Slots -> Int \cup {NoExp}]
      /\ subs \in [Slots -> SUBSET Clients]
      /\ watched \in [Slots -> SUBSET Clients]
  BY <1>2 DEF DB
<1>6. woken \in SUBSET Clients
  BY <1>1 DEF DB
<1>7. \A s \in Slots : IF s \in S
                       THEN /\ data[s] \in {Str(i) : i \in StringVal}
                            /\ exp[s] \in {db.exp[s], NoExp}
                       ELSE data[s] = db.data[s] /\ exp[s] = db.exp[s]
  <2>1. \A s \in S : vals[s[2]] \in StringVal
    BY <1>1
  <2> QED
    BY <2>1
<1>8. \A s \in Slots : /\ subs[s] = IF s \in S THEN {} ELSE db.subs[s]
                       /\ watched[s] = IF s \in S THEN {} ELSE db.watched[s]
  OBVIOUS
<1> HIDE DEF data, exp, subs, watched
<1>9. /\ Mset(db, d, vals).db \in DB
      /\ Mset(db, d, vals).db.sent = db.sent \cup woken
      /\ Mset(db, d, vals).db.subs = subs
      /\ Mset(db, d, vals).db.data = data
      /\ Mset(db, d, vals).db.exp = exp
      /\ Mset(db, d, vals).db.watched = watched
      /\ Mset(db, d, vals).db.now = db.now
      /\ Mset(db, d, vals).db.loading = db.loading
  <2> HIDE DEF woken
  <2> QED
    BY ZenonT(30), <1>4, <1>5, <1>6 DEF DB
<1> QED
  BY <1>7, <1>8, <1>9 DEF S

-----------------------------------------------------------------------------
\* How a handler of Collections ends: with the record as it was, in one of the ways of
\* a handler of one slot, after the destination of a stored set was removed, or with
\* what SMOVE and MSET make of several slots.
THEOREM CollectionEnds ==
    ASSUME NEW db \in DB, NEW d \in Dbs, NEW cmd \in CollectionCommand
    PROVE  LET r == CollectionHandler(db, d, cmd)
           IN \/ r.db = db
              \/ \E s \in Slots : \/ EndsTold(db, s, r)
                                  \/ cmd.op \in {"sadd", "srem", "hset", "hincrby"} /\ Ends(db, s, r)
                                  \/ r.reply # "error" /\ r.db \in Reported(Remove(db, s), s)
              \/ cmd.op = "smove" /\ \E s, t \in Slots : \E e \in Elems : r = Smove(db, s, t, e)
              \/ \E K \in SUBSET Keys : \E vals \in [K -> StringVal] : r = Mset(db, d, vals)
<1> DEFINE r == CollectionHandler(db, d, cmd)
<1> USE DEF CollectionCommand
<1>0. \A k \in Keys : <<d, k>> \in Slots
  BY DEF Slots
<1>1. CASE cmd.op = "read"
  BY <1>1 DEF CollectionHandler, Read, Result
<1>2. CASE cmd.op = "sadd"
  BY <1>0, <1>2, SaddEnds DEF CollectionHandler
<1>3. CASE cmd.op = "srem"
  BY <1>0, <1>3, SremEnds DEF CollectionHandler
<1>4. CASE cmd.op = "spop"
  BY <1>0, <1>4, SpopEnds DEF CollectionHandler
<1>5. CASE cmd.op = "smove"
  BY <1>0, <1>5 DEF CollectionHandler
<1>6. CASE cmd.op \in {"sdiffstore", "sinterstore", "sunionstore"}
  <2>1. cmd.dest \in Keys /\ cmd.keys \in Seq(Keys) /\ cmd.keys # <<>>
    BY <1>6
  <2>2. CollectionHandler(db, d, cmd) = SetStore(db, d, cmd.op, cmd.dest, cmd.keys)
    BY <1>6 DEF CollectionHandler
  <2> QED
    BY ZenonT(30), <1>0, <1>6, <2>1, <2>2, SetStoreEnds
<1>7. CASE cmd.op = "hset"
  <2>1. cmd.key \in Keys /\ cmd.fields \in FieldMap
    BY <1>7
  <2>2. GetOrCreate(db, <<d, cmd.key>>) \in Opened(db, <<d, cmd.key>>)
    BY DEF Opened
  <2> QED
    BY <1>0, <1>7, <2>1, <2>2, HsetEnds DEF CollectionHandler
<1>8. CASE cmd.op = "hsetnx"
  BY <1>0, <1>8, HsetnxEnds DEF CollectionHandler
<1>9. CASE cmd.op = "hdel"
  BY <1>0, <1>9, HdelEnds DEF CollectionHandler
<1>10. CASE cmd.op = "hincrby"
  BY <1>0, <1>10, HincrbyEnds DEF CollectionHandler
<1>11. CASE cmd.op = "linsert"
  <2>1. cmd.key \in Keys /\ cmd.elem \in Elems
    BY <1>11
  <2>2. ListAt(db, <<d, cmd.key>>) \in Seq(Elems)
    BY <1>0, <2>1, ListAtType
  <2>3. Inserted(ListAt(db, <<d, cmd.key>>), cmd.before, cmd.pivot, cmd.elem).elems \in Seq(Elems)
    BY <2>1, <2>2, InsertedType
  <2>4. EndsTold(db, <<d, cmd.key>>, Linsert(db, <<d, cmd.key>>, cmd.before, cmd.pivot, cmd.elem))
    BY <1>0, <2>1, <2>3, OnListEnds DEF Linsert, Inserted
  <2> QED
    BY <1>0, <1>11, <2>1, <2>4 DEF CollectionHandler
<1>12. CASE cmd.op = "lset"
  <2>1. cmd.key \in Keys /\ cmd.elem \in Elems /\ cmd.index \in Int
    BY <1>12
  <2>2. ListAt(db, <<d, cmd.key>>) \in Seq(Elems)
    BY <1>0, <2>1, ListAtType
  <2>3. Replaced(ListAt(db, <<d, cmd.key>>), cmd.index, cmd.elem).elems \in Seq(Elems)
    BY <2>1, <2>2, ReplacedType
  <2>4. EndsTold(db, <<d, cmd.key>>, Lset(db, <<d, cmd.key>>, cmd.index, cmd.elem))
    BY <1>0, <2>1, <2>3, OnListEnds DEF Lset, Replaced
  <2> QED
    BY <1>0, <1>12, <2>1, <2>4 DEF CollectionHandler
<1>13. CASE cmd.op = "ltrim"
  <2>1. cmd.key \in Keys /\ cmd.start \in Int /\ cmd.stop \in Int
    BY <1>13
  <2>2. ListAt(db, <<d, cmd.key>>) \in Seq(Elems)
    BY <1>0, <2>1, ListAtType
  <2>3. Trimmed(ListAt(db, <<d, cmd.key>>), cmd.start, cmd.stop).elems \in Seq(Elems)
    BY <2>1, <2>2, TrimmedType
  <2>4. EndsTold(db, <<d, cmd.key>>, Ltrim(db, <<d, cmd.key>>, cmd.start, cmd.stop))
    BY <1>0, <2>1, <2>3, OnListEnds DEF Ltrim, Trimmed
  <2> QED
    BY <1>0, <1>13, <2>1, <2>4 DEF CollectionHandler
<1>14. CASE cmd.op \in {"mset", "msetnx"}
  <2>1. PICK K \in SUBSET Keys : cmd.vals \in [K -> StringVal]
    BY <1>14
  <2>2. r.db = db \/ r = Mset(db, d, cmd.vals)
    BY <1>14 DEF CollectionHandler, Msetnx, Result
  <2> QED
    BY <2>1, <2>2
<1> QED
  BY <1>1, <1>2, <1>3, <1>4, <1>5, <1>6, <1>7, <1>8, <1>9, <1>10, <1>11, <1>12, <1>13, <1>14

\* Every handler of Collections leaves a record of type DB.
LEMMA CollectionHandlerType ==
    ASSUME NEW db \in DB, NEW d \in Dbs, NEW cmd \in CollectionCommand
    PROVE  CollectionHandler(db, d, cmd).db \in DB
<1> DEFINE r == CollectionHandler(db, d, cmd)
<1>1. \/ r.db = db
      \/ \E s \in Slots : \/ EndsTold(db, s, r)
                          \/ cmd.op \in {"sadd", "srem", "hset", "hincrby"} /\ Ends(db, s, r)
                          \/ r.reply # "error" /\ r.db \in Reported(Remove(db, s), s)
      \/ cmd.op = "smove" /\ \E s, t \in Slots : \E e \in Elems : r = Smove(db, s, t, e)
      \/ \E K \in SUBSET Keys : \E vals \in [K -> StringVal] : r = Mset(db, d, vals)
  BY CollectionEnds, Zenon
<1> HIDE DEF r
<1>2. ASSUME NEW s \in Slots, EndsTold(db, s, r) \/ Ends(db, s, r)
      PROVE  r.db \in DB
  BY <1>2, ToldEnds, OneSlotType DEF Ends
<1>3. ASSUME NEW s \in Slots, r.db \in Reported(Remove(db, s), s)
      PROVE  r.db \in DB
  BY <1>3, RemoveType, OneSlotType DEF OneSlot
<1>4. \A s, t \in Slots : \A e \in Elems : r = Smove(db, s, t, e) => r.db \in DB
  BY SmoveType
<1>5. ASSUME NEW K \in SUBSET Keys, NEW vals \in [K -> StringVal], r = Mset(db, d, vals)
      PROVE  r.db \in DB
  BY <1>5, MsetFields
<1>6. r.db \in DB
  BY <1>1, <1>2, <1>3, <1>4, <1>5
<1> QED
  BY <1>6 DEF r

-----------------------------------------------------------------------------
(* Handlers of Commands *)

\* SET with all its options returns a reply and a well-typed record.
LEMMA GenericSetType ==
    ASSUME NEW db \in DB, NEW s \in Slots, NEW cmd,
           cmd.val \in StringVal, cmd.px \in Int \cup {NoExp}
    PROVE  GenericSet(db, s, cmd).db \in DB
<1> DEFINE stored == KeyUpdated(Store(GetOrCreate(db, s), s, Str(cmd.val)), s)
<1>1. stored \in DB
  <2>1. Str(cmd.val) \in Value
    BY DEF StringVal, Str, Value, Strings
  <2> QED
    BY <2>1, WriteType
<1>2. cmd.px # NoExp => SetMsexpiration(stored, s, cmd.px + db.now) \in DB
  <2>1. db.now \in Nat
    BY DEF DB
  <2> HIDE DEF stored
  <2> QED
    BY <1>1, <2>1, SetMsexpirationType
<1> HIDE DEF stored
<1>3. GenericSet(db, s, cmd).db \in {db, stored, SetMsexpiration(stored, s, cmd.px + db.now)}
         /\ (cmd.px = NoExp => GenericSet(db, s, cmd).db \in {db, stored})
  BY DEF GenericSet, Result, stored
<1> QED
  BY <1>1, <1>2, <1>3

\* GETSET reports its key, whatever was there.
LEMMA GetSetEnds ==
    ASSUME NEW db \in DB, NEW s \in Slots, NEW val \in StringVal
    PROVE  EndsTold(db, s, GetSet(db, s, val))
<1>1. Str(val) \in Value
  BY DEF StringVal, Str, Value, Strings
<1>2. GetOrCreate(db, s) \in Opened(db, s)
  BY DEF Opened
<1>3. \A reply : reply # "error" =>
         EndsTold(db, s, Result(reply, KeyUpdated(Store(GetOrCreate(db, s), s, Str(val)), s)))
  BY <1>1, <1>2, AssignEnds
<1> QED
  BY <1>3, Zenon DEF GetSet

\* INCRBY reports its key even when it fails, which it does only for a value it found;
\* the checked sum stays an integer of its width.
LEMMA GenericIncrEnds ==
    ASSUME NEW db \in DB, NEW s \in Slots, NEW by \in Ints
    PROVE  EndsTold(db, s, GenericIncr(db, s, by))
<1> DEFINE created == GetOrCreate(db, s)
           v == created.data[s]
           new == IncrValue(v, by)
<1>1. created \in Opened(db, s) /\ v \in Value
  BY GetOrCreateType DEF Opened
<1>2. IncrFails(v, by) => created \in Found(db, s)
  BY FoundValue DEF IncrFails
<1> HIDE DEF created
<1>3. IncrFails(v, by) => EndsTold(db, s, Result("error", KeyUpdated(created, s)))
  BY <1>2, ReportEnds
<1>4. ~IncrFails(v, by) => EndsTold(db, s, Result("ok", KeyUpdated(Store(created, s, new), s)))
  <2> SUFFICES ASSUME ~IncrFails(v, by)
               PROVE  EndsTold(db, s, Result("ok", KeyUpdated(Store(created, s, new), s)))
    OBVIOUS
  <2>1. new \in Value
    BY <1>1, IncrType DEF Value
  <2> HIDE DEF new
  <2> QED
    BY <1>1, <2>1, AssignEnds
<1>5. GenericIncr(db, s, by) =
         IF IncrFails(v, by) THEN Result("error", KeyUpdated(created, s))
         ELSE Result("ok", KeyUpdated(Store(created, s, new), s))
  BY Zenon DEF GenericIncr, created, v, new
<1> HIDE DEF v, new
<1> QED
  BY <1>3, <1>4, <1>5

\* DEL returns a reply and a well-typed record.
LEMMA DelType ==
    ASSUME NEW db \in DB, NEW s \in Slots
    PROVE  Del(db, s).db \in DB
<1>1. Remove(db, s) \in DB
  BY RemoveType
<1>2. KeyUpdated(Remove(db, s), s) \in DB
  BY <1>1, KeyUpdatedType
<1> QED
  BY <1>1, <1>2 DEF Del, Result

\* PEXPIRE and PEXPIREAT return a reply and a well-typed record.
LEMMA GenericExpireType ==
    ASSUME NEW db \in DB, NEW s \in Slots, NEW t \in Int
    PROVE  GenericExpire(db, s, t).db \in DB
<1>1. SetMsexpiration(db, s, t) \in DB
  BY SetMsexpirationType
<1>2. KeyUpdated(SetMsexpiration(db, s, t), s) \in DB
  BY <1>1, KeyUpdatedType
<1> QED
  BY <1>2 DEF GenericExpire, Result

\* PERSIST returns a reply and a well-typed record.
LEMMA PersistType ==
    ASSUME NEW db \in DB, NEW s \in Slots
    PROVE  Persist(db, s).db \in DB
<1>1. RemoveMsexpiration(db, s) \in DB
  BY DEF RemoveMsexpiration, DB
<1> QED
  BY <1>1, KeyUpdatedType DEF Persist, Result

\* RENAME, RENAMENX and MOVE store a well-typed value under the new name.
LEMMA RelocateType ==
    ASSUME NEW db \in DB, NEW from \in Slots, NEW to \in Slots
    PROVE  Relocate(db, from, to).db \in DB
<1> DEFINE v == Removed(db, from)
           removed == Remove(db, from)
           placed == Store(GetOrCreate(removed, to), to, v)
           left == removed.exp[from]
<1>1. removed \in DB
  BY RemoveType
<1>2. v \in Value \cup {NoValue}
  BY GetType DEF Removed
<1>3. left = NoExp
  BY DEF Remove, DB
<1>4. v # NoValue => KeyUpdated(placed, to) \in DB
  BY <1>1, <1>2, WriteType
<1>5. Relocate(db, from, to).db \in {removed, KeyUpdated(placed, to)}
         /\ (v = NoValue => Relocate(db, from, to).db = removed)
  <2> HIDE DEF v, removed, placed, left
  <2>1. Relocate(db, from, to) =
           IF v = NoValue THEN Result("error", removed)
           ELSE Result("ok", KeyUpdated(IF left = NoExp THEN placed
                                        ELSE SetMsexpiration(placed, to, left), to))
    BY DEF Relocate, v, removed, placed, left
  <2> QED
    BY <1>3, <2>1 DEF Result
<1> HIDE DEF v, removed, placed
<1> QED
  BY <1>1, <1>4, <1>5

\* LPUSH, RPUSH, LPUSHX and RPUSHX report their key unless there is none; a value of
\* another type was found.
LEMMA GenericPushEnds ==
    ASSUME NEW db \in DB, NEW s \in Slots, NEW cmd,
           cmd.elems \in Seq(Elems), cmd.right \in BOOLEAN
    PROVE  EndsTold(db, s, GenericPush(db, s, cmd))
<1> DEFINE opened == IF cmd.create THEN GetOrCreate(db, s) ELSE GetMut(db, s)
           v == opened.data[s]
           new == PushValue(v, cmd.elems, cmd.right)
<1>1. opened \in Opened(db, s)
  BY DEF Opened
<1>2. v = NoValue => opened \in Quiet(db, s)
  BY GetOrCreateType, ValueCases DEF Quiet
<1>3. v # NoValue /\ ~Listable(v) => opened \in Quiet(db, s) \cup Found(db, s)
  BY FoundValue DEF Quiet, Listable, Nil
<1>4. v \in Value \cup {NoValue}
  BY <1>1, OpenedType
<1> HIDE DEF opened
<1>5. v # NoValue /\ Listable(v) => new \in Value
  BY <1>4, PushType DEF Value
<1>6. v = NoValue => EndsTold(db, s, Result("ok", opened))
  BY <1>2, EarlyEnds
<1>7. v # NoValue /\ ~Listable(v) => EndsTold(db, s, Result("error", KeyUpdated(opened, s)))
  BY <1>3, ReportEnds
<1>8. v # NoValue /\ Listable(v) =>
         EndsTold(db, s, Result("ok", KeyUpdated(Store(opened, s, new), s)))
  <2> HIDE DEF new, v
  <2> QED
    BY <1>1, <1>5, AssignEnds
<1>9. GenericPush(db, s, cmd) =
         CASE v = NoValue -> Result("ok", opened)
           [] v # NoValue /\ ~Listable(v) -> Result("error", KeyUpdated(opened, s))
           [] v # NoValue /\ Listable(v) -> Result("ok", KeyUpdated(Store(opened, s, new), s))
  BY Zenon DEF GenericPush, opened, v, new
<1> HIDE DEF v, new
<1> QED
  BY <1>6, <1>7, <1>8, <1>9

\* LPOP and RPOP report their key whatever they find there.
LEMMA GenericPopEnds ==
    ASSUME NEW db \in DB, NEW s \in Slots, NEW right \in BOOLEAN
    PROVE  EndsTold(db, s, GenericPop(db, s, right))
<1> DEFINE opened == GetMut(db, s)
           v == opened.data[s]
           new == PopValue(v, right)
<1>1. opened \in Opened(db, s) /\ opened \in Quiet(db, s)
  BY DEF Opened, Quiet
<1>2. v \in Value \cup {NoValue}
  BY <1>1, OpenedType
<1> HIDE DEF opened
<1>3. ~Listable(NoValue)
  BY DEF Listable, NoValue
<1>4. Listable(v) /\ Elements(v) # <<>> => new \in Value
  BY <1>2, <1>3, PopType DEF Value
<1>5. \A reply : EndsTold(db, s, Result(reply, KeyUpdated(opened, s)))
  BY <1>1, ReportEnds
<1>6. Listable(v) /\ Elements(v) # <<>> =>
         EndsTold(db, s, Result("ok", KeyUpdated(Store(opened, s, new), s)))
  <2> HIDE DEF new, v
  <2> QED
    BY <1>1, <1>4, AssignEnds
<1>7. GenericPop(db, s, right) =
         CASE Listable(v) /\ Elements(v) # <<>> ->
                Result("ok", KeyUpdated(Store(opened, s, new), s))
           [] v = NoValue \/ (Listable(v) /\ Elements(v) = <<>>) ->
                Result("nil", KeyUpdated(opened, s))
           [] v # NoValue /\ ~Listable(v) -> Result("error", KeyUpdated(opened, s))
  BY Zenon DEF GenericPop, opened, v, new
<1> HIDE DEF v, new
<1> QED
  BY <1>3, <1>5, <1>6, <1>7

\* RPOPLPUSH returns a reply and a well-typed record on every path, the errors
\* included.
LEMMA GenericRpoplpushType ==
    ASSUME NEW db \in DB, NEW src \in Slots, NEW dst \in Slots
    PROVE  GenericRpoplpush(db, src, dst).db \in DB
<1> DEFINE target == Get(db, dst)
           opened == GetMut(db, src)
           v      == opened.data[src]
           el     == Popped(v, TRUE)
           popped == Store(opened, src, PopValue(v, TRUE))
           created == GetOrCreate(popped, dst)
           w      == created.data[dst]
           pushed == Store(created, dst, PushValue(w, <<el>>, FALSE))
           Moves  == Listable(v) /\ Elements(v) # <<>>
<1>1. opened \in DB
  BY GetMutType
<1>2. v \in Value \cup {NoValue}
  <2> HIDE DEF opened
  <2> QED
    BY <1>1 DEF DB
<1>3. Moves => v \in Value /\ PopValue(v, TRUE) \in Value /\ el \in Elems
  <2> SUFFICES ASSUME Moves
               PROVE  v \in Value /\ PopValue(v, TRUE) \in Value /\ el \in Elems
    OBVIOUS
  <2>1. v \in Value
    BY <1>2 DEF Listable, NoValue
  <2> QED
    BY <2>1, PopType DEF Value
<1> HIDE DEF opened, v, el
<1>4. Moves => created \in DB /\ w \in Value
  <2> SUFFICES ASSUME Moves
               PROVE  created \in DB /\ w \in Value
    OBVIOUS
  <2>1. popped \in DB
    BY <1>1, <1>3, StoreType
  <2> QED
    BY <2>1, GetOrCreateType
<1> HIDE DEF popped, created, w
<1>5. Moves /\ Listable(w) => KeyUpdated(KeyUpdated(pushed, src), dst) \in DB
  <2> SUFFICES ASSUME Moves, Listable(w)
               PROVE  KeyUpdated(KeyUpdated(pushed, src), dst) \in DB
    OBVIOUS
  <2>1. <<el>> \in Seq(Elems)
    BY <1>3
  <2>2. PushValue(w, <<el>>, FALSE) \in Value
    BY <1>4, <2>1, PushType DEF Value
  <2>3. pushed \in DB
    BY <1>4, <2>2, StoreType
  <2> QED
    BY <2>3, KeyUpdatedType
<1> HIDE DEF pushed
<1>6. GenericRpoplpush(db, src, dst) =
         IF target # NoValue /\ ~Listable(target) THEN Result("error", db)
         ELSE IF v = NoValue THEN Result("nil", opened)
         ELSE IF ~Listable(v) THEN Result("error", opened)
         ELSE IF Elements(v) = <<>> THEN Result("nil", opened)
         ELSE IF ~Listable(w) THEN Result("error", created)
         ELSE Result("ok", KeyUpdated(KeyUpdated(pushed, src), dst))
  BY Zenon DEF GenericRpoplpush, opened, v, el, popped, created, w, pushed
<1> HIDE DEF target
<1> QED
  BY <1>1, <1>4, <1>5, <1>6 DEF Result

\* BLPOP and BRPOP drop the expired values they look at, then pop from a key that is
\* ready, if there is one, and report it.
LEMMA GenericBpopEnds ==
    ASSUME NEW db \in DB, NEW d \in Dbs, NEW keys \in Seq(Keys), NEW right \in BOOLEAN
    PROVE  LET r == GenericBpop(db, d, keys, right)
           IN \E S \in SUBSET Expired(db, Slots) :
                 \/ r.db = RemoveAll(db, S)
                 \/ /\ r.reply = "ok"
                    /\ \E s \in Slots : \E v \in Value :
                          r.db = KeyUpdated(Store(RemoveAll(db, S), s, v), s)
<1> DEFINE slot(i) == <<d, keys[i]>>
           ready   == {i \in DOMAIN keys : Ready(Get(db, slot(i)))}
           first   == CHOOSE i \in ready : \A j \in ready : i <= j
           s       == slot(first)
           looked  == {slot(i) : i \in IF ready = {} THEN DOMAIN keys ELSE 1 .. first}
           opened  == RemoveAll(db, Expired(db, looked))
           popped  == Store(opened, s, PopValue(opened.data[s], right))
<1>1. \A i \in DOMAIN keys : slot(i) \in Slots
  BY DEF Slots
<1>2. ready \subseteq DOMAIN keys /\ DOMAIN keys \subseteq Nat
  OBVIOUS
<1>3. ready # {} => first \in ready /\ s \in Slots
  <2> HIDE DEF ready, slot
  <2>1. ready \subseteq Nat
    BY <1>2
  <2>2. ready # {} => first \in ready
    BY <2>1, FirstExists
  <2> QED
    BY <1>1, <1>2, <2>2
<1>4. looked \subseteq Slots
  <2>1. ready # {} => 1 .. first \subseteq DOMAIN keys
    <3> HIDE DEF ready, first, s
    <3>1. ready # {} => first \in 1 .. Len(keys)
      BY <1>2, <1>3
    <3> QED
      BY <3>1
  <2> HIDE DEF slot, ready, first
  <2> QED
    BY <1>1, <2>1
<1>5. Expired(db, looked) \in SUBSET Expired(db, Slots) /\ opened \in DB
  <2>1. Expired(db, looked) \in SUBSET Expired(db, Slots) /\ Expired(db, looked) \in SUBSET Slots
    BY <1>4 DEF Expired
  <2> QED
    BY <2>1, RemoveAllType
<1>6. ready # {} => opened.data[s] = Get(db, s) /\ Ready(Get(db, s))
  <2> SUFFICES ASSUME ready # {}
               PROVE  opened.data[s] = Get(db, s) /\ Ready(Get(db, s))
    OBVIOUS
  <2>1. Ready(Get(db, s))
    <3> HIDE DEF first
    <3> QED
      BY <1>3
  <2>2. s \in looked
    <3> HIDE DEF ready, slot
    <3>1. first \in 1 .. first
      BY <1>2, <1>3
    <3> QED
      BY <3>1
  <2>3. ~IsExpired(db, s)
    BY <2>1 DEF Get, Ready
  <2>4. opened.data[s] = IF s \in Expired(db, looked) THEN NoValue ELSE db.data[s]
    <3> HIDE DEF looked, s
    <3> QED
      BY <1>3 DEF RemoveAll, DB
  <2>5. s \notin Expired(db, looked)
    <3> HIDE DEF looked, s
    <3> QED
      BY <2>3 DEF Expired
  <2> HIDE DEF opened, s
  <2> QED
    BY <2>1, <2>3, <2>4, <2>5 DEF Get
<1> HIDE DEF opened
<1> DEFINE left == PopValue(opened.data[s], right)
<1>7. ready # {} /\ Listable(opened.data[s]) => s \in Slots /\ left \in Value
  <2> SUFFICES ASSUME ready # {}, Listable(opened.data[s])
               PROVE  s \in Slots /\ left \in Value
    OBVIOUS
  <2> HIDE DEF ready, s
  <2>1. opened.data[s] \in Value
    BY <1>3, <1>5 DEF DB, Listable, NoValue
  <2>2. Elements(opened.data[s]) # <<>>
    BY <1>6 DEF Ready
  <2> QED
    BY <1>3, <2>1, <2>2, PopType DEF Value
<1>8. GenericBpop(db, d, keys, right) =
         IF ready = {} THEN Result("nil", opened)
         ELSE IF ~Listable(opened.data[s]) THEN Result("error", opened)
         ELSE Result("ok", KeyUpdated(Store(opened, s, left), s))
  BY Zenon DEF GenericBpop, opened
<1> HIDE DEF ready, s, left
<1> DEFINE r == GenericBpop(db, d, keys, right)
<1>9. \/ r.db = opened
      \/ /\ r.reply = "ok"
         /\ \E x \in Slots : \E v \in Value : r.db = KeyUpdated(Store(opened, x, v), x)
  BY <1>7, <1>8 DEF Result
<1> HIDE DEF r
<1>10. \E S \in SUBSET Expired(db, Slots) :
          \/ r.db = RemoveAll(db, S)
          \/ /\ r.reply = "ok"
             /\ \E x \in Slots : \E v \in Value :
                   r.db = KeyUpdated(Store(RemoveAll(db, S), x, v), x)
  <2> HIDE DEF looked
  <2> QED
    BY <1>5, <1>9 DEF opened
<1> QED
  BY <1>10 DEF r

\* BLPOP and BRPOP return a reply and a well-typed record, from whichever key they pop.
LEMMA GenericBpopType ==
    ASSUME NEW db \in DB, NEW d \in Dbs, NEW keys \in Seq(Keys), NEW right \in BOOLEAN
    PROVE  GenericBpop(db, d, keys, right).db \in DB
<1>1. \A S \in SUBSET Expired(db, Slots) :
         /\ RemoveAll(db, S) \in DB
         /\ \A s \in Slots : \A v \in Value : KeyUpdated(Store(RemoveAll(db, S), s, v), s) \in DB
  BY RemoveAllType, StoreType, KeyUpdatedType DEF Expired
<1> QED
  BY <1>1, GenericBpopEnds

\* WATCH and the subscription of a blocking pop leave a well-typed record.
LEMMA RegistrationType ==
    ASSUME NEW db \in DB, NEW S \in SUBSET Slots, NEW c \in Clients
    PROVE  /\ KeySubscribe(db, S, c) \in DB
           /\ KeyWatch(db, S, c) \in DB
BY DEF KeySubscribe, KeyWatch, DB

\* A command of Collections has one of its names, and none of Commands has.
LEMMA CollectionOp ==
    ASSUME NEW cmd \in Command
    PROVE  cmd.op \in CollectionOps <=> cmd \in CollectionCommand
<1>1. cmd \in CollectionCommand => cmd.op \in CollectionOps
  BY DEF CollectionCommand, CollectionOps
<1>2. cmd \in KeyCommand => cmd.op \notin CollectionOps
  BY DEF KeyCommand, CollectionOps
<1> QED
  BY <1>1, <1>2 DEF Command

\* SELECT and the blocking pops are commands of Commands.
LEMMA KeyOp ==
    ASSUME NEW cmd \in Command, cmd.op \in Blocking \cup {"select"}
    PROVE  cmd \in KeyCommand
BY CollectionOp DEF Command, CollectionOps, Blocking

\* The match of execute_command sends it to its handler.
LEMMA CollectionsHandled ==
    ASSUME NEW db, NEW d, NEW cmd \in CollectionCommand
    PROVE  Handler(db, d, cmd) = CollectionHandler(db, d, cmd)
<1>1. cmd.op \in CollectionOps
  BY CollectionOp DEF Command
<1> QED
  BY <1>1 DEF Handler, CollectionOps

\* Every key command leaves a record of type DB, from any record of that type.
THEOREM HandlerType ==
    ASSUME NEW db \in DB, NEW d \in Dbs, NEW cmd \in Command, cmd.op # "select"
    PROVE  Handler(db, d, cmd).db \in DB
<1>a. CASE cmd \in CollectionCommand
  BY <1>a, CollectionsHandled, CollectionHandlerType
<1>b. CASE cmd \in KeyCommand
  <2> USE <1>b DEF KeyCommand, CollectionOps
  <2>0. /\ \A k \in Keys : <<d, k>> \in Slots
        /\ db.now \in Nat
        /\ Slots \in SUBSET Slots
        /\ {s \in Slots : s[1] = d} \in SUBSET Slots
    BY DEF Slots, DB
  <2>1. CASE cmd.op \in {"get", "del", "persist"}
    BY <2>0, <2>1, DelType, PersistType DEF Handler, Result
  <2>2. CASE cmd.op = "set"
    BY <2>0, <2>2, GenericSetType DEF Handler
  <2>3. CASE cmd.op = "getset"
    BY <2>0, <2>3, GetSetEnds, EndsType DEF Handler
  <2>4. CASE cmd.op = "incrby"
    BY <2>0, <2>4, GenericIncrEnds, EndsType DEF Handler
  <2>5. CASE cmd.op \in {"pexpire", "pexpireat"}
    BY <2>0, <2>5, GenericExpireType DEF Handler
  <2>6. CASE cmd.op \in {"flushdb", "flushall"}
    BY <2>0, <2>6, ClearType DEF Handler, Result
  <2>7. CASE cmd.op = "push"
    BY <2>0, <2>7, GenericPushEnds, EndsType DEF Handler
  <2>8. CASE cmd.op = "pop"
    BY <2>0, <2>8, GenericPopEnds, EndsType DEF Handler
  <2>9. CASE cmd.op \in {"rename", "renamenx"}
    <3>1. cmd.key \in Keys /\ cmd.dest \in Keys
      BY <2>9
    <3>2. Relocate(db, <<d, cmd.key>>, <<d, cmd.dest>>).db \in DB
      BY <2>0, <3>1, RelocateType
    <3> QED
      BY <2>9, <3>2 DEF Handler, Rename, RenameNx, Result
  <2>10. CASE cmd.op = "move"
    <3>1. cmd.key \in Keys /\ cmd.to \in Int
      BY <2>10
    <3>2. cmd.to \in Dbs => Relocate(db, <<d, cmd.key>>, <<cmd.to, cmd.key>>).db \in DB
      BY <2>0, <3>1, RelocateType DEF Slots
    <3> QED
      BY <2>10, <3>2 DEF Handler, MoveKey, Result
  <2>11. CASE cmd.op \in {"rpoplpush", "brpoplpush"}
    BY <2>0, <2>11, GenericRpoplpushType DEF Handler
  <2>12. CASE cmd.op = "bpop"
    BY <2>0, <2>12, GenericBpopType DEF Handler
  <2> QED
    BY <2>1, <2>2, <2>3, <2>4, <2>5, <2>6, <2>7, <2>8, <2>9, <2>10, <2>11, <2>12
<1> QED
  BY <1>a, <1>b DEF Command
=============================================================================
