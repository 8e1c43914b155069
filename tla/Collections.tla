---------------------------- MODULE Collections ----------------------------
(***************************************************************************)
(* The commands of command/src/command.rs on sets, hashes and several keys *)
(* at once, and those that change a list in place, as operators over the   *)
(* record of Database.  Set members, hash fields and list elements are     *)
(* texts told apart only by being equal; the two encodings of a set and of *)
(* a hash hold the same members, and are left out.                         *)
(***************************************************************************)
EXTENDS Database

-----------------------------------------------------------------------------
(* Their arguments.  A random draw is an order on the elements (`rank`), an *)
(* argument like the others.                                                *)

CollectionCommand ==
    [op : {"read"}, key : Keys, type : {"string", "list", "set", "hash"}]
    \cup [op : {"sadd", "srem"}, key : Keys, members : (SUBSET Elems) \ {{}}]
    \cup [op : {"spop"}, key : Keys, count : Int, rank : [Elems -> Nat]]
    \cup [op : {"smove"}, key : Keys, dest : Keys, member : Elems]
    \cup [op : {"sdiffstore", "sinterstore", "sunionstore"},
          dest : Keys, keys : Seq(Keys) \ {<<>>}]
    \cup [op : {"hset"}, key : Keys, fields : FieldMap]
    \cup [op : {"hsetnx"}, key : Keys, field : Elems, val : StringVal]
    \cup [op : {"hdel"}, key : Keys, members : SUBSET Elems]
    \cup [op : {"hincrby"}, key : Keys, field : Elems, by : Ints]
    \cup [op : {"linsert"}, key : Keys, before : BOOLEAN, pivot : Elems, elem : Elems]
    \cup [op : {"lset"}, key : Keys, index : Int, elem : Elems]
    \cup [op : {"ltrim"}, key : Keys, start : Int, stop : Int]
    \cup [op : {"mset", "msetnx"}, vals : UNION {[K -> StringVal] : K \in SUBSET Keys}]

CollectionOps ==
    {"read", "sadd", "srem", "spop", "smove", "sdiffstore", "sinterstore", "sunionstore",
     "hset", "hsetnx", "hdel", "hincrby", "linsert", "lset", "ltrim", "mset", "msetnx"}

\* A command that looks at one key of some type and changes nothing
Read(db, s, type) ==
    Result(IF Get(db, s) = NoValue THEN "nil"
           ELSE IF Get(db, s).type = type THEN "ok" ELSE "error", db)

-----------------------------------------------------------------------------
(* Sets *)

\* A wrong type is found at the first member; the key is then not reported as
\* updated, as it is for every list command.
Sadd(db, s, es) ==
    LET created == GetOrCreate(db, s)
        v == created.data[s]
    IN IF ~Settable(v)
       THEN Result("error", created)
       ELSE Result("ok", KeyUpdated(Store(created, s, SetOf(Members(v) \cup es)), s))

\* srem creates the key too: key_updated removes the nil again
Srem(db, s, es) ==
    LET created == GetOrCreate(db, s)
        v == created.data[s]
    IN CASE ~Settable(v) -> Result("error", created)
         [] v = Nil -> Result("ok", KeyUpdated(created, s))
         [] v.type = "set" -> Result("ok", KeyUpdated(Store(created, s, SetOf(v.members \ es)), s))

\* ValueSet::spop: the first count members in the order drawn, all of them for a
\* negative count, which is cast to usize
Drawn(M, count, rank) ==
    {e \in M : count < 0 \/ Cardinality({x \in M : rank[x] < rank[e]}) < count}

Spop(db, s, count, rank) ==
    LET opened == GetMut(db, s)
        v == opened.data[s]
        left == SetOf(Members(v) \ Drawn(Members(v), count, rank))
    IN CASE v = NoValue -> Result("nil", opened)
         [] v.type = "set" -> Result("ok", KeyUpdated(Store(opened, s, left), s))
         [] v # NoValue /\ v.type # "set" ->
              Result(IF v = Nil THEN "nil" ELSE "error", KeyUpdated(opened, s))

\* Fault: the member is taken from the source before the destination is looked at
SmoveTakesFirst(db, src, dst, e) ==
    LET v == Get(db, src)
        taken == Store(db, src, SetOf(Members(v) \ {e}))
        w == GetOrCreate(taken, dst).data[dst]
        added == Store(GetOrCreate(taken, dst), dst, SetOf(Members(w) \cup {e}))
    IN IF v.type # "set" \/ e \notin Members(v) THEN Result("ok", db)
       ELSE IF ~Settable(w) THEN Result("error", KeyUpdated(taken, src))
       ELSE Result("ok", KeyUpdated(KeyUpdated(added, src), dst))

\* Fault: the member is added before it is taken away, from the same set perhaps
SmoveAddsFirst(db, src, dst, e) ==
    LET v == Get(db, src)
        w == Get(db, dst)
        added == Store(db, dst, SetOf(Members(w) \cup {e}))
        taken == Store(added, src, SetOf(Members(added.data[src]) \ {e}))
    IN IF w # NoValue /\ w.type # "set" THEN Result("error", db)
       ELSE IF v.type # "set" \/ e \notin Members(v) THEN Result("ok", db)
       ELSE Result("ok", KeyUpdated(KeyUpdated(taken, src), dst))

\* smove.  An expired destination counts as missing when its type is looked at, and
\* is there again when the member is added: "Unexpected failure".
Smove(db, src, dst, e) ==
    LET target  == Get(db, dst)
        opened  == GetMut(db, src)
        v       == opened.data[src]
        taken   == Store(opened, src, SetOf(Members(v) \ {e}))
        created == GetOrCreate(taken, dst)
        w       == created.data[dst]
        added   == Store(created, dst, SetOf(Members(w) \cup {e}))
    IN IF target # NoValue /\ target.type # "set" THEN Result("error", db)
       ELSE IF v = NoValue THEN Result("ok", opened)
       ELSE IF ~Settable(v) THEN Result("error", opened)
       ELSE IF e \notin Members(v) THEN Result("ok", opened)
       ELSE IF ~Settable(w) THEN Result("panic", db)
       ELSE Result("ok", KeyUpdated(KeyUpdated(added, src), dst))

\* get_values: a missing key reads as nil
Operand(db, s) == IF Get(db, s) = NoValue THEN Nil ELSE Get(db, s)

\* Value::sdiff and sinter of nil are empty whatever the others are
CombineFails(op, vals) ==
    /\ \E i \in DOMAIN vals : ~Settable(vals[i])
    /\ op = "sunionstore" \/ vals[1] # Nil

\* ValueSet::sdiff, sinter and sunion
Combined(op, vals) ==
    CASE op = "sdiffstore" ->
           {e \in Members(vals[1]) : \A i \in 2 .. Len(vals) : e \notin Members(vals[i])}
      [] op = "sinterstore" ->
           {e \in Members(vals[1]) : \A i \in 2 .. Len(vals) : e \in Members(vals[i])}
      [] op = "sunionstore" -> UNION {Members(vals[i]) : i \in DOMAIN vals}

\* The end of sdiffstore, sinterstore and sunionstore: the destination is replaced,
\* by nothing when the result is empty.
ReplaceBySet(db, s, S) ==
    KeyUpdated(Store(GetOrCreate(Remove(db, s), s), s, SetOf(S)), s)

\* sdiffstore returns early without its first key, and leaves the destination
SetStore(db, d, op, dest, keys) ==
    LET vals == [i \in DOMAIN keys |-> Operand(db, <<d, keys[i]>>)]
    IN IF op = "sdiffstore" /\ vals[1] = Nil THEN Result("ok", db)
       ELSE IF CombineFails(op, vals) THEN Result("error", db)
       ELSE Result("ok", ReplaceBySet(db, <<d, dest>>, Combined(op, vals)))

-----------------------------------------------------------------------------
(* Hashes *)

\* The fields f with those of g added or overwritten
With(f, g) ==
    [e \in DOMAIN f \cup DOMAIN g |-> IF e \in DOMAIN g THEN g[e] ELSE f[e]]
Field(e, x) == [i \in {e} |-> x]

\* hset, and hmset with its several fields
Hset(db, s, g) ==
    LET created == GetOrCreate(db, s)
        v == created.data[s]
    IN IF ~Hashable(v)
       THEN Result("error", created)
       ELSE Result("ok", KeyUpdated(Store(created, s, HashOf(With(Fields(v), g))), s))

Hsetnx(db, s, e, x) ==
    LET opened == GetMut(db, s)
        v == opened.data[s]
    IN IF v = NoValue THEN Hset(opened, s, Field(e, x))
       ELSE IF ~Hashable(v) THEN Result("error", opened)
       ELSE IF e \in DOMAIN Fields(v) THEN Result("ok", opened)
       ELSE Result("ok", KeyUpdated(Store(opened, s, HashOf(With(Fields(v), Field(e, x)))), s))

\* Fault: nobody is told of the fields that went, and a hash without fields stays
HdelSilently(db, s, es) ==
    LET opened == GetMut(db, s)
        v == opened.data[s]
        left == [e \in DOMAIN Fields(v) \ es |-> Fields(v)[e]]
    IN IF v # NoValue /\ v.type = "hash"
       THEN Result("ok", Store(opened, s, HashOf(left)))
       ELSE Result(IF v = NoValue THEN "ok" ELSE "error", opened)

Hdel(db, s, es) ==
    LET opened == GetMut(db, s)
        v == opened.data[s]
        left == [e \in DOMAIN Fields(v) \ es |-> Fields(v)[e]]
    IN CASE v = NoValue -> Result("ok", opened)
         [] v = Nil -> Result("ok", KeyUpdated(opened, s))
         [] v.type = "hash" -> Result("ok", KeyUpdated(Store(opened, s, HashOf(left)), s))
         [] v # NoValue /\ ~Hashable(v) -> Result("error", opened)

\* ValueHash::hincrby: a field that is no integer counts as missing
Counted(f, e) == e \in DOMAIN f /\ f[e] # NoExp
Hincrby(db, s, e, n) ==
    LET created == GetOrCreate(db, s)
        v == created.data[s]
        sum == IF Counted(Fields(v), e) THEN Fields(v)[e] + n ELSE n
    IN IF ~Hashable(v) \/ sum \notin Ints
       THEN Result("error", created)
       ELSE Result("ok", KeyUpdated(Store(created, s, HashOf(With(Fields(v), Field(e, sum)))), s))

-----------------------------------------------------------------------------
(* Lists, changed in place.  The key is reported as updated in every case. *)

\* The list that get_mut finds
ListAt(db, s) == Elements(GetMut(db, s).data[s])

\* What linsert, lset and ltrim share: r is their result on the list, and absent
\* their reply for a missing key.
OnList(db, s, absent, r) ==
    LET opened == GetMut(db, s)
        v == opened.data[s]
    IN CASE v = NoValue -> Result(absent, KeyUpdated(opened, s))
         [] v.type = "list" /\ r.reply = "panic" -> Result("panic", db)
         [] v.type = "list" /\ r.reply # "panic" ->
              Result(r.reply, KeyUpdated(Store(opened, s, List(r.elems)), s))
         [] v # NoValue /\ v.type # "list" -> Result("error", KeyUpdated(opened, s))

\* ValueList::linsert
Inserted(l, before, pivot, e) ==
    LET at == {i \in DOMAIN l : l[i] = pivot}
        first == CHOOSE i \in at : \A j \in at : i <= j
        pos == IF before THEN first - 1 ELSE first
    IN [reply |-> "ok",
        elems |-> IF at = {} THEN l
                  ELSE SubSeq(l, 1, pos) \o <<e>> \o SubSeq(l, pos + 1, Len(l))]

\* normalize_position, without its range check: from 0, from the end if negative
Position(i, len) == IF i < 0 THEN i + len ELSE i

\* ValueList::lset
Replaced(l, index, e) ==
    LET pos == Position(index, Len(l))
    IN IF pos \in 0 .. Len(l) - 1
       THEN [reply |-> "ok", elems |-> [l EXCEPT ![pos + 1] = e]]
       ELSE [reply |-> "error", elems |-> l]

\* Fault: the element at stop goes too
TrimmedShort(l, start, stop) ==
    LET from == IF Position(start, Len(l)) < 0 THEN 0 ELSE Position(start, Len(l))
        to == IF Position(stop, Len(l)) >= Len(l) THEN Len(l) - 1 ELSE Position(stop, Len(l))
    IN IF from >= Len(l) \/ to < 0 THEN [reply |-> "ok", elems |-> <<>>]
       ELSE IF from > to + 1 THEN [reply |-> "panic", elems |-> l]
       ELSE [reply |-> "ok", elems |-> SubSeq(l, from + 1, to)]

\* ValueList::ltrim: LinkedList::split_off panics past the end of what the first
\* split_off left.
Trimmed(l, start, stop) ==
    LET from == IF Position(start, Len(l)) < 0 THEN 0 ELSE Position(start, Len(l))
        to == IF Position(stop, Len(l)) >= Len(l) THEN Len(l) - 1 ELSE Position(stop, Len(l))
    IN IF from >= Len(l) \/ to < 0 THEN [reply |-> "ok", elems |-> <<>>]
       ELSE IF from > to + 1 THEN [reply |-> "panic", elems |-> l]
       ELSE [reply |-> "ok", elems |-> SubSeq(l, from + 1, to + 1)]

Linsert(db, s, before, pivot, e) ==
    OnList(db, s, "ok", Inserted(ListAt(db, s), before, pivot, e))
Lset(db, s, index, e) ==
    OnList(db, s, "error", Replaced(ListAt(db, s), index, e))
Ltrim(db, s, start, stop) ==
    OnList(db, s, "ok", Trimmed(ListAt(db, s), start, stop))

-----------------------------------------------------------------------------
(* Several keys at once *)

\* mset: get_or_create, set and key_updated of each key in turn; what one key's
\* calls do another's do not see.
Mset(db, d, vals) ==
    LET S == {<<d, k>> : k \in DOMAIN vals}
    IN Result("ok",
         [db EXCEPT
            !.data    = [s \in Slots |-> IF s \in S THEN Str(vals[s[2]]) ELSE @[s]],
            !.exp     = [s \in Slots |-> IF s \in S /\ IsExpired(db, s) THEN NoExp ELSE @[s]],
            !.sent    = @ \cup UNION {db.subs[s] : s \in S},
            !.subs    = [s \in Slots |-> IF s \in S THEN {} ELSE @[s]],
            !.watched = [s \in Slots |-> IF s \in S THEN {} ELSE @[s]]])

Msetnx(db, d, vals) ==
    IF \E k \in DOMAIN vals : Get(db, <<d, k>>) # NoValue
    THEN Result("ok", db)
    ELSE Mset(db, d, vals)

-----------------------------------------------------------------------------
\* The part of execute_command's match that selects these handlers
CollectionHandler(db, d, cmd) ==
    CASE cmd.op = "read"    -> Read(db, <<d, cmd.key>>, cmd.type)
      [] cmd.op = "sadd"    -> Sadd(db, <<d, cmd.key>>, cmd.members)
      [] cmd.op = "srem"    -> Srem(db, <<d, cmd.key>>, cmd.members)
      [] cmd.op = "spop"    -> Spop(db, <<d, cmd.key>>, cmd.count, cmd.rank)
      [] cmd.op = "smove"   -> Smove(db, <<d, cmd.key>>, <<d, cmd.dest>>, cmd.member)
      [] cmd.op \in {"sdiffstore", "sinterstore", "sunionstore"} ->
           SetStore(db, d, cmd.op, cmd.dest, cmd.keys)
      [] cmd.op = "hset"    -> Hset(db, <<d, cmd.key>>, cmd.fields)
      [] cmd.op = "hsetnx"  -> Hsetnx(db, <<d, cmd.key>>, cmd.field, cmd.val)
      [] cmd.op = "hdel"    -> Hdel(db, <<d, cmd.key>>, cmd.members)
      [] cmd.op = "hincrby" -> Hincrby(db, <<d, cmd.key>>, cmd.field, cmd.by)
      [] cmd.op = "linsert" -> Linsert(db, <<d, cmd.key>>, cmd.before, cmd.pivot, cmd.elem)
      [] cmd.op = "lset"    -> Lset(db, <<d, cmd.key>>, cmd.index, cmd.elem)
      [] cmd.op = "ltrim"   -> Ltrim(db, <<d, cmd.key>>, cmd.start, cmd.stop)
      [] cmd.op = "mset"    -> Mset(db, d, cmd.vals)
      [] cmd.op = "msetnx"  -> Msetnx(db, d, cmd.vals)
=============================================================================
