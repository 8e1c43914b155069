------------------------------- MODULE Strings -------------------------------
(***************************************************************************)
(* Texts as bytes: database/src/string.rs, and the commands that address a *)
(* range or a bit of a string, with BITOP, LREM, SORT and the bloom        *)
(* filters.  A byte is the set of its 1 bits, Width of them; Integer and   *)
(* Data hold the same text here.  Machine words wrap, as in a release      *)
(* build.                                                                  *)
(***************************************************************************)
EXTENDS SortedSets

CONSTANT Width        \* bits of a byte (8), the highest one first in an offset
ASSUME StringsAssumption == Width \in Nat \ {0}

Byte == SUBSET (0 .. Width - 1)
Text(b) == [type |-> "string", bytes |-> b]

\* Value's methods work on nil, as an empty text, and on strings
Writable(v) == v.type \in {"nil", "string"}
BytesOf(v) == IF v.type = "string" THEN v.bytes ELSE <<>>

\* resize with zero bytes up to n
Padded(b, n) == IF n <= Len(b) THEN b ELSE b \o [i \in 1 .. n - Len(b) |-> {}]

-----------------------------------------------------------------------------
(* ValueString *)

GetrangeValue(b, first, last) ==
    LET i == FromEnd(first, Len(b))
        j == FromEnd(last, Len(b))
        to == IF j >= Len(b) THEN Word(Len(b) - 1) ELSE j
        from == IF i < 0 THEN 0 ELSE i
    IN IF i >= Len(b) \/ j < 0 \/ to < from THEN <<>>
       ELSE SubSeq(b, from + 1, Word(to + 1))

\* Fault: what lies behind the new bytes is cut off
SetrangeValueCuts(b, index, new) ==
    IF new = <<>> THEN b ELSE SubSeq(Padded(b, index), 1, index) \o new

\* setrange pushes each byte and, unless it belongs at the end, swaps it in
SetrangeValue(b, index, new) ==
    LET padded == Padded(b, index)
        step[i \in 0 .. Len(new)] ==
            IF i = 0 THEN padded
            ELSE IF index + i <= Len(step[i - 1])
                 THEN [step[i - 1] EXCEPT ![index + i] = new[i]]
                 ELSE Append(step[i - 1], new[i])
    IN IF new = <<>> THEN b ELSE step[Len(new)]

BitOf(offset) == Width - 1 - (offset % Width)
ByteOf(offset) == (offset \div Width) + 1
SetbitValue(b, offset, on) ==
    LET padded == Padded(b, ByteOf(offset))
    IN [padded EXCEPT ![ByteOf(offset)] =
            IF on THEN @ \cup {BitOf(offset)} ELSE @ \ {BitOf(offset)}]
GetbitValue(b, offset) ==
    ByteOf(offset) <= Len(b) /\ BitOf(offset) \in b[ByteOf(offset)]

\* bitcount and bitpos: start and end are cast to usize, and end + 1 wraps to 0 for
\* the last of them, which is also the end of a command that gives none.
BitRange(b, start, end) ==
    LET smaller(i) == IF i > Len(b) THEN Len(b) ELSE i
        from == smaller(Word(start))
        to == smaller(Word(Word(end) + 1))
    IN SubSeq(b, from + 1, to)
Bitcount(b, start, end) ==
    LET r == BitRange(b, start, end)
    IN Cardinality({<<i, j>> \in (1 .. Len(r)) \X (0 .. Width - 1) : j \in r[i]})
Bitpos(b, bit, start, end) ==
    LET r == BitRange(b, start, end)
        found == {o \in 0 .. Len(r) * Width - 1 : GetbitValue(r, o) = (bit = 1)}
    IN IF found = {} THEN (IF bit = 0 THEN 0 ELSE -1)
       ELSE (IF Word(start) > Len(b) THEN Len(b) ELSE Word(start)) * Width
            + CHOOSE o \in found : \A p \in found : o <= p

\* bitop: a source that is missing, short or no string reads as zeros
BitopValue(op, bs) ==
    LET longest == CHOOSE n \in {Len(bs[i]) : i \in DOMAIN bs} : \A i \in DOMAIN bs : Len(bs[i]) <= n
        byte(i, j) == IF j <= Len(bs[i]) THEN bs[i][j] ELSE {}
        combined(j) ==
            CASE op = "and" -> {x \in 0 .. Width - 1 : \A i \in DOMAIN bs : x \in byte(i, j)}
              [] op = "or"  -> UNION {byte(i, j) : i \in DOMAIN bs}
              [] op = "xor" -> {x \in 0 .. Width - 1 :
                                  Cardinality({i \in DOMAIN bs : x \in byte(i, j)}) % 2 = 1}
              [] op = "not" -> (0 .. Width - 1) \ byte(1, j)
    IN [j \in 1 .. longest |-> combined(j)]

\* ValueList::lrem pops from one end until it has seen limit occurrences (0: to the
\* end), keeps the others it popped, and joins them with the rest.
PoppedFor(l, left, limit, e) ==
    LET seen(n) == Cardinality({i \in DOMAIN l : l[i] = e /\ (IF left THEN i <= n ELSE i > Len(l) - n)})
        enough == {n \in 0 .. Len(l) : limit # 0 /\ seen(n) = limit}
    IN IF enough = {} THEN Len(l) ELSE CHOOSE n \in enough : \A k \in enough : n <= k

\* Fault: what was popped from the back comes before the rest
LremValueTurned(l, left, limit, e) ==
    LET n == PoppedFor(l, left, limit, e)
        others(part) == SelectSeq(part, LAMBDA x : x # e)
    IN IF left THEN others(SubSeq(l, 1, n)) \o SubSeq(l, n + 1, Len(l))
       ELSE others(SubSeq(l, Len(l) - n + 1, Len(l))) \o SubSeq(l, 1, Len(l) - n)

LremValue(l, left, limit, e) ==
    LET n == PoppedFor(l, left, limit, e)
        others(part) == SelectSeq(part, LAMBDA x : x # e)
    IN IF left THEN others(SubSeq(l, 1, n)) \o SubSeq(l, n + 1, Len(l))
       ELSE SubSeq(l, 1, Len(l) - n) \o others(SubSeq(l, Len(l) - n + 1, Len(l)))

-----------------------------------------------------------------------------
(* SORT of the numbers of a list or of the members of a sorted set *)

\* A stable sort, of numbers
SortedNumbers(l, desc) ==
    LET before(i, j) == IF l[i] = l[j] THEN i < j ELSE (l[i] > l[j]) = desc
        rank(i) == Cardinality({j \in DOMAIN l : before(j, i)})
    IN [n \in DOMAIN l |-> l[CHOOSE i \in DOMAIN l : rank(i) = n - 1]]

\* LIMIT: start + count wraps, and a slice that ends before it starts panics
SliceEnd(l, offset, count) ==
    LET start == IF Word(offset) > Len(l) THEN Len(l) ELSE Word(offset)
        end == Word(start + Word(count))
    IN <<start, IF end > Len(l) THEN Len(l) ELSE end>>

\* limit is NoExp or <<offset, count>>, store NoExp or a key
Sort(db, d, cmd) ==
    LET v == Get(db, <<d, cmd.key>>)
        elems == IF v.type = "list" THEN v.elems ELSE [i \in DOMAIN v.list |-> v.list[i][2]]
        sorted == SortedNumbers(elems, cmd.desc)
        slice == IF cmd.limit = NoExp THEN <<0, Len(sorted)>>
                 ELSE SliceEnd(sorted, cmd.limit[1], cmd.limit[2])
        result == SubSeq(sorted, slice[1] + 1, slice[2])
        s == <<d, cmd.store>>
    IN CASE v = NoValue -> Result("ok", db)
         [] v # NoValue /\ v.type \notin {"list", "zset"} -> Result("error", db)
         [] v.type \in {"list", "zset"} ->
              IF slice[2] < slice[1] THEN Result("panic", db)
              ELSE IF cmd.store = NoExp THEN Result("ok", db)
              ELSE IF result = <<>> THEN Result("ok", Remove(db, s))
              ELSE Result("ok", KeyUpdated(Store(GetOrCreate(db, s), s, List(result)), s))

-----------------------------------------------------------------------------
(* Bloom filters: database/src/bloom.rs over the external crate, as the set  *)
(* of items added and the number that looked new.                           *)

Bloom(items, n) == [type |-> "bloom", items |-> items, insertions |-> n]

\* `clashes`: the items all of whose bits others have set already
BfAdd(db, s, item, clashes) ==
    LET created == GetOrCreate(db, s)
        v == created.data[s]
        items == IF v = Nil THEN {} ELSE v.items
        seen == item \in items \/ (items # {} /\ item \in clashes)
    IN IF v.type \notin {"nil", "bloom"} THEN Result("error", created)
       ELSE Result("ok", KeyUpdated(Store(created, s,
                Bloom(items \cup {item},
                      (IF v = Nil THEN 0 ELSE v.insertions) + (IF seen THEN 0 ELSE 1))), s))

\* BF.RESERVE: the new filter holds nothing, is_empty, and key_updated removes it
BfReserve(db, s) ==
    LET created == GetOrCreate(db, s)
    IN IF created.data[s] # Nil THEN Result("error", created)
       ELSE Result("ok", KeyUpdated(Store(created, s, Bloom({}, 0)), s))

-----------------------------------------------------------------------------
(* The handlers *)

\* append, whose errors return early
AppendText(db, s, new) ==
    LET created == GetOrCreate(db, s)
        v == created.data[s]
    IN IF ~Writable(v) THEN Result("error", created)
       ELSE Result("ok", KeyUpdated(Store(created, s, Text(BytesOf(v) \o new)), s))

\* setrange and setbit report the key as updated in every case
Setrange(db, s, index, new) ==
    LET created == GetOrCreate(db, s)
        v == created.data[s]
    IN IF index < 0 THEN Result("error", db)
       ELSE IF Get(db, s) = NoValue /\ new = <<>> THEN Result("ok", db)
       ELSE IF ~Writable(v) THEN Result("error", KeyUpdated(created, s))
       ELSE Result("ok", KeyUpdated(Store(created, s, Text(SetrangeValue(BytesOf(v), index, new))), s))
Setbit(db, s, offset, on) ==
    LET created == GetOrCreate(db, s)
        v == created.data[s]
    IN IF offset < 0 THEN Result("error", db)
       ELSE IF ~Writable(v) THEN Result("error", KeyUpdated(created, s))
       ELSE Result("ok", KeyUpdated(Store(created, s, Text(SetbitValue(BytesOf(v), offset, on))), s))

\* bitop: the destination becomes a string whatever it was.  NOT takes one source,
\* and one that is missing or no string gives an empty text.
Bitop(db, d, cmd) ==
    LET source(i) == Get(db, <<d, cmd.keys[i]>>)
        bs == [i \in DOMAIN cmd.keys |->
                 IF source(i) # NoValue /\ Writable(source(i)) THEN BytesOf(source(i)) ELSE <<>>]
        s == <<d, cmd.dest>>
    IN IF cmd.bitop = "not" /\ Len(cmd.keys) # 1 THEN Result("error", db)
       ELSE Result("ok", KeyUpdated(Store(GetOrCreate(db, s), s, Text(BitopValue(cmd.bitop, bs))), s))

\* lrem: a negative count asks for the front
Lrem(db, s, count, e) ==
    LET opened == GetMut(db, s)
        v == opened.data[s]
        limit == IF count < 0 THEN -count ELSE count
    IN CASE v = NoValue \/ v = Nil -> Result("ok", KeyUpdated(opened, s))
         [] v # NoValue /\ v.type \notin {"nil", "list"} -> Result("error", KeyUpdated(opened, s))
         [] v.type = "list" ->
              Result("ok", KeyUpdated(Store(opened, s, List(LremValue(v.elems, count < 0, limit, e))), s))

StringHandler(db, d, cmd) ==
    LET s == <<d, cmd.key>>
    IN CASE cmd.op = "append" -> AppendText(db, s, cmd.bytes)
         [] cmd.op = "setrange" -> Setrange(db, s, cmd.index, cmd.bytes)
         [] cmd.op = "setbit" -> Setbit(db, s, cmd.index, cmd.on)
         [] cmd.op = "bitop" -> Bitop(db, d, cmd)
         [] cmd.op = "lrem" -> Lrem(db, s, cmd.count, cmd.member)
         [] cmd.op = "sort" -> Sort(db, d, cmd)
         [] cmd.op = "bf.add" -> BfAdd(db, s, cmd.member, cmd.clashes)
         [] cmd.op = "bf.reserve" -> BfReserve(db, s)
=============================================================================
