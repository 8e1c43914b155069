----------------------------- MODULE SortedSets -----------------------------
(***************************************************************************)
(* Sorted sets: database/src/zset.rs, the z methods of Value, and the z    *)
(* commands of command/src/command.rs as operators over the record of      *)
(* Database.  A sorted set is a skip list of pairs <<score, member>> and a *)
(* map from members to scores, which every operation must keep in step.    *)
(*                                                                         *)
(* A score is a number, Inf, -Inf, or NaN; members are numbers too, which  *)
(* stand for texts in their order.  OrderedSkipList is the external crate: *)
(* a sequence in the order of Before.  Machine words are USize values wide *)
(* and wrap, as they do in a release build.                                *)
(***************************************************************************)
EXTENDS Database
LOCAL S == INSTANCE SequencesExt

CONSTANTS USize,      \* stands for 2^64: usize is 0 .. USize - 1
          Inf,        \* stands for f64::INFINITY
          NaN         \* the result of Inf - Inf: no order with any score

ASSUME SortedSetsAssumption ==
    /\ USize \in Nat \ {0} /\ Inf \in Nat \ {0} /\ NaN \in Nat /\ NaN > Inf
    /\ Elems \subseteq 0 .. Inf

Top == Inf + 1        \* upper_boundary: above every member

Plus(x, y) ==
    CASE NaN \in {x, y} \/ {x, y} = {Inf, -Inf} -> NaN
      [] NaN \notin {x, y} /\ {x, y} # {Inf, -Inf} ->
           IF {x, y} \cap {Inf, -Inf} # {} THEN CHOOSE i \in {x, y} \cap {Inf, -Inf} : TRUE
           ELSE x + y

Times(w, x) ==
    IF x \in {Inf, -Inf}
    THEN IF w = 0 THEN NaN ELSE IF w > 0 THEN x ELSE -x
    ELSE w * x

Lt(x, y) == NaN \notin {x, y} /\ x < y

\* `as usize`, and the arithmetic of a release build
Word(i) == i % USize

-----------------------------------------------------------------------------
(* The value: enum ValueSortedSet *)

ZSet(l, f) == [type |-> "zset", list |-> l, scores |-> f]
NoZSet == ZSet(<<>>, <<>>)

\* Value's methods work on nil, as an empty sorted set, and on sorted sets
Sortable(v) == v.type \in {"nil", "zset"}
AsZSet(v) == IF v.type = "zset" THEN v ELSE NoZSet

\* PartialOrd of SortedSetMember
Before(x, y) == x[1] < y[1] \/ (x[1] = y[1] /\ x[2] < y[2])

\* OrderedSkipList::insert, remove, remove_index (n times) and range
InsertEntry(l, e) ==
    LET before == SelectSeq(l, LAMBDA x : ~Before(e, x))
    IN before \o <<e>> \o SelectSeq(l, LAMBDA x : Before(e, x))
RemoveEntry(l, e) == SelectSeq(l, LAMBDA x : x # e)
RemoveIndex(l, pos, n) == SubSeq(l, 1, pos) \o SubSeq(l, pos + n + 1, Len(l))
Within(l, m1, m2) ==
    SelectSeq(l, LAMBDA e :
        /\ m1.kind = "included" => ~Before(e, m1.at)
        /\ m1.kind = "excluded" => Before(m1.at, e)
        /\ m2.kind = "included" => ~Before(m2.at, e)
        /\ m2.kind = "excluded" => Before(e, m2.at))

\* Fault: the old entry of the skip list stays beside the new one
PutTwice(z, e, score) ==
    ZSet(InsertEntry(z.list, <<score, e>>),
         [x \in DOMAIN z.scores \cup {e} |-> IF x = e THEN score ELSE z.scores[x]])

Put(z, e, score) ==
    LET rest == IF e \in DOMAIN z.scores THEN RemoveEntry(z.list, <<z.scores[e], e>>) ELSE z.list
    IN ZSet(InsertEntry(rest, <<score, e>>),
            [x \in DOMAIN z.scores \cup {e} |-> IF x = e THEN score ELSE z.scores[x]])

\* ValueSortedSet::zadd.  The flags are a set.  `added` is what it returns.
ZaddValue(z, s, e, flags, zero_on_nan) ==
    LET has == e \in DOMAIN z.scores
        same == has /\ "ch" \in flags /\ "incr" \notin flags /\ z.scores[e] = s
        sum == IF has /\ "incr" \in flags THEN Plus(z.scores[e], s) ELSE s
        score == IF sum = NaN /\ zero_on_nan THEN 0 ELSE sum
    IN IF (has /\ "nx" \in flags) \/ (~has /\ "xx" \in flags) \/ same
       THEN [ok |-> TRUE, added |-> FALSE, zset |-> z]
       ELSE IF score = NaN THEN [ok |-> FALSE, added |-> FALSE, zset |-> z]
       ELSE [ok |-> TRUE, added |-> ~has \/ "ch" \in flags, zset |-> Put(z, e, score)]

\* ValueSortedSet::zincrby: the entry has left the skip list when the sum is found
\* to be no number.
ZincrbyValue(z, by, e) ==
    LET has == e \in DOMAIN z.scores
        sum == Plus(IF has THEN z.scores[e] ELSE 0, by)
    IN IF sum = NaN
       THEN [ok |-> FALSE, zset |-> ZSet(RemoveEntry(z.list, <<z.scores[e], e>>), z.scores)]
       ELSE [ok |-> TRUE, zset |-> Put(z, e, sum)]

\* ValueSortedSet::zrem, of several members in turn
ZremValue(z, es) ==
    ZSet(SelectSeq(z.list, LAMBDA x :
            ~(x[2] \in es \cap DOMAIN z.scores /\ x[1] = z.scores[x[2]])),
         [e \in DOMAIN z.scores \ es |-> z.scores[e]])

-----------------------------------------------------------------------------
(* Ranges.  A bound is unbounded, or includes or excludes what it is at.    *)

Bound(k, x) == [kind |-> k, at |-> x]
Unbounded == Bound("unbounded", 0)
Turned(b) == Bound(IF b.kind = "included" THEN "excluded" ELSE "included", b.at)

\* rangebyscore, zrangebyscore: the empty text and upper_boundary make an entry
\* below or above every one of its score.
ScoreMin(b) == Bound(b.kind, <<b.at, IF b.kind = "excluded" THEN Top ELSE 0>>)
ScoreMax(b) == Bound(b.kind, <<b.at, IF b.kind = "included" THEN Top ELSE 0>>)
\* Fault: the entries of the score itself are left out of an inclusive range
RangeByScoreShort(z, min, max) ==
    Within(z.list, ScoreMin(min), Bound(max.kind, <<max.at, 0>>))

RangeByScore(z, min, max) == Within(z.list, ScoreMin(min), ScoreMax(max))
Zcount(z, min, max) == Len(RangeByScore(z, min, max))

\* rangebylex: the score of the first entry goes with both bounds
RangeByLex(z, min, max) ==
    IF z.list = <<>> THEN <<>>
    ELSE Within(z.list, Bound(min.kind, <<z.list[1][1], min.at>>),
                        Bound(max.kind, <<z.list[1][1], max.at>>))
Zlexcount(z, min, max) == Len(RangeByLex(z, min, max))

\* normalize_position and normalize_range: the empty range is <<1, 0>>
FromEnd(i, len) == IF i < 0 THEN i + len ELSE i
NormalizeRange(len, first, last, rev) ==
    LET i == FromEnd(IF rev THEN -last - 1 ELSE first, len)
        j == FromEnd(IF rev THEN -first - 1 ELSE last, len)
    IN IF i >= len \/ j < 0 THEN <<1, 0>>
       ELSE <<IF i < 0 THEN 0 ELSE i, IF j >= len THEN Word(len - 1) ELSE j>>

\* zrange, zrevrange: the first entry is unwrapped, so that an empty skip list
\* below a map that is not empty panics.
Zrange(z, first, last, rev) ==
    LET r == NormalizeRange(Len(z.list), first, last, rev)
        l == SubSeq(z.list, r[1] + 1, r[2] + 1)
    IN IF r[2] < r[1] THEN <<>>
       ELSE IF rev THEN S!Reverse(l) ELSE l
ZrangePanics(z, first, last, rev) ==
    LET r == NormalizeRange(Len(z.list), first, last, rev)
    IN r[2] >= r[1] /\ z.list = <<>>

\* ValueSortedSet::range: skip and take, from the end if reversed
Limited(l, offset, count, rev) ==
    LET c == IF rev /\ Word(count + offset) > Len(l)
             THEN IF Len(l) > offset THEN Len(l) - offset ELSE 0
             ELSE count
        turned == IF rev THEN S!Reverse(l) ELSE l
    IN SubSeq(turned, offset + 1, IF offset + c > Len(l) THEN Len(l) ELSE offset + c)
ZrangeByScore(z, min, max, offset, count, rev) ==
    Limited(RangeByScore(z, IF rev THEN max ELSE min, IF rev THEN min ELSE max), offset, count, rev)
ZrangeByLex(z, min, max, offset, count, rev) ==
    Limited(RangeByLex(z, IF rev THEN max ELSE min, IF rev THEN min ELSE max), offset, count, rev)

\* zrank: NoExp for a member the map lacks, otherwise the entries up to it, less one
Zrank(z, e) ==
    IF e \notin DOMAIN z.scores THEN NoExp
    ELSE Len(Within(z.list, Unbounded, Bound("included", <<z.scores[e], e>>))) - 1

\* zscan: the page at a cursor, and the cursor of the next one (0: none)
ZscanPage(z, cursor, count) ==
    LET end == IF cursor + count > Len(z.list) THEN Len(z.list) ELSE cursor + count
    IN IF cursor >= Len(z.list) THEN [next |-> 0, page |-> <<>>]
       ELSE [next |-> IF end = Len(z.list) THEN 0 ELSE end, page |-> SubSeq(z.list, cursor + 1, end)]

\* zremrangebyscore, zremrangebylex, zremrangebyrank: count entries from a position
DropRange(z, pos, n) ==
    LET gone == {z.list[i][2] : i \in pos + 1 .. pos + n}
    IN ZSet(RemoveIndex(z.list, pos, n), [e \in DOMAIN z.scores \ gone |-> z.scores[e]])
\* Fault: an excluded minimum starts the removal at the minimum itself
ZremRangeByScoreEarly(z, min, max) ==
    DropRange(z, IF min.kind = "unbounded" THEN 0
                 ELSE Zcount(z, Unbounded, Bound("excluded", min.at)),
              Zcount(z, min, max))

ZremRangeByScore(z, min, max) ==
    DropRange(z, IF min.kind = "unbounded" THEN 0 ELSE Zcount(z, Unbounded, Turned(min)),
              Zcount(z, min, max))
ZremRangeByLex(z, min, max) ==
    DropRange(z, IF min.kind = "unbounded" THEN 0 ELSE Zlexcount(z, Unbounded, Turned(min)),
              Zlexcount(z, min, max))
ZremRangeByRank(z, first, last) ==
    LET r == NormalizeRange(Len(z.list), first, last, FALSE)
    IN IF r[2] < r[1] THEN z ELSE DropRange(z, r[1], Word(r[2] - r[1] + 1))

-----------------------------------------------------------------------------
(* ZUNIONSTORE and ZINTERSTORE *)

SortedScores(f) == S!SetToSortSeq({<<f[e], e>> : e \in DOMAIN f}, Before)
FromScores(f) == ZSet(SortedScores(f), f)

\* ValueSortedSet::zunion, for one member: what zadd makes of its scores in turn
\* (NoExp: not in the result yet)
UnionScore(acc, x, aggregate) ==
    LET old == IF acc = NoExp THEN (IF aggregate = "max" THEN -Inf ELSE Inf) ELSE acc
        sum == IF acc = NoExp THEN x ELSE Plus(acc, x)
    IN CASE aggregate = "sum" -> IF sum = NaN THEN 0 ELSE sum
         [] aggregate = "max" -> IF Lt(old, x) THEN x ELSE acc
         [] aggregate = "min" -> IF Lt(x, old) THEN x ELSE acc

\* ValueSortedSet::zinter, for one member; NaN becomes 0 at the end
InterScore(acc, x, aggregate) ==
    CASE aggregate = "sum" -> Plus(acc, x)
      [] aggregate = "max" -> IF Lt(acc, x) THEN x ELSE acc
      [] aggregate = "min" -> IF Lt(x, acc) THEN x ELSE acc

Weighted(zs, weights, i, e) == Times(weights[i], zs[i].scores[e])
\* Fault: the members of the first set only
ZunionFirst(zs, weights, aggregate) ==
    FromScores([e \in DOMAIN zs[1].scores |-> Weighted(zs, weights, 1, e)])

ZunionValue(zs, weights, aggregate) ==
    LET all == UNION {DOMAIN zs[i].scores : i \in DOMAIN zs}
        score[e \in all, i \in 0 .. Len(zs)] ==
            IF i = 0 THEN NoExp
            ELSE IF e \notin DOMAIN zs[i].scores THEN score[e, i - 1]
            ELSE UnionScore(score[e, i - 1], Weighted(zs, weights, i, e), aggregate)
        kept == {e \in all : score[e, Len(zs)] # NoExp}
    IN FromScores([e \in kept |-> score[e, Len(zs)]])
ZinterValue(zs, weights, aggregate) ==
    LET all == {e \in DOMAIN zs[1].scores : \A i \in DOMAIN zs : e \in DOMAIN zs[i].scores}
        score[e \in all, i \in 1 .. Len(zs)] ==
            IF i = 1 THEN Weighted(zs, weights, 1, e)
            ELSE InterScore(score[e, i - 1], Weighted(zs, weights, i, e), aggregate)
    IN FromScores([e \in all |->
           IF score[e, Len(zs)] = NaN THEN 0 ELSE score[e, Len(zs)]])

-----------------------------------------------------------------------------
(* The handlers *)

\* Fault: only the last pair decides whether the key is reported
ZaddTellsLast(db, s, pairs, flags) ==
    LET created == GetOrCreate(db, s)
        v == created.data[s]
        step[i \in 0 .. Len(pairs)] ==
            IF i = 0 THEN [ok |-> TRUE, count |-> 0, zset |-> AsZSet(v)]
            ELSE LET r == ZaddValue(step[i - 1].zset, pairs[i][1], pairs[i][2], flags, FALSE)
                 IN [ok |-> r.ok, zset |-> r.zset, count |-> IF r.added THEN 1 ELSE 0]
        last == step[Len(pairs)]
        kept == IF v = Nil /\ "xx" \in flags THEN created ELSE Store(created, s, last.zset)
    IN IF ~Sortable(v) \/ ~last.ok THEN Result("error", created)
       ELSE Result("ok", IF last.count > 0 THEN KeyUpdated(kept, s) ELSE kept)

\* zadd: pairs in turn; several pairs come without "incr", and then nothing fails
\* after the first.  A key is reported as updated if something counted, and ZADD
\* XX leaves the nil that get_or_create made.
Zadd(db, s, pairs, flags) ==
    LET created == GetOrCreate(db, s)
        v == created.data[s]
        step[i \in 0 .. Len(pairs)] ==
            IF i = 0 THEN [ok |-> TRUE, count |-> 0, zset |-> AsZSet(v)]
            ELSE LET r == ZaddValue(step[i - 1].zset, pairs[i][1], pairs[i][2], flags, FALSE)
                 IN [ok |-> r.ok, zset |-> r.zset,
                     count |-> step[i - 1].count + (IF r.added THEN 1 ELSE 0)]
        last == step[Len(pairs)]
        kept == IF v = Nil /\ "xx" \in flags THEN created ELSE Store(created, s, last.zset)
    IN IF ~Sortable(v) \/ ~last.ok THEN Result("error", created)
       ELSE Result("ok", IF last.count > 0 THEN KeyUpdated(kept, s) ELSE kept)

\* zincrby: the number is looked at when the key was created (NoExp: a text that is
\* not one)
Zincrby(db, s, by, e) ==
    LET created == GetOrCreate(db, s)
        v == created.data[s]
        r == ZincrbyValue(AsZSet(v), by, e)
    IN CASE by = NoExp \/ ~Sortable(v) -> Result("error", created)
         [] by # NoExp /\ Sortable(v) /\ r.ok -> Result("ok", KeyUpdated(Store(created, s, r.zset), s))
         [] by # NoExp /\ Sortable(v) /\ ~r.ok -> Result("error", Store(created, s, r.zset))

\* What zrem and the zremrange commands share: w is what stays of a sorted set
ShrinkZSet(db, s, w) ==
    LET opened == GetMut(db, s)
        v == opened.data[s]
    IN CASE v = NoValue \/ v = Nil -> Result("ok", opened)
         [] v # NoValue /\ ~Sortable(v) -> Result("error", opened)
         [] v.type = "zset" ->
              Result("ok", IF w = v THEN opened ELSE KeyUpdated(Store(opened, s, w), s))

ZinterUnionStore(db, d, cmd) ==
    LET vals == [i \in DOMAIN cmd.keys |->
                   IF Get(db, <<d, cmd.keys[i]>>) = NoValue THEN Nil ELSE Get(db, <<d, cmd.keys[i]>>)]
        zs == [i \in DOMAIN vals |-> AsZSet(vals[i])]
        s == <<d, cmd.dest>>
        v == IF cmd.op = "zunionstore" THEN ZunionValue(zs, cmd.weights, cmd.aggregate)
             ELSE ZinterValue(zs, cmd.weights, cmd.aggregate)
    IN IF \E i \in DOMAIN vals : ~Sortable(vals[i]) THEN Result("error", db)
       ELSE Result("ok", KeyUpdated(Store(GetOrCreate(db, s), s, v), s))

\* The commands that read: what they answer for a missing key, for a value that is no
\* sorted set, and otherwise
Reading(db, s, absent, answer) ==
    LET v == Get(db, s)
    IN CASE v = NoValue -> absent
         [] v # NoValue /\ ~Sortable(v) -> "error"
         [] v # NoValue /\ Sortable(v) -> answer

\* The sorted set that is read
Read(db, s) == AsZSet(Get(db, s))

GenericZrange(db, s, first, last, rev) ==
    Reading(db, s, <<>>, Zrange(Read(db, s), first, last, rev))
GenericZrangebyscore(db, s, min, max, offset, count, rev) ==
    Reading(db, s, <<>>, ZrangeByScore(Read(db, s), min, max, Word(offset), Word(count), rev))
GenericZrangebylex(db, s, min, max, offset, count, rev) ==
    Reading(db, s, <<>>, ZrangeByLex(Read(db, s), min, max, Word(offset), Word(count), rev))
GenericZrank(db, s, e, rev) ==
    LET z == Read(db, s)
        rank == Zrank(z, e)
    IN Reading(db, s, NoExp,
               IF rank # NoExp /\ rev THEN Cardinality(DOMAIN z.scores) - rank - 1 ELSE rank)
\* zscan: COUNT 0 is the default
Zscan(db, s, cursor, count) ==
    Reading(db, s, [next |-> 0, page |-> <<>>],
            ZscanPage(Read(db, s), cursor, IF count = 0 THEN 10 ELSE count))

\* ZRANGE and ZRANGEBYLEX unwrap the first entry of the skip list
ReadFirst(db, s, panics) ==
    Result(IF Get(db, s).type = "zset" /\ panics THEN "panic" ELSE "ok", db)

SortedSetOps == {"zadd", "zincrby", "zrem", "zremrangebyscore", "zremrangebylex",
                 "zremrangebyrank", "zunionstore", "zinterstore", "zrange", "zrangebylex"}

SortedSetHandler(db, d, cmd) ==
    LET s == <<d, cmd.key>>
        v == GetMut(db, s).data[s]
        left == CASE cmd.op = "zrem" -> ZremValue(v, cmd.members)
                  [] cmd.op = "zremrangebyscore" -> ZremRangeByScore(v, cmd.min, cmd.max)
                  [] cmd.op = "zremrangebylex" -> ZremRangeByLex(v, cmd.min, cmd.max)
                  [] cmd.op = "zremrangebyrank" -> ZremRangeByRank(v, cmd.min, cmd.max)
        noFirst == IF cmd.op = "zrange" THEN ZrangePanics(Read(db, s), cmd.min, cmd.max, cmd.rev)
                   ELSE Read(db, s).list = <<>>
    IN CASE cmd.op = "zadd" -> Zadd(db, s, cmd.pairs, cmd.flags)
         [] cmd.op = "zincrby" -> Zincrby(db, s, cmd.by, cmd.member)
         [] cmd.op \in {"zrem", "zremrangebyscore", "zremrangebylex", "zremrangebyrank"} ->
              ShrinkZSet(db, s, left)
         [] cmd.op \in {"zunionstore", "zinterstore"} -> ZinterUnionStore(db, d, cmd)
         [] cmd.op \in {"zrange", "zrangebylex"} -> ReadFirst(db, s, noFirst)
=============================================================================
