------------------------------- MODULE Values -------------------------------
(***************************************************************************)
(* One database of keys that hold texts, sorted sets, lists and bloom      *)
(* filters, and a client that runs the commands of Strings and SortedSets  *)
(* on them.  A command runs with the database mutex locked, so that the    *)
(* others see it whole; one that panics poisons the mutex for good.        *)
(***************************************************************************)
EXTENDS Strings

CONSTANTS Cmds,       \* the commands the client sends
          MaxScore,   \* bound of a finite score
          MaxLen      \* bound of the length of a text, a list, a filter's count

VARIABLES db, poisoned
vars == <<db, poisoned>>

Scores == (-MaxScore .. MaxScore) \cup {Inf, -Inf}

Handler(d, cmd) ==
    IF cmd.op \in SortedSetOps THEN SortedSetHandler(d, 0, cmd) ELSE StringHandler(d, 0, cmd)

\* The model's bound on what a command may leave
Bounded(v) ==
    /\ v.type = "zset" => {v.scores[e] : e \in DOMAIN v.scores} \subseteq Scores
    /\ v.type = "string" => Len(v.bytes) <= MaxLen
    /\ v.type = "list" => Len(v.elems) <= MaxLen
    /\ v.type = "bloom" => v.insertions <= MaxLen

Init ==
    /\ db = NewDatabase
    /\ poisoned = FALSE

Request(cmd) ==
    LET r == Handler(db, cmd)
    IN /\ ~poisoned
       /\ \A s \in Slots : Bounded(r.db.data[s])
       /\ db' = r.db
       /\ poisoned' = (r.reply = "panic")

Next == \E cmd \in Cmds : Request(cmd)
Spec == Init /\ [][Next]_vars

-----------------------------------------------------------------------------
(* Properties *)

ZSets == {db.data[s] : s \in {x \in Slots : db.data[x].type = "zset"}}
Entries(l) == {l[i] : i \in DOMAIN l}
Kinds == {"included", "excluded"}
ScoreBounds == {Unbounded} \cup {Bound(k, x) : k \in Kinds, x \in Scores}

\* The skip list and the map of a sorted set hold the same members with the same
\* scores, in strict order, whatever was added, moved, removed or aggregated; only
\* ZINCRBY whose sum is no number (of an infinite score) leaves a member out of the
\* list.  A value has one of the types of enum Value.
Mirrored ==
    /\ \A s \in Slots : db.data[s].type \in {"none", "nil", "string", "zset", "list", "bloom"}
    /\ \A z \in ZSets :
        /\ \A i, j \in DOMAIN z.list : i < j => Before(z.list[i], z.list[j])
        /\ \A e \in Entries(z.list) : e[2] \in DOMAIN z.scores /\ z.scores[e[2]] = e[1]
        /\ \A e \in DOMAIN z.scores :
              <<z.scores[e], e>> \notin Entries(z.list) => z.scores[e] \in {Inf, -Inf}

\* What the reads answer follows from the map alone: ZRANGEBYSCORE has the members with
\* a score between the bounds (upper_boundary and the empty text do what they are for)
\* and LIMIT a part of them from either end; ZRANK the number of members before one;
\* ZRANGE those with the ranks asked for, counted from the end if negative; and
\* following ZSCAN's cursors shows every member once.
Whole(z) == Len(z.list) = Cardinality(DOMAIN z.scores)
Rank(z, e) ==
    Cardinality({x \in DOMAIN z.scores : Before(<<z.scores[x], x>>, <<z.scores[e], e>>)})
Place(z, e, rev) == IF rev THEN Cardinality(DOMAIN z.scores) - 1 - Rank(z, e) ELSE Rank(z, e)
InScores(x, min, max) ==
    /\ min.kind = "included" => min.at <= x
    /\ min.kind = "excluded" => min.at < x
    /\ max.kind = "included" => x <= max.at
    /\ max.kind = "excluded" => x < max.at
Increasing(min, max) == min.kind = "unbounded" \/ max.kind = "unbounded" \/ min.at <= max.at
MembersOf(l) == {e[2] : e \in Entries(l)}
ReadsAgree ==
    \A s \in Slots : LET z == db.data[s] IN z.type = "zset" /\ Whole(z) =>
        /\ \A min, max \in ScoreBounds : \A rev \in BOOLEAN : Increasing(min, max) =>
              LET r == GenericZrangebyscore(db, s, IF rev THEN max ELSE min,
                                            IF rev THEN min ELSE max, 0, -1, rev)
              IN /\ MembersOf(r) = {e \in DOMAIN z.scores : InScores(z.scores[e], min, max)}
                 /\ \A i, j \in DOMAIN r : i < j => Place(z, r[i][2], rev) < Place(z, r[j][2], rev)
        /\ \A rev \in BOOLEAN : \A offset, count \in 0 .. 2 :
              MembersOf(GenericZrangebyscore(db, s, Unbounded, Unbounded, offset, count, rev)) =
                {e \in DOMAIN z.scores : Place(z, e, rev) \in offset .. offset + count - 1}
        /\ \A e \in DOMAIN z.scores : \A rev \in BOOLEAN :
              GenericZrank(db, s, e, rev) = Place(z, e, rev)
        /\ \A i, j \in -3 .. 2 : \A rev \in BOOLEAN :
              LET n == Len(z.list)
                  r == GenericZrange(db, s, i, j, rev)
              IN n > 0 =>
                   /\ MembersOf(r) = {e \in DOMAIN z.scores :
                          FromEnd(i, n) <= Place(z, e, rev) /\ Place(z, e, rev) <= FromEnd(j, n)}
                   /\ \A k, l \in DOMAIN r : k < l => Place(z, r[k][2], rev) < Place(z, r[l][2], rev)
        /\ \A count \in 0 .. 2 :
              LET n == IF count = 0 THEN 10 ELSE count
                  page(i) == Zscan(db, s, i * n, count)
              IN \A i \in 0 .. Len(z.list) - 1 : i * n < Len(z.list) =>
                   /\ page(i).page = SubSeq(z.list, i * n + 1, i * n + Len(page(i).page))
                   /\ page(i).next = IF i * n + Len(page(i).page) = Len(z.list) THEN 0 ELSE (i + 1) * n

\* ZREMRANGEBYSCORE, ZREMRANGEBYLEX and ZREMRANGEBYRANK remove what the range command
\* shows for the same bounds, and nothing else: the position they start from and the
\* number they remove are found by two different counts.
RemovalMatchesRange ==
    \A z \in {y \in ZSets : Whole(y)} :
        /\ \A min, max \in ScoreBounds :
              Increasing(min, max) =>
              Entries(ZremRangeByScore(z, min, max).list) =
                Entries(z.list) \ Entries(ZrangeByScore(z, min, max, 0, USize - 1, FALSE))
        /\ \A min, max \in {Unbounded} \cup {Bound(k, e) : k \in Kinds, e \in Elems} :
              Increasing(min, max) =>
              Entries(ZremRangeByLex(z, min, max).list) =
                Entries(z.list) \ Entries(ZrangeByLex(z, min, max, 0, USize - 1, FALSE))
        /\ \A i, j \in -3 .. 2 :
              z.list # <<>> => Entries(ZremRangeByRank(z, i, j).list) =
                                 Entries(z.list) \ Entries(Zrange(z, i, j, FALSE))

\* ZUNIONSTORE has every member of its operands and ZINTERSTORE those they share,
\* with the smallest, largest or added score, when no score is infinite: then the
\* order of the operands does not show either.
Finite(z) == \A e \in DOMAIN z.scores : z.scores[e] \notin {Inf, -Inf}
AggregateSound ==
    \A x, y \in {z \in ZSets \cup {NoZSet} : Finite(z)} : \A w \in {<<1, 1>>, <<-1, 1>>} :
        \A how \in {"sum", "min", "max"} :
            LET u == ZunionValue(<<x, y>>, w, how)
                i == ZinterValue(<<x, y>>, w, how)
                score(e) == LET p == w[1] * x.scores[e]
                                q == w[2] * y.scores[e]
                            IN IF how = "sum" THEN p + q
                               ELSE IF (p < q) = (how = "min") THEN p ELSE q
            IN /\ DOMAIN u.scores = DOMAIN x.scores \cup DOMAIN y.scores
               /\ DOMAIN i.scores = DOMAIN x.scores \cap DOMAIN y.scores
               /\ \A e \in DOMAIN i.scores : u.scores[e] = score(e) /\ i.scores[e] = score(e)
               /\ u = ZunionValue(<<y, x>>, <<w[2], w[1]>>, how)

\* Whoever watches a key or waits for it learns of every change of what it holds:
\* its members, bytes or elements.  (A score that ZADD changes without CH counts for
\* nothing, and is not told; nor is the removal by SORT STORE of an empty result.)
Holds(v) ==
    CASE v.type = "zset" -> DOMAIN v.scores
      [] v.type = "string" -> v.bytes
      [] v.type = "list" -> v.elems
      [] v.type = "bloom" -> v.items
      [] v.type \in {"none", "nil"} -> NoExp
ChangeTold ==
    \A cmd \in {c \in Cmds : c.op # "sort"} :
        LET watched == [db EXCEPT !.watched = [s \in Slots |-> Clients]]
            after == Handler(watched, cmd).db
        IN \A s \in Slots :
              (<<db.data[s].type, Holds(db.data[s])>> # <<after.data[s].type, Holds(after.data[s])>>
                 /\ after.data[s] # Nil)
              => after.watched[s] = {}

\* SETRANGE, SETBIT and BITOP write the bytes and bits they name and no others, with
\* zeros for what was not there, and the reads find them again.
Zero(b, i) == IF i <= Len(b) THEN b[i] ELSE {}
WritesAddressed ==
    /\ \A s \in Slots : \A i \in 0 .. MaxLen : db.data[s].type = "string" =>
          LET b == db.data[s].bytes
          IN /\ \A new \in {<<{}>>, <<{0}, {0}>>} :
                  LET r == SetrangeValue(b, i, new)
                  IN /\ GetrangeValue(r, i, i + Len(new) - 1) = new
                     /\ \A j \in 1 .. Len(r) : j \notin i + 1 .. i + Len(new) => r[j] = Zero(b, j)
                     /\ \A j \in 1 .. Len(b) : j <= Len(r)
             /\ \A on \in BOOLEAN : \A o \in 0 .. (MaxLen + 1) * Width :
                  GetbitValue(SetbitValue(b, i, on), o) = IF o = i THEN on ELSE GetbitValue(b, o)
             /\ BitopValue("not", <<BitopValue("not", <<b>>)>>) = b
             /\ \A t \in Slots : db.data[t].type = "string" =>
                  LET c == db.data[t].bytes
                  IN \A o \in 0 .. MaxLen * Width - 1 :
                       /\ GetbitValue(BitopValue("or", <<b, c>>), o) = (GetbitValue(b, o) \/ GetbitValue(c, o))
                       /\ GetbitValue(BitopValue("xor", <<b, c>>), o) = (GetbitValue(b, o) # GetbitValue(c, o))
                       /\ GetbitValue(BitopValue("and", <<b, c>>), o) = (GetbitValue(b, o) /\ GetbitValue(c, o))

\* LREM takes as many occurrences as asked for, the first or the last ones, and keeps the
\* order of the rest, on every list of MaxLen + 2 elements or fewer; SORT STORE replaces
\* the destination by the numbers in order.
LremExpected ==
    \A n \in 0 .. MaxLen + 2 : \A l \in [1 .. n -> Elems] : \A limit \in 0 .. 2 : \A left \in BOOLEAN :
        \A e \in Elems :
            LET at == {i \in 1 .. n : l[i] = e}
                rank(i) == Cardinality({j \in at : IF left THEN j <= i ELSE j >= i})
                stays == {i \in 1 .. n : l[i] # e \/ (limit # 0 /\ rank(i) > limit)}
                r == LremValue(l, left, limit, e)
            IN /\ Len(r) = Cardinality(stays)
               /\ \A i \in stays : r[Cardinality({j \in stays : j <= i})] = l[i]
ListsKept ==
    /\ LremExpected
    /\ \A cmd \in {c \in Cmds : c.op = "sort"} :
          LET r == Handler(db, cmd)
              l == Elements(r.db.data[<<0, cmd.store>>])
          IN cmd.store # NoExp /\ r.reply = "ok" /\ r.db # db /\ cmd.limit = NoExp =>
               /\ \A i, j \in DOMAIN l : i < j => (IF cmd.desc THEN l[j] <= l[i] ELSE l[i] <= l[j])
               /\ Len(l) = Len(IF db.data[<<0, cmd.key>>].type = "zset"
                               THEN db.data[<<0, cmd.key>>].list ELSE Elements(Get(db, <<0, cmd.key>>)))
=============================================================================
