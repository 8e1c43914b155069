------------------------------ MODULE MCValues ------------------------------
(***************************************************************************)
(* A small instance of Values: two keys, two members, one finite score on  *)
(* either side of zero and the infinite ones, bytes of two bits.           *)
(***************************************************************************)
EXTENDS Values

CONSTANTS k1, k2

ZaddOf(k, pairs, flags) == [op |-> "zadd", key |-> k, pairs |-> pairs, flags |-> flags]
ZincrbyOf(k, n, e) == [op |-> "zincrby", key |-> k, by |-> n, member |-> e]
Zrange1(o, k, i, j) == [op |-> o, key |-> k, min |-> i, max |-> j]
StoreOf(o, d, ks, w, how) ==
    [op |-> o, key |-> d, dest |-> d, keys |-> ks, weights |-> w, aggregate |-> how]
BitopOf(o, d, ks) == [op |-> "bitop", key |-> d, bitop |-> o, dest |-> d, keys |-> ks]
SortOf(k, desc, limit, store) ==
    [op |-> "sort", key |-> k, desc |-> desc, limit |-> limit, store |-> store]

ZCmds ==
    {ZaddOf(k1, <<<<1, 1>>, <<0, 2>>>>, {}), ZaddOf(k1, <<<<-1, 2>>>>, {"ch"}),
     ZaddOf(k1, <<<<Inf, 1>>>>, {"nx"}), ZaddOf(k2, <<<<0, 1>>>>, {}),
     ZaddOf(k2, <<<<1, 2>>>>, {"xx"}), ZaddOf(k1, <<<<-Inf, 1>>>>, {"incr"}),
     ZincrbyOf(k1, -Inf, 1), ZincrbyOf(k1, 1, 2), ZincrbyOf(k2, NoExp, 1)}
    \cup {[op |-> "zrem", key |-> k1, members |-> {1}], [op |-> "zrem", key |-> k1, members |-> {1, 2}],
          Zrange1("zremrangebyscore", k1, Bound("excluded", 0), Unbounded),
          Zrange1("zremrangebylex", k1, Bound("included", 2), Unbounded),
          Zrange1("zremrangebyrank", k1, -1, 5),
          [op |-> "zrange", key |-> k1, min |-> -1, max |-> 0, rev |-> FALSE],
          [op |-> "zrangebylex", key |-> k1]}
    \cup {StoreOf("zunionstore", k2, <<k1, k2>>, <<1, -1>>, how) : how \in {"sum", "min", "max"}}
    \cup {StoreOf("zinterstore", k2, <<k1, k2>>, <<1, 1>>, "sum"),
          StoreOf("zinterstore", k1, <<k1, k2>>, <<-1, 1>>, "min")}

SCmds ==
    {[op |-> "append", key |-> k1, bytes |-> <<{0}>>],
     [op |-> "append", key |-> k2, bytes |-> <<{}, {1}>>],
     [op |-> "setrange", key |-> k1, index |-> 1, bytes |-> <<{0, 1}>>],
     [op |-> "setrange", key |-> k2, index |-> 0, bytes |-> <<>>],
     [op |-> "setbit", key |-> k1, index |-> 1, on |-> TRUE],
     [op |-> "setbit", key |-> k2, index |-> 2, on |-> FALSE]}
    \cup {BitopOf(o, k2, <<k1, k2>>) : o \in {"and", "or", "xor", "not"}}
    \cup {BitopOf("not", k1, <<k1>>),
          [op |-> "lrem", key |-> k2, count |-> -1, member |-> 1],
          [op |-> "lrem", key |-> k2, count |-> 0, member |-> 2],
          SortOf(k1, TRUE, NoExp, k2), SortOf(k1, FALSE, <<1, -1>>, NoExp),
          SortOf(k1, FALSE, <<0, 1>>, k2), SortOf(k2, FALSE, NoExp, k1),
          [op |-> "bf.add", key |-> k2, member |-> 1, clashes |-> {}],
          [op |-> "bf.add", key |-> k2, member |-> 2, clashes |-> {2}],
          [op |-> "bf.reserve", key |-> k2]}

AllCmds == ZCmds \cup SCmds
=============================================================================
