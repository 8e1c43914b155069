------------------------------ MODULE MCServer ------------------------------
(***************************************************************************)
(* Small instances of Server: command sets, WATCH sets and symmetry that   *)
(* the .cfg files bind to its CONSTANTS.                                   *)
(***************************************************************************)
EXTENDS Server, TLC

CONSTANTS k1, k2, a, b

SetTo(k, i) == [op |-> "set", key |-> k, val |-> i, nx |-> FALSE, xx |-> FALSE, px |-> NoExp]
SetPx(k, i, ms) == [SetTo(k, i) EXCEPT !.px = ms]
SetNx(k, i) == [SetTo(k, i) EXCEPT !.nx = TRUE]
SetXx(k, i) == [SetTo(k, i) EXCEPT !.xx = TRUE]
Key(o, k) == [op |-> o, key |-> k]
IncrBy(k, n) == [op |-> "incrby", key |-> k, by |-> n]
Pexpire(k, ms) == [op |-> "pexpire", key |-> k, ms |-> ms]
PexpireAt(k, t) == [op |-> "pexpireat", key |-> k, ms |-> t]
Push(k, es, right, create) ==
    [op |-> "push", key |-> k, elems |-> es, right |-> right, create |-> create]
Lpush(k, e) == Push(k, <<e>>, FALSE, TRUE)
Rpush(k, e) == Push(k, <<e>>, TRUE, TRUE)
Pop(k, right) == [op |-> "pop", key |-> k, right |-> right]
Two(o, k, d) == [op |-> o, key |-> k, dest |-> d]
Move(k, d) == [op |-> "move", key |-> k, to |-> d]
SelectDb(i) == [op |-> "select", index |-> i]
Blpop(ks, t) == [op |-> "bpop", keys |-> ks, right |-> FALSE, timeout |-> t]
Brpoplpush(k, d, t) == [op |-> "brpoplpush", key |-> k, dest |-> d, timeout |-> t]
Flush == {[op |-> "flushdb"], [op |-> "flushall"]}

ClientSymmetry == Permutations(Clients)

\* WATCH and EXEC over two databases and keys that expire, change type and are
\* flushed: the key a client watches belongs to the database it had selected.
WatchCmds ==
    {SetPx(k1, 0, 1), Key("persist", k1), Lpush(k1, a), SelectDb(1), [op |-> "flushall"]}

Watch1 == {{k1}}
NoWatch == {}

\* Blocking pops against every way a list can come to a key and go again
BlockCmds ==
    {Blpop(<<k1, k2>>, 0), Brpoplpush(k2, k1, 0), Lpush(k1, a), Pop(k1, TRUE),
     Push(k2, <<a>>, TRUE, FALSE), SetTo(k2, 0), Two("rename", k1, k2), Two("rename", k2, k1),
     Two("rpoplpush", k1, k2), Two("rpoplpush", k2, k2), Key("del", k2)}

\* Blocking pops with timeouts, EXEC, values that are no lists and databases that
\* do not exist
TimeoutCmds ==
    {Blpop(<<k1>>, 1), Blpop(<<k1>>, 0), Rpush(k1, a), Pop(k1, FALSE),
     IncrBy(k1, -1), SelectDb(1)}

\* One client, every command that finds an expired key gone
KeyCmds ==
    {SetPx(k1, 0, 1), SetXx(k1, 1), SetNx(k2, 1), [op |-> "getset", key |-> k2, val |-> NoExp],
     Pexpire(k2, 1), PexpireAt(k1, 2), Key("del", k1), Key("get", k1),
     Two("rename", k1, k2), Two("renamenx", k2, k1), Move(k1, 1), Move(k2, 0),
     Pop(k1, FALSE), Blpop(<<k1, k2>>, 0), SelectDb(1)} \cup Flush

\* One client that watches its own two keys: sets, hashes, lists changed in place
\* and several keys at once, every one meeting every type
Sadd1(k, e) == [op |-> "sadd", key |-> k, members |-> {e}]
Srem1(k, e) == [op |-> "srem", key |-> k, members |-> {e}]
Spop1(k, n, f) == [op |-> "spop", key |-> k, count |-> n, rank |-> f]
Smove1(k, d, e) == [op |-> "smove", key |-> k, dest |-> d, member |-> e]
Store2(o, d, ks) == [op |-> o, dest |-> d, keys |-> ks]
OneField(k, f) == [op |-> "hset", key |-> k, fields |-> f]
Linsert1(k, bef, p, e) == [op |-> "linsert", key |-> k, before |-> bef, pivot |-> p, elem |-> e]
Ltrim1(k, i, j) == [op |-> "ltrim", key |-> k, start |-> i, stop |-> j]

CollectionCmds ==
    {Sadd1(k1, a), Sadd1(k2, a), Sadd1(k1, b), Srem1(k1, a),
     Smove1(k1, k2, a), Smove1(k2, k1, b), Smove1(k1, k1, a)}
    \cup {Spop1(k2, n, f) : n \in {-1, 1}, f \in {[e \in {a, b} |-> IF e = x THEN 1 ELSE 2] : x \in {a, b}}}
    \cup {Store2("sdiffstore", k2, <<k1, k2>>), Store2("sinterstore", k1, <<k1, k2>>),
          Store2("sunionstore", k2, <<k2, k1>>)}
    \cup {OneField(k1, [e \in {a} |-> 1]), OneField(k2, [e \in {a, b} |-> NoExp]),
          [op |-> "hsetnx", key |-> k1, field |-> b, val |-> 0],
          [op |-> "hdel", key |-> k1, members |-> {a}], [op |-> "hdel", key |-> k2, members |-> {a, b}],
          [op |-> "hincrby", key |-> k1, field |-> a, by |-> 1], Key("del", k2)}
    \cup {Lpush(k1, a), Rpush(k2, b), Linsert1(k1, TRUE, a, b), Linsert1(k1, FALSE, a, a),
          [op |-> "lset", key |-> k1, index |-> -1, elem |-> b]}
    \cup {Two("rpoplpush", k1, k2), Two("rpoplpush", k1, k1)}
    \cup {Ltrim1(k1, i, j) : i \in {-2, 1, 2}, j \in {-1, 0}}
    \cup {[op |-> "mset", vals |-> [k \in {k1, k2} |-> 1]],
          [op |-> "msetnx", vals |-> [k \in {k1, k2} |-> 0]],
          [op |-> "read", key |-> k1, type |-> "set"]}
Watch2 == {{k1}, {k2}}

-----------------------------------------------------------------------------
(* Commands that bring out a disagreement with what the repository states *)

RenameCmds == {SetTo(k1, 1), Two("rename", k1, k2)}

=============================================================================
