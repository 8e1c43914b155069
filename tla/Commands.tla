------------------------------ MODULE Commands ------------------------------
(***************************************************************************)
(* The commands of command/src/command.rs that write keys, as operators    *)
(* over the record of Database: the string, key, expiration, push and pop, *)
(* and blocking commands; those of Collections, and the match that selects *)
(* a handler.  Each composes the methods of Database in the order the      *)
(* handler calls them, early returns included.                             *)
(***************************************************************************)
EXTENDS Collections

CONSTANT MsPerSec     \* milliseconds in a second, scaled down

ASSUME MsPerSecAssumption == MsPerSec \in Nat \ {0}

-----------------------------------------------------------------------------
(* A command as its parsed arguments. *)

KeyCommand ==
    [op : {"get", "del", "persist"}, key : Keys]
    \cup [op : {"set"}, key : Keys, val : StringVal,
          nx : BOOLEAN, xx : BOOLEAN, px : Int \cup {NoExp}]
    \cup [op : {"getset"}, key : Keys, val : StringVal]
    \cup [op : {"incrby"}, key : Keys, by : Ints]
    \cup [op : {"pexpire", "pexpireat"}, key : Keys, ms : Int]
    \cup [op : {"flushdb", "flushall"}]
    \cup [op : {"push"}, key : Keys, elems : Seq(Elems) \ {<<>>},
          right : BOOLEAN, create : BOOLEAN]
    \cup [op : {"pop"}, key : Keys, right : BOOLEAN]
    \cup [op : {"rename", "renamenx", "rpoplpush"}, key : Keys, dest : Keys]
    \cup [op : {"move"}, key : Keys, to : Int]
    \cup [op : {"select"}, index : Nat]
    \cup [op : {"bpop"}, keys : Seq(Keys) \ {<<>>}, right : BOOLEAN, timeout : Nat]
    \cup [op : {"brpoplpush"}, key : Keys, dest : Keys, timeout : Nat]

Command == CollectionCommand \cup KeyCommand

Blocking == {"bpop", "brpoplpush"}

-----------------------------------------------------------------------------
(* Strings *)

\* generic_set; set, setnx, setex and psetex differ in the arguments they fix
GenericSet(db, s, cmd) ==
    LET stored  == KeyUpdated(Store(GetOrCreate(db, s), s, Str(cmd.val)), s)
    IN IF \/ cmd.nx /\ Get(db, s) # NoValue
          \/ cmd.xx /\ Get(db, s) = NoValue
       THEN Result("nil", db)
       ELSE Result("ok", IF cmd.px = NoExp
                         THEN stored
                         ELSE SetMsexpiration(stored, s, cmd.px + db.now))

GetSet(db, s, val) ==
    Result(IF Get(db, s).type = "string" THEN "ok" ELSE "nil",
           KeyUpdated(Store(GetOrCreate(db, s), s, Str(val)), s))

\* generic_incr: a failed increment still reports the key as updated
GenericIncr(db, s, by) ==
    LET created == GetOrCreate(db, s)
        v == created.data[s]
    IN IF IncrFails(v, by)
       THEN Result("error", KeyUpdated(created, s))
       ELSE Result("ok", KeyUpdated(Store(created, s, IncrValue(v, by)), s))

-----------------------------------------------------------------------------
(* Keys and expirations *)

Del(db, s) ==
    Result("ok", IF Removed(db, s) # NoValue
                 THEN KeyUpdated(Remove(db, s), s)
                 ELSE Remove(db, s))

\* generic_expire, with the absolute time its four callers compute
GenericExpire(db, s, t) ==
    Result("ok", IF Get(db, s) # NoValue
                 THEN KeyUpdated(SetMsexpiration(db, s, t), s)
                 ELSE db)

\* Fault: the watchers are not told that the expiration is gone
PersistSilently(db, s) == Result("ok", RemoveMsexpiration(db, s))

Persist(db, s) == Result("ok", KeyUpdated(RemoveMsexpiration(db, s), s))

\* Fault: the value is taken from the map although it has expired
RelocateExpired(db, from, to) ==
    LET removed == Remove(db, from)
    IN IF db.data[from] = NoValue
       THEN Result("error", removed)
       ELSE Result("ok", KeyUpdated(Store(GetOrCreate(removed, to), to, db.data[from]), to))

\* Fault: nobody is told that the destination changed
RelocateSilently(db, from, to) ==
    LET removed == Remove(db, from)
    IN IF Removed(db, from) = NoValue
       THEN Result("error", removed)
       ELSE Result("ok", Store(GetOrCreate(removed, to), to, Removed(db, from)))

\* What rename, renamenx and move_key do with the value they removed: the source
\* loses its expiration with its value, so there is none left to carry over.
Relocate(db, from, to) ==
    LET v == Removed(db, from)
        removed == Remove(db, from)
        left == removed.exp[from]
        placed == Store(GetOrCreate(removed, to), to, v)
    IN IF v = NoValue
       THEN Result("error", removed)
       ELSE Result("ok", KeyUpdated(IF left = NoExp
                                    THEN placed
                                    ELSE SetMsexpiration(placed, to, left), to))

Rename(db, from, to) ==
    IF from = to THEN Result("error", db) ELSE Relocate(db, from, to)

RenameNx(db, from, to) ==
    IF from = to \/ Get(db, to) # NoValue
    THEN Result("ok", db)
    ELSE Relocate(db, from, to)

MoveKey(db, d, key, to) ==
    IF to \notin Dbs \/ to = d
    THEN Result(IF to = d THEN "ok" ELSE "error", db)
    ELSE Relocate(db, <<d, key>>, <<to, key>>)

-----------------------------------------------------------------------------
(* Lists *)

\* generic_push: a value of another type is left as it is and reported as updated
GenericPush(db, s, cmd) ==
    LET opened == IF cmd.create THEN GetOrCreate(db, s) ELSE GetMut(db, s)
        v == opened.data[s]
    IN CASE v = NoValue -> Result("ok", opened)
         [] v # NoValue /\ ~Listable(v) -> Result("error", KeyUpdated(opened, s))
         [] v # NoValue /\ Listable(v) ->
              Result("ok", KeyUpdated(Store(opened, s, PushValue(v, cmd.elems, cmd.right)), s))

\* generic_pop: the key is reported as updated whatever was found
GenericPop(db, s, right) ==
    LET opened == GetMut(db, s)
        v == opened.data[s]
    IN CASE Listable(v) /\ Elements(v) # <<>> ->
              Result("ok", KeyUpdated(Store(opened, s, PopValue(v, right)), s))
         [] v = NoValue \/ (Listable(v) /\ Elements(v) = <<>>) ->
              Result("nil", KeyUpdated(opened, s))
         [] v # NoValue /\ ~Listable(v) -> Result("error", KeyUpdated(opened, s))

\* generic_rpoplpush: when the push fails neither key is reported as updated
GenericRpoplpush(db, src, dst) ==
    LET target == Get(db, dst)
        opened == GetMut(db, src)
        v      == opened.data[src]
        el     == Popped(v, TRUE)
        popped == Store(opened, src, PopValue(v, TRUE))
        created == GetOrCreate(popped, dst)
        w      == created.data[dst]
        pushed == Store(created, dst, PushValue(w, <<el>>, FALSE))
    IN IF target # NoValue /\ ~Listable(target) THEN Result("error", db)
       ELSE IF v = NoValue THEN Result("nil", opened)
       ELSE IF ~Listable(v) THEN Result("error", opened)
       ELSE IF Elements(v) = <<>> THEN Result("nil", opened)
       ELSE IF ~Listable(w) THEN Result("error", created)
       ELSE Result("ok", KeyUpdated(KeyUpdated(pushed, src), dst))

\* What makes generic_bpop stop at a key: something to pop, or a wrong type.
Ready(v) == v # NoValue /\ (Listable(v) => Elements(v) # <<>>)

\* generic_bpop: keys are looked at in order up to the first that is ready.
\* "nil" stands for the case in which it goes on to wait.
GenericBpop(db, d, keys, right) ==
    LET slot(i) == <<d, keys[i]>>
        ready   == {i \in DOMAIN keys : Ready(Get(db, slot(i)))}
        first   == CHOOSE i \in ready : \A j \in ready : i <= j
        s       == slot(first)
        looked  == {slot(i) : i \in IF ready = {} THEN DOMAIN keys ELSE 1 .. first}
        opened  == RemoveAll(db, Expired(db, looked))
    IN IF ready = {} THEN Result("nil", opened)
       ELSE IF ~Listable(opened.data[s]) THEN Result("error", opened)
       ELSE Result("ok", KeyUpdated(Store(opened, s, PopValue(opened.data[s], right)), s))

-----------------------------------------------------------------------------
(* The slots a blocking command subscribes to when it has to wait. *)
WaitSlots(d, cmd) ==
    IF cmd.op = "bpop"
    THEN {<<d, cmd.keys[i]>> : i \in DOMAIN cmd.keys}
    ELSE {<<d, cmd.key>>}

\* The handlers, by command name: the match of execute_command
Handler(db, d, cmd) ==
    CASE cmd.op \in CollectionOps -> CollectionHandler(db, d, cmd)
      [] cmd.op = "get"       -> Result("ok", db)
      [] cmd.op = "set"       -> GenericSet(db, <<d, cmd.key>>, cmd)
      [] cmd.op = "getset"    -> GetSet(db, <<d, cmd.key>>, cmd.val)
      [] cmd.op = "incrby"    -> GenericIncr(db, <<d, cmd.key>>, cmd.by)
      [] cmd.op = "del"       -> Del(db, <<d, cmd.key>>)
      [] cmd.op = "pexpire"   -> GenericExpire(db, <<d, cmd.key>>, db.now + cmd.ms)
      [] cmd.op = "pexpireat" -> GenericExpire(db, <<d, cmd.key>>, cmd.ms)
      [] cmd.op = "persist"   -> Persist(db, <<d, cmd.key>>)
      [] cmd.op = "rename"    -> Rename(db, <<d, cmd.key>>, <<d, cmd.dest>>)
      [] cmd.op = "renamenx"  -> RenameNx(db, <<d, cmd.key>>, <<d, cmd.dest>>)
      [] cmd.op = "move"      -> MoveKey(db, d, cmd.key, cmd.to)
      [] cmd.op = "flushdb"   -> Result("ok", Clear(db, {s \in Slots : s[1] = d}))
      [] cmd.op = "flushall"  -> Result("ok", Clear(db, Slots))
      [] cmd.op = "push"      -> GenericPush(db, <<d, cmd.key>>, cmd)
      [] cmd.op = "pop"       -> GenericPop(db, <<d, cmd.key>>, cmd.right)
      [] cmd.op = "rpoplpush" -> GenericRpoplpush(db, <<d, cmd.key>>, <<d, cmd.dest>>)
      [] cmd.op = "brpoplpush" -> GenericRpoplpush(db, <<d, cmd.key>>, <<d, cmd.dest>>)
      [] cmd.op = "bpop"      -> GenericBpop(db, d, cmd.keys, cmd.right)

\* A blocking command whose handler found nothing waits for its keys.
MustWait(db, d, cmd) ==
    cmd.op \in Blocking /\ Handler(db, d, cmd).reply = "nil"
=============================================================================
