------------------------------ MODULE Database ------------------------------
(***************************************************************************)
(* The keyspace of RedVector: struct Database of database/src/lib.rs, as a *)
(* record, and its methods as operators from a record to the record (and   *)
(* the result) they leave.  A command composes them in the order its code  *)
(* calls them; the server modules apply a whole command in one step, while *)
(* its client holds the database mutex.                                    *)
(*                                                                         *)
(* A slot <<index, key>> stands for the pair every method takes.  The      *)
(* record holds the maps of the struct (absent entry = NoValue, NoExp or   *)
(* the empty set), the clock that mstime() reads, the flag `loading`, and  *)
(* in `sent` the key channels of blocked clients that hold a wake-up.      *)
(* maxmemory is unset and keyspace notifications are off, as in            *)
(* Config::default: nothing is evicted and notify_keyspace_event returns.  *)
(***************************************************************************)
EXTENDS Integers, Sequences, FiniteSets

CONSTANTS NumDbs,     \* config.databases
          Keys,       \* the key names
          Clients,    \* client identifiers (Server.next_id: never reused)
          Elems,      \* list elements, set members and hash fields
          IntMax,     \* stands for i64::MAX
          NoExp       \* no entry in data_expiration_ms

ASSUME DatabaseAssumption == /\ NumDbs \in Nat \ {0}
                             /\ IntMax \in Nat
                             /\ NoExp \notin Int

Dbs == 0 .. NumDbs - 1
Slots == Dbs \X Keys

-----------------------------------------------------------------------------
(* Values: enum Value, restricted to the variants the commands of this      *)
(* project build.  Of a string, `int` is the number its text reads as       *)
(* (NoExp: none) and `data` tells ValueString::Data from Integer.           *)

NoValue == [type |-> "none"]
Nil == [type |-> "nil"]
Counter(i) == [type |-> "string", int |-> i, data |-> FALSE]
List(l) == [type |-> "list", elems |-> l]
SetOf(m) == [type |-> "set", members |-> m]
HashOf(f) == [type |-> "hash", fields |-> f]

\* ValueString::new: parse_utf8 takes no number that begins with a 0, and so not
\* 0 itself; it stays data.
Str(i) == [type |-> "string", int |-> i, data |-> i \in {0, NoExp}]

Ints == (0 - IntMax - 1) .. IntMax
StringVal == Ints \cup {NoExp}   \* NoExp: a text that is not an integer
Strings == [type : {"string"}, int : StringVal, data : BOOLEAN]
Lists == [type : {"list"}, elems : Seq(Elems)]
Sets == [type : {"set"}, members : SUBSET Elems]
FieldMap == UNION {[F -> StringVal] : F \in SUBSET Elems}
Hashes == [type : {"hash"}, fields : FieldMap]
Value == {Nil} \cup Strings \cup Lists \cup Sets \cup Hashes

\* Value::is_empty (sorted sets and bloom filters are built in SortedSets and Strings)
IsEmpty(v) ==
    \/ v \in {Nil, List(<<>>), SetOf({}), HashOf(<<>>)}
    \/ v.type = "zset" /\ DOMAIN v.scores = {}
    \/ v.type = "bloom" /\ v.insertions = 0

\* Value::llen succeeds on nil and on lists only, as push and pop do.
Listable(v) == v.type \in {"nil", "list"}
Elements(v) == IF v.type = "list" THEN v.elems ELSE <<>>

\* So do Value::sadd, srem and spop on nil and sets, and hset, hdel and hincrby on
\* nil and hashes.
Settable(v) == v.type \in {"nil", "set"}
Members(v) == IF v.type = "set" THEN v.members ELSE {}
Hashable(v) == v.type \in {"nil", "hash"}
Fields(v) == IF v.type = "hash" THEN v.fields ELSE <<>>

\* Value::push of each element of es in turn, and Value::pop of one element
PushValue(v, es, right) ==
    List(IF right
         THEN Elements(v) \o es
         ELSE [i \in 1 .. Len(es) |-> es[Len(es) + 1 - i]] \o Elements(v))
Popped(v, right) ==
    IF right THEN v.elems[Len(v.elems)] ELSE Head(v.elems)
PopValue(v, right) ==
    List(IF right THEN SubSeq(v.elems, 1, Len(v.elems) - 1) ELSE Tail(v.elems))

\* Value::incr: nil counts as 0, data and lists fail, checked_add overflows.
IncrFails(v, n) ==
    /\ v # Nil
    /\ \/ v.type # "string"
       \/ v.data
       \/ v.int + n \notin Ints
IncrValue(v, n) == Counter(IF v = Nil THEN n ELSE v.int + n)

-----------------------------------------------------------------------------
(* The record and its initial value: Database::new *)

DB == [data    : [Slots -> Value \cup {NoValue}],
       exp     : [Slots -> Int \cup {NoExp}],
       watched : [Slots -> SUBSET Clients],
       subs    : [Slots -> SUBSET Clients],
       sent    : SUBSET Clients,
       now     : Nat,
       loading : BOOLEAN]

NewDatabase ==
    [data    |-> [s \in Slots |-> NoValue],
     exp     |-> [s \in Slots |-> NoExp],
     watched |-> [s \in Slots |-> {}],
     subs    |-> [s \in Slots |-> {}],
     sent    |-> {},
     now     |-> 0,
     loading |-> FALSE]

\* Database::is_expired
IsExpired(db, s) ==
    /\ ~db.loading
    /\ db.exp[s] # NoExp
    /\ db.exp[s] <= db.now

\* Database::get: what a client can see of a slot
Get(db, s) == IF IsExpired(db, s) THEN NoValue ELSE db.data[s]

\* Fault: the entry of data_expiration_ms stays
RemoveKeepsExpiration(db, s) == [db EXCEPT !.data[s] = NoValue]

\* Database::remove: the value, unless it had expired, and the record without it
Removed(db, s) == Get(db, s)
Remove(db, s) == [db EXCEPT !.data[s] = NoValue, !.exp[s] = NoExp]

\* Database::get_mut: an expired value is removed on the way
GetMut(db, s) == IF IsExpired(db, s) THEN Remove(db, s) ELSE db

\* Database::remove_msexpiration
RemoveMsexpiration(db, s) == [db EXCEPT !.exp[s] = NoExp]

\* Database::get_or_create: of an expired key only the expiration goes, its
\* value stays; a missing key is created as Nil.
GetOrCreate(db, s) ==
    [db EXCEPT !.exp[s] = IF IsExpired(db, s) THEN NoExp ELSE @,
               !.data[s] = IF @ = NoValue THEN Nil ELSE @]

\* The assignment *value = v through a mutable reference to a stored value
Store(db, s, v) == [db EXCEPT !.data[s] = v]

\* Fault: one blocked client is woken, as if the others could keep waiting
KeyUpdatedWakesOne(db, s) ==
    LET kept == IF IsEmpty(db.data[s]) THEN Remove(db, s) ELSE db
    IN [kept EXCEPT !.sent = @ \cup {c \in db.subs[s] : c = CHOOSE x \in db.subs[s] : TRUE},
                    !.subs[s] = {},
                    !.watched[s] = {}]

\* Database::key_updated: an empty value is removed, the clients blocked on the
\* key are sent a wake-up and forgotten, and so is every client watching it.
KeyUpdated(db, s) ==
    LET kept == IF IsEmpty(db.data[s]) THEN Remove(db, s) ELSE db
    IN [kept EXCEPT !.sent = @ \cup db.subs[s],
                    !.subs[s] = {},
                    !.watched[s] = {}]

\* Database::set_msexpiration
SetMsexpiration(db, s, t) == [KeyUpdated(db, s) EXCEPT !.exp[s] = t]

\* Database::clear over a set of slots (one database, or all for clearall):
\* only a watched key that held a value counts as updated.
Clear(db, S) ==
    LET updated == {s \in S : db.watched[s] # {} /\ db.data[s] # NoValue}
    IN [db EXCEPT
          !.data    = [s \in Slots |-> IF s \in S THEN NoValue ELSE @[s]],
          !.exp     = [s \in Slots |-> IF s \in S THEN NoExp ELSE @[s]],
          !.watched = [s \in Slots |-> IF s \in updated THEN {} ELSE @[s]],
          !.subs    = [s \in Slots |-> IF s \in updated THEN {} ELSE @[s]],
          !.sent    = @ \cup UNION {db.subs[s] : s \in updated}]

\* Database::remove called on each slot of S
RemoveAll(db, S) ==
    [db EXCEPT !.data = [s \in Slots |-> IF s \in S THEN NoValue ELSE @[s]],
               !.exp  = [s \in Slots |-> IF s \in S THEN NoExp ELSE @[s]]]

\* The expired slots of S: what get_mut removes when called on each of them
Expired(db, S) == {s \in S : IsExpired(db, s)}

-----------------------------------------------------------------------------
(* What a handler returns: its reply and the record it leaves.  Replies are *)
(* kept to what decides the next step: "nil" is Response::Nil, "error" any  *)
(* error reply, "panic" no reply, "ok" everything else.                     *)

Result(r, db) == [reply |-> r, db |-> db]

-----------------------------------------------------------------------------
(* Registrations *)

\* Database::key_subscribe: the sender of client c's key channel, on each slot
KeySubscribe(db, S, c) ==
    [db EXCEPT !.subs = [s \in Slots |-> IF s \in S THEN @[s] \cup {c} ELSE @[s]]]

\* Database::key_watch
KeyWatch(db, S, c) ==
    [db EXCEPT !.watched = [s \in Slots |-> IF s \in S THEN @[s] \cup {c} ELSE @[s]]]

\* Database::key_watch_verify
KeyWatchVerify(db, s, c) == c \in db.watched[s]
=============================================================================
