------------------------------- MODULE Server -------------------------------
(***************************************************************************)
(* The threads of the server around one database mutex: one thread per     *)
(* client (Client::run of networking/src/lib.rs), the hz thread, and for   *)
(* every blocked client the waker and the timer thread its command         *)
(* spawned.  A client thread parses a request, locks the database, runs    *)
(* command::command and unlocks.  A handler is one step; EXEC holds the    *)
(* mutex from its first queued command to its last, one step for each, so  *)
(* that the steps which need no mutex can fall in between.                 *)
(*                                                                         *)
(* A handler that panics while it holds the mutex poisons it: from then on *)
(* lock() fails, clients leave their loop and the hz thread panics too.    *)
(***************************************************************************)
EXTENDS Commands

CONSTANTS Cmds,        \* the key commands, SELECT and blocking pops clients issue
          WatchSets,   \* the key sets clients WATCH
          MaxQueue,    \* bound on the commands queued in a MULTI
          MaxNow,      \* bound on the clock
          MaxTimeout,  \* bound on the timeouts that waits are resumed with
          MaxElems,    \* bound on the list elements stored at a time
          NoClient     \* nobody holds the mutex

ASSUME ServerAssumption == /\ Cmds \subseteq Command
                           /\ WatchSets \subseteq (SUBSET Keys) \ {{}}
                           /\ MaxQueue \in Nat
                           /\ MaxNow \in Nat
                           /\ MaxTimeout \in Nat
                           /\ MaxElems \in Nat
                           /\ NoClient \notin Clients

VARIABLES
    db,              \* the Database record behind the mutex
    dbindex,         \* Client.dbindex, Client.multi, Client.multi_commands and
    multi,           \*   Client.watched_keys of every client
    multi_commands,
    watched_keys,
    pc,              \* where the client thread is
    wait,            \* the wait a blocked client is in
    lock,            \* the client that holds the mutex over an EXEC
    running,         \* the queued commands that EXEC still has to run
    poisoned,        \* a thread panicked with the mutex locked
    dirty,           \* (history) watched slots modified since they were last watched
    due              \* (history) when the wait begun by a client's request is to end

clientVars == <<dbindex, multi, multi_commands, watched_keys>>
execVars   == <<lock, running, poisoned>>
vars == <<db, clientVars, pc, wait, execVars, dirty, due>>

-----------------------------------------------------------------------------
(* The wait of a blocked client: the command to repeat, the time it was      *)
(* executed, when its timer fires (NoExp: no timer left), whether its waker  *)
(* still listens to the key channel, and the messages its command channel    *)
(* holds: TimedOut from the timer (None), or the command with the timeout    *)
(* that remains from the waker.                                              *)

NoWait == [waker |-> "none", deadline |-> NoExp, chan |-> <<>>]
TimedOut == NoExp

Wait == [cmd : {c \in Command : c.op \in Blocking}, since : Nat,
         deadline : Nat \cup {NoExp}, waker : {"listening", "done"},
         chan : Seq(Nat \cup {TimedOut})]

\* When the timer of a blocking command issued now fires
TimerOf(cmd) == IF cmd.timeout > 0 THEN db.now + cmd.timeout * MsPerSec ELSE NoExp

\* Fault: a timeout that has run out is passed on as it is
NewTimeoutUnclamped(w) == w.cmd.timeout * MsPerSec - db.now + w.since

\* Fault: nothing left to wait reads as waiting for ever
NewTimeoutZero(w) ==
    LET left == w.cmd.timeout * MsPerSec - db.now + w.since
    IN IF left < 0 THEN 0 ELSE left

\* The timeout the waker puts in the repeated command: what is left, in
\* milliseconds, of a timeout the command reads in seconds.
NewTimeout(w) ==
    LET left == w.cmd.timeout * MsPerSec - db.now + w.since
    IN IF w.cmd.timeout = 0 THEN 0 ELSE IF left <= 0 THEN 1 ELSE left

\* c waits and no thread has yet been told to wake it
Asleep(c) ==
    /\ pc[c] = "blocked"
    /\ wait[c].waker = "listening"
    /\ c \notin db.sent
    /\ wait[c].chan = <<>>

-----------------------------------------------------------------------------
(* History: what a client sees of a slot, and the slots a step modified *)

Visible(d, s) == [value |-> Get(d, s), exp |-> IF Get(d, s) = NoValue THEN NoExp ELSE d.exp[s]]
Modified(d1, d2) == {s \in Slots : Visible(d1, s) # Visible(d2, s)}

Remember ==
    dirty' = [c \in Clients |-> (dirty[c] \cup Modified(db, db')) \cap watched_keys'[c]]

-----------------------------------------------------------------------------
Init ==
    /\ db = NewDatabase
    /\ dbindex = [c \in Clients |-> 0]
    /\ multi = [c \in Clients |-> FALSE]
    /\ multi_commands = [c \in Clients |-> <<>>]
    /\ watched_keys = [c \in Clients |-> {}]
    /\ pc = [c \in Clients |-> "ready"]
    /\ wait = [c \in Clients |-> NoWait]
    /\ lock = NoClient
    /\ running = <<>>
    /\ poisoned = FALSE
    /\ dirty = [c \in Clients |-> {}]
    /\ due = [c \in Clients |-> NoExp]

\* Fault: a thread does not wait for the end of an EXEC
LockableMidExec == ~poisoned

\* Fault: a thread goes on with the mutex of a panicked one
LockablePoisoned == lock = NoClient

\* A thread can lock the database
Lockable == lock = NoClient /\ ~poisoned

\* The client thread panics inside a handler, mutex locked.  What the handler did
\* until then is left out: nobody can lock the database any more to see it.
Panic(c) ==
    /\ poisoned' = TRUE
    /\ lock' = NoClient
    /\ running' = <<>>
    /\ pc' = [pc EXCEPT ![c] = "gone"]
    /\ wait' = [wait EXCEPT ![c] = NoWait]
    /\ due' = [due EXCEPT ![c] = NoExp]
    /\ UNCHANGED <<db, clientVars, dirty>>

\* A handler indexes its maps by a database number that SELECT let through
BadIndex(c, cmd) == dbindex[c] \notin Dbs /\ cmd.op \notin {"select", "flushall"}

\* The handler indexes out of bounds, or panics for a reason of its own, as only
\* those of Collections do.
Panics(c, cmd) ==
    \/ BadIndex(c, cmd)
    \/ /\ cmd.op \in CollectionOps /\ ~BadIndex(c, cmd)
       /\ Handler(db, dbindex[c], cmd).reply = "panic"

\* SELECT compares with > where the databases are numbered from 0
Select(c, index) ==
    dbindex' = IF index > NumDbs THEN dbindex ELSE [dbindex EXCEPT ![c] = index]

\* The list elements stored now
StoredElems == Cardinality(UNION {{s} \X DOMAIN Elements(db.data[s]) : s \in Slots})

\* The list elements a command adds
Added(cmd) ==
    IF cmd.op = "push" THEN Len(cmd.elems) ELSE IF cmd.op = "linsert" THEN 1 ELSE 0

\* A handler that replies: its effect on the database and on c's selection
Complete(c, cmd) ==
    /\ ~Panics(c, cmd)
    /\ IF cmd.op = "select"
       THEN Select(c, cmd.index) /\ db' = db
       ELSE /\ ~MustWait(db, dbindex[c], cmd)
            /\ db' = Handler(db, dbindex[c], cmd).db
            /\ Added(cmd) > 0 => StoredElems + Added(cmd) <= MaxElems
            /\ dbindex' = dbindex

\* A blocking command that found nothing: c subscribes to its keys and its
\* waker and timer threads start.  The senders of an earlier wait stay in the
\* map, without a receiver; they are left out.
Block(c, cmd) ==
    /\ ~BadIndex(c, cmd)
    /\ MustWait(db, dbindex[c], cmd)
    /\ db' = KeySubscribe(Handler(db, dbindex[c], cmd).db, WaitSlots(dbindex[c], cmd), c)
    /\ pc' = [pc EXCEPT ![c] = "blocked"]
    /\ wait' = [wait EXCEPT ![c] = [cmd |-> cmd, since |-> db.now,
                                    deadline |-> TimerOf(cmd),
                                    waker |-> "listening", chan |-> <<>>]]
    /\ UNCHANGED <<clientVars, execVars>>
    /\ Remember

-----------------------------------------------------------------------------
(* Requests outside MULTI *)

\* A key command or SELECT that replies at once
Request(c, cmd) ==
    /\ Lockable /\ pc[c] = "ready" /\ ~multi[c]
    /\ Complete(c, cmd)
    /\ UNCHANGED <<multi, multi_commands, watched_keys, pc, wait, execVars, due>>
    /\ Remember

\* A blocking pop that has to wait
RequestBlock(c, cmd) ==
    /\ Lockable /\ pc[c] = "ready" /\ ~multi[c]
    /\ Block(c, cmd)
    /\ due' = [due EXCEPT ![c] = TimerOf(cmd)]

\* A command on a database that does not exist, or whose handler panics
RequestPanic(c, cmd) ==
    /\ Lockable /\ pc[c] = "ready" /\ ~multi[c]
    /\ Panics(c, cmd)
    /\ Panic(c)

Watch(c, ks) ==
    LET S == {<<dbindex[c], k>> : k \in ks}
    IN /\ Lockable /\ pc[c] = "ready" /\ ~multi[c]
       /\ dbindex[c] \in Dbs
       /\ db' = KeyWatch(db, S, c)
       /\ watched_keys' = [watched_keys EXCEPT ![c] = @ \cup S]
       /\ dirty' = [dirty EXCEPT ![c] = @ \ S]
       /\ UNCHANGED <<dbindex, multi, multi_commands, pc, wait, execVars, due>>

\* UNWATCH drains the client's set; the registrations in the database stay
Unwatch(c) ==
    /\ Lockable /\ pc[c] = "ready" /\ ~multi[c]
    /\ watched_keys' = [watched_keys EXCEPT ![c] = {}]
    /\ dirty' = [dirty EXCEPT ![c] = {}]
    /\ UNCHANGED <<db, dbindex, multi, multi_commands, pc, wait, execVars, due>>

-----------------------------------------------------------------------------
(* Transactions *)

Multi(c) ==
    /\ Lockable /\ pc[c] = "ready" /\ ~multi[c]
    /\ multi' = [multi EXCEPT ![c] = TRUE]
    /\ UNCHANGED <<db, dbindex, multi_commands, watched_keys, pc, wait, execVars, dirty, due>>

\* Inside MULTI a command is queued without being looked at
Queue(c, cmd) ==
    /\ Lockable /\ pc[c] = "ready" /\ multi[c]
    /\ Len(multi_commands[c]) < MaxQueue
    /\ multi_commands' = [multi_commands EXCEPT ![c] = Append(@, cmd)]
    /\ UNCHANGED <<db, dbindex, multi, watched_keys, pc, wait, execVars, dirty, due>>

\* Fault: the keys are looked up in the database selected now
WatchedVerifiedHere(c) ==
    \A s \in watched_keys[c] : dbindex[c] \in Dbs => KeyWatchVerify(db, <<dbindex[c], s[2]>>, c)

\* generic_unwatch: does every key c watches still hold its registration?
WatchedVerified(c) == \A s \in watched_keys[c] : KeyWatchVerify(db, s, c)

LeaveMulti(c) ==
    /\ multi' = [multi EXCEPT ![c] = FALSE]
    /\ multi_commands' = [multi_commands EXCEPT ![c] = <<>>]
    /\ watched_keys' = [watched_keys EXCEPT ![c] = {}]
    /\ dirty' = [dirty EXCEPT ![c] = {}]
    /\ UNCHANGED <<db, dbindex, pc, wait, poisoned, due>>

Discard(c) ==
    /\ Lockable /\ pc[c] = "ready" /\ multi[c]
    /\ LeaveMulti(c)
    /\ UNCHANGED <<lock, running>>

\* EXEC of an empty queue, or whose watched keys were modified
ExecNothing(c) ==
    /\ Lockable /\ pc[c] = "ready" /\ multi[c]
    /\ multi_commands[c] = <<>> \/ ~WatchedVerified(c)
    /\ LeaveMulti(c)
    /\ UNCHANGED <<lock, running>>

\* EXEC that goes on to run its queue, keeping the mutex
Exec(c) ==
    /\ Lockable /\ pc[c] = "ready" /\ multi[c]
    /\ multi_commands[c] # <<>> /\ WatchedVerified(c)
    /\ LeaveMulti(c)
    /\ lock' = c
    /\ running' = multi_commands[c]

\* The next queued command; the mutex is released after the last
ExecStep(c) ==
    /\ lock = c
    /\ Complete(c, Head(running))
    /\ running' = Tail(running)
    /\ lock' = IF Tail(running) = <<>> THEN NoClient ELSE c
    /\ UNCHANGED <<multi, multi_commands, watched_keys, pc, wait, poisoned, due>>
    /\ Remember

\* EXEC unwraps every result: one that waits panics too
ExecPanic(c) ==
    /\ lock = c
    /\ LET cmd == Head(running)
       IN IF Panics(c, cmd) THEN TRUE ELSE MustWait(db, dbindex[c], cmd)
    /\ Panic(c)

-----------------------------------------------------------------------------
(* Blocked clients *)

\* The waker thread: a message on the key channel, the command on the other
Waker(c) ==
    /\ wait[c].waker = "listening" /\ c \in db.sent
    /\ db' = [db EXCEPT !.sent = @ \ {c}]
    /\ wait' = [wait EXCEPT ![c].waker = "done",
                            ![c].chan = Append(@, NewTimeout(wait[c]))]
    /\ UNCHANGED <<clientVars, pc, execVars, dirty, due>>

\* The timer thread: its sleep is over
Timer(c) ==
    /\ wait[c].deadline # NoExp /\ wait[c].deadline <= db.now
    /\ wait' = [wait EXCEPT ![c].deadline = NoExp,
                            ![c].chan = Append(@, TimedOut)]
    /\ UNCHANGED <<db, clientVars, pc, execVars, dirty, due>>

\* The receiver of c's channels is dropped: what is still sent to it is lost
Forget(c) ==
    [db EXCEPT !.subs = [s \in Slots |-> @[s] \ {c}], !.sent = @ \ {c}]

\* The client thread takes the first message of its command channel: TimedOut
\* answers nil and ends the wait,
RecvTimeout(c) ==
    /\ pc[c] = "blocked" /\ wait[c].chan # <<>> /\ Head(wait[c].chan) = TimedOut
    /\ db' = Forget(c)
    /\ wait' = [wait EXCEPT ![c] = NoWait]
    /\ pc' = [pc EXCEPT ![c] = "ready"]
    /\ due' = [due EXCEPT ![c] = NoExp]
    /\ UNCHANGED <<clientVars, execVars, dirty>>

\* a command becomes next_command.
RecvCommand(c) ==
    /\ pc[c] = "blocked" /\ wait[c].chan # <<>> /\ Head(wait[c].chan) # TimedOut
    /\ db' = Forget(c)
    /\ wait' = [wait EXCEPT ![c] = [cmd |-> [wait[c].cmd EXCEPT !.timeout = Head(wait[c].chan)],
                                    since |-> wait[c].since, deadline |-> NoExp,
                                    waker |-> "done", chan |-> <<>>]]
    /\ pc' = [pc EXCEPT ![c] = "retry"]
    /\ UNCHANGED <<clientVars, execVars, dirty, due>>

\* next_command is executed again: it replies,
Retry(c) ==
    /\ Lockable /\ pc[c] = "retry"
    /\ Complete(c, wait[c].cmd)
    /\ pc' = [pc EXCEPT ![c] = "ready"]
    /\ wait' = [wait EXCEPT ![c] = NoWait]
    /\ due' = [due EXCEPT ![c] = NoExp]
    /\ UNCHANGED <<multi, multi_commands, watched_keys, execVars>>
    /\ Remember

\* or blocks once more.
RetryBlock(c) ==
    /\ Lockable /\ pc[c] = "retry"
    /\ wait[c].cmd.timeout <= MaxTimeout
    /\ Block(c, wait[c].cmd)
    /\ UNCHANGED due

-----------------------------------------------------------------------------
(* Everything else *)

\* A client closes its connection while its thread reads the socket; a thread
\* that finds the mutex poisoned leaves as well.  Registrations of WATCH stay.
Leave(c) ==
    /\ \/ pc[c] = "ready" /\ lock # c
       \/ pc[c] = "retry" /\ poisoned
    /\ pc' = [pc EXCEPT ![c] = "gone"]
    /\ multi' = [multi EXCEPT ![c] = FALSE]
    /\ multi_commands' = [multi_commands EXCEPT ![c] = <<>>]
    /\ watched_keys' = [watched_keys EXCEPT ![c] = {}]
    /\ dirty' = [dirty EXCEPT ![c] = {}]
    /\ wait' = [wait EXCEPT ![c] = NoWait]
    /\ due' = [due EXCEPT ![c] = NoExp]
    /\ UNCHANGED <<db, dbindex, execVars>>

\* The hz thread
Hz ==
    /\ Lockable
    /\ \E S \in SUBSET Expired(db, Slots) :
          db' = RemoveAll(db, S)
    /\ UNCHANGED <<clientVars, pc, wait, execVars, due>>
    /\ Remember

Tick ==
    /\ db.now < MaxNow
    /\ db' = [db EXCEPT !.now = @ + 1]
    /\ UNCHANGED <<clientVars, pc, wait, execVars, dirty, due>>

Next ==
    \/ \E c \in Clients :
          \/ \E cmd \in Cmds : \/ Request(c, cmd)
                               \/ RequestBlock(c, cmd)
                               \/ RequestPanic(c, cmd)
                               \/ Queue(c, cmd)
          \/ \E ks \in WatchSets : Watch(c, ks)
          \/ Unwatch(c)
          \/ Multi(c)
          \/ Discard(c)
          \/ ExecNothing(c)
          \/ Exec(c)
          \/ ExecStep(c)
          \/ ExecPanic(c)
          \/ Waker(c)
          \/ Timer(c)
          \/ RecvTimeout(c)
          \/ RecvCommand(c)
          \/ Retry(c)
          \/ RetryBlock(c)
          \/ Leave(c)
    \/ Hz
    \/ Tick

Spec == Init /\ [][Next]_vars

\* Wakers, timers and client threads are scheduled; nothing obliges a client to
\* send a request, nor the clock to reach a bound of the model.
Fairness ==
    \A c \in Clients : /\ WF_vars(Waker(c))
                       /\ WF_vars(Timer(c))
                       /\ WF_vars(RecvTimeout(c) \/ RecvCommand(c))
                       /\ WF_vars(Retry(c) \/ RetryBlock(c))
                       /\ WF_vars(ExecStep(c) \/ ExecPanic(c))

FairSpec == Spec /\ Fairness

-----------------------------------------------------------------------------
(* Properties *)

\* Every variable has its type: the fields of Database, of the Client structs of
\* command.rs, and of the two channels of a blocking command.
TypeOK ==
    /\ db \in DB
    /\ dbindex \in [Clients -> 0 .. NumDbs]
    /\ multi \in [Clients -> BOOLEAN]
    /\ multi_commands \in [Clients -> Seq(Cmds)]
    /\ watched_keys \in [Clients -> SUBSET Slots]
    /\ pc \in [Clients -> {"ready", "blocked", "retry", "gone"}]
    /\ wait \in [Clients -> Wait \cup {NoWait}]
    /\ lock \in Clients \cup {NoClient}
    /\ running \in Seq(Cmds)
    /\ poisoned \in BOOLEAN
    /\ dirty \in [Clients -> SUBSET Slots]
    /\ due \in [Clients -> Nat \cup {NoExp}]

\* A watched key that was modified since its client's last WATCH of it, by any
\* client and any command, has lost that client's registration, so that EXEC
\* notices (key_updated must be called wherever a key changes).
WatchSound ==
    \A c \in Clients : \A s \in dirty[c] : ~KeyWatchVerify(db, s, c)

\* A transaction whose watched keys were modified never touches the database:
\* generic_unwatch makes EXEC give up before the first queued command.
ExecOnlyIfUnmodified ==
    [][\A c \in Clients : dirty[c] # {} /\ multi[c] /\ ~multi'[c]
          => lock' # c /\ db' = db]_vars

\* While EXEC runs its queue no other thread changes a key or an expiration:
\* not a client, not the hz thread, not a blocked client that it wakes up.
ExecIsolated ==
    [][/\ lock # NoClient
       /\ <<db'.data, db'.exp>> # <<db.data, db.exp>>
       => running' = Tail(running)]_vars

\* A blocked client whose waker was not signalled has nothing to wait for: each
\* of its keys is without a value, so that no push, rename or move of a value
\* into a key a client is blocked on goes unnoticed.
NoLostWakeup ==
    \A c \in Clients : Asleep(c) =>
        \A s \in WaitSlots(dbindex[c], wait[c].cmd) : ~Ready(db.data[s])

\* A wait with a timeout never turns into one without: until it ends, a timer
\* runs or a message is on its way; and a wait without a timeout gets no timer.
TimeoutNotLost ==
    \A c \in Clients : pc[c] = "blocked" =>
        /\ due[c] # NoExp => wait[c].deadline # NoExp \/ wait[c].chan # <<>>
        /\ due[c] = NoExp => wait[c].deadline = NoExp /\ wait[c].cmd.timeout = 0

\* No empty list, set or hash and no Nil stays in the keyspace once a handler returned:
\* "Nil should not be stored", and key_updated removes what became empty.
NoEmptyStored == \A s \in Slots : ~IsEmpty(db.data[s])

\* An expiration belongs to a key that exists; clear, remove and key_updated
\* drop both together, set_msexpiration is never called without a value.
NoOrphanExpiration ==
    \A s \in Slots : db.exp[s] # NoExp => db.data[s] # NoValue

\* An expired key is as good as a missing one: every command leaves the keyspace
\* a client sees as it would with all expired keys already removed.
ExpiredIsAbsent ==
    LET clean == RemoveAll(db, Expired(db, Slots))
    IN clean # db =>
         \A cmd \in Cmds : \A d \in Dbs : cmd.op # "select" =>
             Modified(Handler(db, d, cmd).db, Handler(clean, d, cmd).db) = {}

\* A command that fails changes nothing: SMOVE looks at the destination's type
\* before it takes the member away, SINTERSTORE at all operands before it replaces
\* the destination, HINCRBY at the sum before it stores it.
FailureChangesNothing ==
    \A cmd \in Cmds : \A d \in Dbs : cmd.op # "select" =>
        LET r == Handler(db, d, cmd)
        IN r.reply = "error" => Modified(db, r.db) = {}

\* SMOVE and RPOPLPUSH lose no element and make none, whichever keys they are given:
\* the same key twice, the last element of one, a key that does not exist.  A list
\* may hold an element twice, and keeps doing so.
Contents(d, S) ==
    UNION {Members(Get(d, s)) \cup {Elements(Get(d, s))[i] : i \in DOMAIN Elements(Get(d, s))}
             : s \in S}
Places(d, S) == UNION {{s} \X DOMAIN Elements(Get(d, s)) : s \in S}
MoveConserves ==
    \A cmd \in {c \in Cmds : c.op \in {"smove", "rpoplpush"}} : \A d \in Dbs :
        LET S == {<<d, cmd.key>>, <<d, cmd.dest>>}
            after == Handler(db, d, cmd).db
        IN /\ Contents(after, S) = Contents(db, S)
           /\ Cardinality(Places(after, S)) = Cardinality(Places(db, S))

\* LTRIM keeps the elements from start to stop and no others (positions from 0, from
\* the end if negative), when it does not panic.
TrimKeepsRange ==
    \A s \in Slots : \A cmd \in {c \in Cmds : c.op = "ltrim"} :
        LET l == Elements(db.data[s])
            kept == {i \in DOMAIN l : /\ Position(cmd.start, Len(l)) <= i - 1
                                      /\ i - 1 <= Position(cmd.stop, Len(l))}
            r == Trimmed(l, cmd.start, cmd.stop)
        IN l # <<>> /\ r.reply # "panic" =>
              /\ Len(r.elems) = Cardinality(kept)
              /\ \A i \in kept : r.elems[1 + Cardinality({j \in kept : j < i})] = l[i]

\* A panic in one client's handler would end the service for all of them.
NeverPoisoned == ~poisoned

\* Once a thread panicked with the mutex locked no key changes any more.
PoisonStops ==
    [][poisoned => <<db'.data, db'.exp>> = <<db.data, db.exp>>]_vars

\* A client blocked on a key that holds something for it is served, unless
\* another client empties the key first.
BlockedServed ==
    \A c \in Clients : \A s \in Slots :
        (pc[c] \in {"blocked", "retry"} /\ s \in WaitSlots(dbindex[c], wait[c].cmd)
            /\ Ready(Get(db, s)))
        ~> (pc[c] \in {"ready", "gone"} \/ ~Ready(Get(db, s)))
=============================================================================
