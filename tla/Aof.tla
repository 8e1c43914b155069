-------------------------------- MODULE Aof --------------------------------
(***************************************************************************)
(* The append only file: log_command of database/src/lib.rs, the writer    *)
(* and reader of persistence/src/aof.rs, load of command/src/aof.rs, and   *)
(* the order in which Server::start runs them.                             *)
(*                                                                         *)
(* What is logged of a command is ParsedCommand.data: everything of the    *)
(* client's buffer from the command on, pipelined commands included.  A    *)
(* command that blocked is executed again from a buffer the waker made up, *)
(* its arguments run together without the protocol: once logged it is junk *)
(* to the parser.  A fragment of a command at the end of a buffer is left  *)
(* out, and so are errors writing the file.                                *)
(*                                                                         *)
(* The keyspace is one list in each database, of which the number of       *)
(* elements is kept.  A process that is killed loses what it had in memory *)
(* and keeps the file; one killed inside a command is one killed before it.*)
(***************************************************************************)
EXTENDS Integers, SequencesExt

CONSTANTS NumDbs,     \* config.databases
          Clients,
          Cmds,       \* the commands clients send
          Early,      \* whether connections come in before the file is loaded
          MaxBatch,   \* bound on the commands read from a socket at a time
          MaxQueue,   \* bound on the commands queued in a MULTI
          MaxLog,     \* bound on the entries of the file
          MaxItems    \* bound on the elements of a list

Dbs == 0 .. NumDbs - 1
Command == [op : {"push", "bpop", "get", "multi", "exec", "discard"}]
           \cup [op : {"select"}, index : Dbs]

ASSUME AofAssumption == /\ NumDbs \in Nat \ {0}
                        /\ Cmds \subseteq Command
                        /\ Early \in BOOLEAN
                        /\ {MaxBatch, MaxQueue, MaxLog, MaxItems} \subseteq Nat

VARIABLES phase,    \* starting (listening), loading, running, dead (panicked or exited)
          data,     \* the elements in each database's list
          log,      \* the file, entry by entry
          cursor,   \* the entries before the file position, shared by load and writes
          dbindex,  \* Aof.dbindex: the database of the last SELECT written
          client,   \* the state of every connection
          loader,   \* the client that load executes commands for
          saved,    \* (history) data when the process was last killed
          plain     \* (history) only plain commands so far, and none before the load

vars == <<phase, data, log, cursor, dbindex, client, loader, saved, plain>>

\* Reads, pushes and SELECT: neither transactions nor pops that may have to wait
Plain(cmd) == cmd.op \in {"push", "get", "select"}

-----------------------------------------------------------------------------

Select(d) == [op |-> "select", index |-> d]
Junk == [op |-> "junk"]
NoDb == -1      \* usize::MAX
Empty == [d \in Dbs |-> 0]

\* A connection: Client.dbindex, multi and multi_commands (each with its buffer),
\* the commands read and not yet executed, and the wait of a blocking pop.
NewClient == [dbindex |-> 0, multi |-> FALSE, queue |-> <<>>,
              buffer |-> <<>>, waits |-> FALSE, woken |-> FALSE]

\* Fault: pops that may block are taken for reads
LoggedButBpop(cmd) == cmd.op \in {"push", "exec"}

\* The commands without the READONLY flag
Logged(cmd) == cmd.op \in {"push", "bpop", "exec"}

\* A run of commands: what it makes of the keyspace and its client, what it
\* writes to the file (unless there is none), and whether a command had to wait.
Run(k, aof) == [data |-> data, k |-> k, out |-> <<>>, dbindex |-> dbindex,
                aof |-> aof, blocked |-> FALSE]

\* Fault: the file is not told the database
LogWithoutSelect(x, cmd, raw) ==
    IF x.aof /\ Logged(cmd) THEN [x EXCEPT !.out = @ \o raw] ELSE x

\* log_command and Aof::write: SELECT when the database changed, then the buffer
Log(x, cmd, raw) ==
    IF ~x.aof \/ ~Logged(cmd) THEN x
    ELSE [x EXCEPT !.out = @ \o (IF x.dbindex = x.k.dbindex THEN <<>> ELSE <<Select(x.k.dbindex)>>)
                             \o raw,
                   !.dbindex = x.k.dbindex]

\* A key command or SELECT outside MULTI
Apply(x, cmd, raw) ==
    LET d == x.k.dbindex
        done == CASE cmd.op = "push" -> [x EXCEPT !.data[d] = @ + 1]
                  [] cmd.op = "bpop" -> IF x.data[d] = 0 THEN [x EXCEPT !.blocked = TRUE]
                                        ELSE [x EXCEPT !.data[d] = @ - 1]
                  [] cmd.op = "select" -> [x EXCEPT !.k.dbindex = cmd.index]
                  [] cmd.op = "get" -> x
    IN Log(done, cmd, raw)

\* A command inside MULTI is queued with its buffer, and logged there and then
Enqueue(x, cmd, raw) ==
    Log([x EXCEPT !.k.queue = Append(@, [cmd |-> cmd, raw |-> raw])], cmd, raw)

LeaveMulti(x) == [x EXCEPT !.k.multi = FALSE, !.k.queue = <<>>]

\* command::command: EXEC runs its queue, logging each command, and is logged
\* itself (when one waits, the panic ends everything); outside MULTI it and DISCARD are errors.
Execute(x, cmd, raw) ==
    CASE cmd.op = "multi" -> [x EXCEPT !.k.multi = TRUE]
      [] cmd.op = "discard" -> LeaveMulti(x)
      [] cmd.op = "exec" ->
           LET step(y, q) == Apply(y, q.cmd, q.raw)
           IN Log(FoldLeft(step, LeaveMulti(x), x.k.queue), cmd, raw)
      [] cmd.op \notin {"multi", "discard", "exec"} /\ x.k.multi -> Enqueue(x, cmd, raw)
      [] cmd.op \notin {"multi", "discard", "exec"} /\ ~x.k.multi -> Apply(x, cmd, raw)

\* Fault: the bytes never reach the file
NeverWritten(out) == {log}

\* A write at the file position.  Over older entries it leaves what follows, and
\* what is left of the last entry it reached into.
Overwritten(out) ==
    LET before == SubSeq(log, 1, cursor) \o out
        rest == SubSeq(log, Len(before) + 1, Len(log))
    IN IF cursor = Len(log) THEN {before} ELSE {before \o rest, before \o <<Junk>> \o rest}

-----------------------------------------------------------------------------
Init ==
    /\ phase = "starting"
    /\ data = Empty
    /\ log = <<>>
    /\ cursor = 0
    /\ dbindex = NoDb
    /\ client = [c \in Clients |-> NewClient]
    /\ loader = NewClient
    /\ saved = Empty
    /\ plain = TRUE

\* The mutex can be had: load keeps it, and a panic poisons it
Serving == phase = "running" \/ (phase = "starting" /\ Early)

\* A read from the socket: the parser has no complete command left
Receive(c, batch) ==
    /\ Serving
    /\ client[c].buffer = <<>> /\ ~client[c].waits
    /\ client' = [client EXCEPT ![c].buffer = batch]
    /\ plain' = (plain /\ phase = "running" /\ Len(batch) = 1 /\ Plain(batch[1]))
    /\ UNCHANGED <<phase, data, log, cursor, dbindex, loader, saved>>

\* The bounds of the model hold after run x
Bounded(x) ==
    /\ cursor + Len(x.out) <= MaxLog /\ Len(log) + Len(x.out) <= MaxLog
    /\ Len(x.k.queue) <= MaxQueue
    /\ \A d \in Dbs : x.data[d] <= MaxItems

\* The effect of run x of client c: what it wrote is in the file, and a list that
\* is not empty any more wakes the clients blocked on it.
Commit(c, x) ==
    /\ Bounded(x)
    /\ data' = x.data
    /\ dbindex' = x.dbindex
    /\ cursor' = cursor + Len(x.out)
    /\ log' \in Overwritten(x.out)
    /\ client' = [e \in Clients |->
          IF e = c THEN x.k
          ELSE [client[e] EXCEPT !.woken = @ \/ (client[e].waits
                                   /\ x.data[client[e].dbindex] > data[client[e].dbindex])]]

\* The next command of the buffer; the file gets it with all that follows.  Out
\* of EXEC a pop that has to wait is a panic.
Request(c) ==
    LET k == client[c]
        cmd == Head(k.buffer)
        ran == Execute(Run([k EXCEPT !.buffer = Tail(@)], TRUE), cmd, k.buffer)
    IN /\ Serving
       /\ k.buffer # <<>> /\ ~k.waits
       /\ Commit(c, [ran EXCEPT !.k.waits = ran.blocked])
       /\ phase' = IF ran.blocked /\ cmd.op = "exec" THEN "dead" ELSE phase
       /\ UNCHANGED <<loader, saved, plain>>

\* A blocked client was woken and repeats its pop, from a buffer that is junk
Retry(c) ==
    LET k == client[c]
        ran == Apply(Run([k EXCEPT !.woken = FALSE], TRUE), [op |-> "bpop"], <<Junk>>)
    IN /\ Serving
       /\ k.waits /\ k.woken
       /\ Commit(c, [ran EXCEPT !.k.waits = ran.blocked])
       /\ UNCHANGED <<phase, loader, saved, plain>>

\* The process is killed and started again; Database::new opens the file without
\* O_APPEND, so the file position is its beginning.
Crash ==
    /\ phase = "running"
    /\ phase' = "starting"
    /\ data' = Empty
    /\ cursor' = 0
    /\ dbindex' = NoDb
    /\ client' = [c \in Clients |-> NewClient]
    /\ saved' = data
    /\ UNCHANGED <<log, loader, plain>>

\* Server::start: listeners first, then the load, which keeps the mutex
BeginLoad ==
    /\ phase = "starting"
    /\ phase' = "loading"
    /\ loader' = NewClient
    /\ UNCHANGED <<data, log, cursor, dbindex, client, saved, plain>>

\* load executes the next entry; its result is unwrapped, so that a command that
\* waits is a panic.
LoadEntry ==
    /\ phase = "loading" /\ cursor < Len(log)
    /\ log[cursor + 1] # Junk
    /\ LET ran == Execute(Run(loader, FALSE), log[cursor + 1], <<>>)
       IN /\ data' = ran.data
          /\ loader' = ran.k
          /\ phase' = IF ran.blocked THEN "dead" ELSE "loading"
    /\ cursor' = cursor + 1
    /\ UNCHANGED <<log, dbindex, client, saved, plain>>

\* BadProtocol: load stops there.  The file position is wherever the last read
\* into the parser's buffer ended.
LoadJunk ==
    /\ phase = "loading" /\ cursor < Len(log)
    /\ log[cursor + 1] = Junk
    /\ cursor' \in cursor + 1 .. Len(log)
    /\ phase' = IF loader.multi THEN "dead" ELSE "running"
    /\ UNCHANGED <<data, log, dbindex, client, loader, saved, plain>>

\* Fault: the file position is left at the beginning
LoadEndRewound ==
    /\ phase = "loading" /\ cursor = Len(log)
    /\ cursor' = 0
    /\ phase' = "running"
    /\ UNCHANGED <<data, log, dbindex, client, loader, saved, plain>>

\* The end of the file; inside a MULTI the process exits (aof-load-truncated no)
LoadEnd ==
    /\ phase = "loading" /\ cursor = Len(log)
    /\ phase' = IF loader.multi THEN "dead" ELSE "running"
    /\ UNCHANGED <<data, log, cursor, dbindex, client, loader, saved, plain>>

Batches == UNION {[1 .. n -> Cmds] : n \in 1 .. MaxBatch}

Next ==
    \/ \E c \in Clients : \/ \E batch \in Batches : Receive(c, batch)
                          \/ Request(c)
                          \/ Retry(c)
    \/ Crash
    \/ BeginLoad
    \/ LoadEntry
    \/ LoadJunk
    \/ LoadEnd

Spec == Init /\ [][Next]_vars

-----------------------------------------------------------------------------
(* Properties *)

Client == [dbindex : Dbs, multi : BOOLEAN, queue : Seq([cmd : Command, raw : Seq(Command)]),
           buffer : Seq(Command), waits : BOOLEAN, woken : BOOLEAN]

\* Every variable has its type: the file, the keyspace, and the client structs of
\* the connections and of load.
TypeOK ==
    /\ phase \in {"starting", "loading", "running", "dead"}
    /\ data \in [Dbs -> Nat]
    /\ log \in Seq(Command \cup {Junk})
    /\ cursor \in 0 .. Len(log)
    /\ dbindex \in Dbs \cup {NoDb}
    /\ client \in [Clients -> Client]
    /\ loader \in Client
    /\ saved \in [Dbs -> Nat]
    /\ plain \in BOOLEAN

\* As long as clients send plain commands one at a time, loading the file after a
\* restart rebuilds the keyspace that was lost: each database has what it had, whatever
\* clients selected and however they took turns.
LoadRestores ==
    [][plain /\ phase = "loading" /\ phase' = "running" => data' = saved]_vars

\* And then the file only grows: nothing logged is written over, after a load either.
LogAppendOnly == [][plain' => IsPrefix(log, log')]_vars

\* No command changes the keyspace of a running server without a trace in the
\* file, whether it ran at once, after it was woken, or in an EXEC.
EveryChangeLogged ==
    [][phase = "running" /\ phase' # "starting" /\ data' # data => cursor' > cursor]_vars

=============================================================================
