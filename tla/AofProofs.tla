------------------------------ MODULE AofProofs ------------------------------
(***************************************************************************)
(* Proofs about the append only file, for any number of databases and      *)
(* clients and files of any length.                                        *)
(*                                                                         *)
(* Two things here are folded or replayed over a sequence of any length.   *)
(* The commands of an EXEC: FoldLeft is a recursive function on sets of    *)
(* positions, and what holds of each command holds of their fold by        *)
(* induction on the number of commands, in the form that a set of numbers  *)
(* has a least one (LeastNumber).  And the load: it is a sequence of       *)
(* states, of which Replays says that there is one from an empty keyspace, *)
(* through the entries, to the keyspace that was.  That a write prolongs   *)
(* it, and that the load walks along it, is all the theorems need.         *)
(***************************************************************************)
EXTENDS Aof, Induction, SequenceTheorems

Entries == Command \cup {Junk}

\* The commands that MULTI queues
KeyCommand == {cmd \in Command : cmd.op \in {"push", "bpop", "get", "select"}}
Queued == [cmd : KeyCommand, raw : Seq(Command)]
Queues == Seq(Queued)
Buffers == Seq(Command)
Files == Seq(Entries)
Conn == [dbindex : Dbs, multi : BOOLEAN, queue : Queues,
         buffer : Buffers, waits : BOOLEAN, woken : BOOLEAN]

Runs == [data : [Dbs -> Nat], k : Conn, out : Files, dbindex : Dbs \cup {NoDb},
         aof : BOOLEAN, blocked : BOOLEAN]

TypeInv ==
    /\ TypeOK
    /\ client \in [Clients -> Conn]
    /\ loader \in Conn

-----------------------------------------------------------------------------
(* The fold of EXEC *)

\* One queued command, and what FoldLeft makes of all of them: f is the recursive
\* function by which it is defined, on the subsets of S.
Step(x, q) == Apply(x, q.cmd, q.raw)
Folds(f, x, q, S) ==
    f = [s \in SUBSET S |-> IF s = {} THEN x ELSE Step(f[s \ {Max(s)}], q[Max(s)])]
Ran(x, q) == (CHOOSE f : Folds(f, x, q, DOMAIN q))[DOMAIN q]

\* EXEC runs its queue in order, and is logged itself.
LEMMA ExecRuns ==
    ASSUME NEW x, NEW cmd, NEW raw, cmd.op = "exec"
    PROVE  Execute(x, cmd, raw) = Log(Ran(LeaveMulti(x), x.k.queue), cmd, raw)
BY DEF Execute, FoldLeft, MapThenFoldSet, Ran, Folds, Step

\* That recursion defines a function, for queues of every length.
LEMMA FoldExists ==
    ASSUME NEW x, NEW q, NEW n \in Nat
    PROVE  \E f : Folds(f, x, q, 1 .. n)
<1> DEFINE T == {m \in Nat : ~ \E f : Folds(f, x, q, 1 .. m)}
<1> SUFFICES ASSUME T # {}
             PROVE  FALSE
  OBVIOUS
<1>1. PICK m \in T : \A k \in T : m <= k
  BY LeastNumber
<1>2. ~ \E f : Folds(f, x, q, 1 .. m)
  OBVIOUS
<1>3. CASE m = 0
  <2> DEFINE f == [s \in SUBSET (1 .. m) |-> x]
  <2>1. 1 .. m = {}
    BY <1>3
  <2>2. \A s \in SUBSET (1 .. m) : s = {}
    BY <2>1
  <2>3. Folds(f, x, q, 1 .. m)
    BY <2>2 DEF Folds
  <2> QED
    BY <1>2, <2>3
<1>4. CASE m # 0
  <2>1. m - 1 \in Nat /\ m - 1 \notin T
    BY <1>1, <1>4
  <2>2. PICK g : Folds(g, x, q, 1 .. m - 1)
    BY <2>1
  <2> DEFINE f == [s \in SUBSET (1 .. m) |->
                     IF m \in s THEN Step(g[s \ {m}], q[m]) ELSE g[s]]
  <2>3. ASSUME NEW s \in SUBSET (1 .. m)
        PROVE  f[s] = IF s = {} THEN x ELSE Step(f[s \ {Max(s)}], q[Max(s)])
    <3>1. s \ {m} \in SUBSET (1 .. m - 1) /\ s \ {m} \in SUBSET (1 .. m) /\ m \notin s \ {m}
      OBVIOUS
    <3>2. CASE m \in s
      <4>1. Max(s) = m
        BY <2>1, <3>2, MaxTop, m = (m - 1) + 1
      <4>2. f[s \ {m}] = g[s \ {m}]
        BY <3>1
      <4> HIDE DEF f
      <4>3. f[s] = Step(g[s \ {m}], q[m])
        BY <3>2 DEF f
      <4> QED
        BY <3>2, <4>1, <4>2, <4>3
    <3>3. CASE m \notin s
      <4>1. s \in SUBSET (1 .. m - 1) /\ s \ {Max(s)} \in SUBSET (1 .. m - 1)
        BY <3>1, <3>3
      <4>2. g[s] = IF s = {} THEN x ELSE Step(g[s \ {Max(s)}], q[Max(s)])
        BY <2>2, <4>1 DEF Folds
      <4>3. f[s] = g[s]
        BY <3>3
      <4>4. f[s \ {Max(s)}] = g[s \ {Max(s)}]
        BY <3>3
      <4> QED
        BY <4>2, <4>3, <4>4
    <3> QED
      BY <3>2, <3>3
  <2>4. f = [s \in SUBSET (1 .. m) |-> f[s]]
    OBVIOUS
  <2> HIDE DEF f
  <2>5. Folds(f, x, q, 1 .. m)
    BY <2>3, <2>4 DEF Folds
  <2> QED
    BY <1>2, <2>5
<1> QED
  BY <1>3, <1>4

-----------------------------------------------------------------------------
(* Runs of commands *)

\* A key command or SELECT changes nothing of the connection but its database.
Same(x, y) ==
    /\ y.aof = x.aof
    /\ y.k.multi = x.k.multi /\ y.k.queue = x.k.queue /\ y.k.buffer = x.k.buffer
    /\ y.k.waits = x.k.waits /\ y.k.woken = x.k.woken

\* log_command leaves the keyspace alone, and something in the file.
LEMMA LogRuns ==
    ASSUME NEW x \in Runs, NEW cmd, NEW raw \in Files
    PROVE  /\ Log(x, cmd, raw) \in Runs
           /\ Log(x, cmd, raw).data = x.data /\ Log(x, cmd, raw).k = x.k
           /\ Log(x, cmd, raw).aof = x.aof /\ Log(x, cmd, raw).blocked = x.blocked
           /\ x.aof /\ Logged(cmd) /\ raw # <<>> => Log(x, cmd, raw).out # <<>>
<1> DEFINE head == IF x.dbindex = x.k.dbindex THEN <<>> ELSE <<Select(x.k.dbindex)>>
           out == x.out \o head \o raw
<1>1. Select(x.k.dbindex) \in Entries
  BY DEF Select, Entries, Command, Runs, Conn
<1>2. head \in Files
  BY <1>1 DEF Files
<1>3. x.out \in Files
  BY DEF Runs
<1> HIDE DEF head
<1>4. out \in Files /\ (raw # <<>> => out # <<>>)
  BY <1>2, <1>3, EmptySeq DEF Files
<1>5. CASE x.aof /\ Logged(cmd)
  <2>1. Log(x, cmd, raw) = [x EXCEPT !.out = out, !.dbindex = x.k.dbindex]
    BY <1>5, <1>3, <1>2 DEF Log, head, Runs
  <2> HIDE DEF out
  <2> QED
    BY <1>4, <1>5, <2>1 DEF Runs, Conn
<1>6. CASE ~x.aof \/ ~Logged(cmd)
  BY <1>6 DEF Log, Runs
<1> QED
  BY <1>5, <1>6

\* A command that changes the keyspace is one that is logged.
LEMMA ApplyRuns ==
    ASSUME NEW x \in Runs, NEW cmd \in KeyCommand, NEW raw \in Files
    PROVE  /\ Apply(x, cmd, raw) \in Runs /\ Same(x, Apply(x, cmd, raw))
           /\ Apply(x, cmd, raw).data # x.data => Logged(cmd)
           /\ x.aof /\ Logged(cmd) /\ raw # <<>> => Apply(x, cmd, raw).out # <<>>
<1> DEFINE d == x.k.dbindex
           done == CASE cmd.op = "push" -> [x EXCEPT !.data[d] = @ + 1]
                  [] cmd.op = "bpop" -> IF x.data[d] = 0 THEN [x EXCEPT !.blocked = TRUE]
                                        ELSE [x EXCEPT !.data[d] = @ - 1]
                  [] cmd.op = "select" -> [x EXCEPT !.k.dbindex = cmd.index]
                  [] cmd.op = "get" -> x
<1>1. Apply(x, cmd, raw) = Log(done, cmd, raw)
  BY DEF Apply
<1>2. done \in Runs /\ Same(x, done) /\ (done.data # x.data => Logged(cmd))
  <2>1. d \in Dbs /\ x.data[d] \in Nat /\ x.data \in [Dbs -> Nat]
    BY DEF Runs, Conn
  <2>2. CASE cmd.op = "push"
    <3>1. done = [x EXCEPT !.data = [x.data EXCEPT ![d] = x.data[d] + 1]]
      BY <2>2 DEF Runs
    <3>2. [x.data EXCEPT ![d] = x.data[d] + 1] \in [Dbs -> Nat]
      BY <2>1
    <3> QED
      BY <2>2, <3>1, <3>2 DEF Runs, Same, Logged
  <2>3. CASE cmd.op = "bpop"
    <3>1. done = IF x.data[d] = 0 THEN [x EXCEPT !.blocked = TRUE]
                 ELSE [x EXCEPT !.data = [x.data EXCEPT ![d] = x.data[d] - 1]]
      BY <2>3 DEF Runs
    <3>2. x.data[d] # 0 => [x.data EXCEPT ![d] = x.data[d] - 1] \in [Dbs -> Nat]
      BY <2>1
    <3> QED
      BY <2>3, <3>1, <3>2 DEF Runs, Same, Logged
  <2>4. CASE cmd.op = "select"
    <3>1. done = [x EXCEPT !.k = [x.k EXCEPT !.dbindex = cmd.index]]
      BY <2>4 DEF Runs
    <3>2. cmd.index \in Dbs /\ x.k \in Conn
      BY <2>4 DEF KeyCommand, Command, Runs
    <3>3. [x.k EXCEPT !.dbindex = cmd.index] \in Conn
      BY <3>2 DEF Conn
    <3> HIDE DEF done
    <3>4. done \in Runs /\ done.data = x.data
      BY <3>1, <3>3 DEF Runs
    <3>5. Same(x, done)
      BY <3>1, <3>2 DEF Same, Runs, Conn
    <3> QED
      BY <3>4, <3>5
  <2>5. CASE cmd.op = "get"
    BY <2>5 DEF Same
  <2> QED
    BY <2>2, <2>3, <2>4, <2>5 DEF KeyCommand
<1> HIDE DEF done
<1> QED
  BY <1>1, <1>2, LogRuns DEF Same

\* What one queued command keeps, all of them keep.
LEMMA QueueRuns ==
    ASSUME NEW x \in Runs, NEW q \in Queues
    PROVE  Ran(x, q) \in Runs /\ Same(x, Ran(x, q))
<1> DEFINE f == CHOOSE g : Folds(g, x, q, DOMAIN q)
           n == Len(q)
           T == {m \in Nat : m <= n /\ ~(f[1 .. m] \in Runs /\ Same(x, f[1 .. m]))}
<1>1. n \in Nat /\ DOMAIN q = 1 .. n
  BY LenProperties DEF Queues
<1>2. Folds(f, x, q, 1 .. n)
  BY <1>1, FoldExists
<1> HIDE DEF f, n
<1>3. SUFFICES ASSUME T # {}
               PROVE  FALSE
  <2>1. n \notin T
    BY <1>3
  <2>2. Ran(x, q) = f[1 .. n]
    BY <1>1 DEF Ran, f
  <2> QED
    BY <1>1, <2>1, <2>2
<1>4. PICK m \in T : \A k \in T : m <= k
  <2> HIDE DEF T
  <2>1. T \in SUBSET Nat
    BY DEF T
  <2> QED
    BY <1>3, <2>1, LeastNumber
<1>5. 1 .. m \in SUBSET (1 .. n)
  BY <1>1
<1>6. f[1 .. m] = IF 1 .. m = {} THEN x ELSE Step(f[(1 .. m) \ {Max(1 .. m)}], q[Max(1 .. m)])
  BY <1>2, <1>5 DEF Folds
<1>7. CASE m = 0
  BY <1>6, <1>7, 1 .. 0 = {} DEF Same
<1>8. CASE m # 0
  <2>1. m - 1 \in Nat /\ m - 1 \notin T /\ m - 1 <= n
    BY <1>1, <1>4, <1>8
  <2>2. Max(1 .. m) = m
    <3>1. 1 .. m \in SUBSET (1 .. (m - 1) + 1) /\ (m - 1) + 1 = m /\ m \in 1 .. m
      BY <1>8
    <3> QED
      BY <2>1, <3>1, MaxTop
  <2>3. 1 .. m # {} /\ (1 .. m) \ {m} = 1 .. m - 1 /\ m \in 1 .. n
    <3>1. m \in Nat /\ 1 <= m /\ m <= n
      BY <1>8
    <3> HIDE DEF T
    <3>2. m \in 1 .. m /\ m \in 1 .. n
      BY <1>1, <3>1
    <3>3. (1 .. m) \ {m} = 1 .. m - 1
      BY <3>1
    <3> QED
      BY <3>2, <3>3
  <2>4. f[1 .. m] = Step(f[1 .. m - 1], q[m])
    BY <1>6, <2>2, <2>3
  <2>5. f[1 .. m - 1] \in Runs /\ Same(x, f[1 .. m - 1])
    BY <2>1
  <2>6. q[m].cmd \in KeyCommand /\ q[m].raw \in Files
    <3>1. q[m] \in Queued
      BY <1>1, <2>3, ElementOfSeq DEF n, Queues
    <3>2. Seq(Command) \subseteq Files
      BY SeqMonotonic DEF Entries, Files
    <3> QED
      BY <3>1, <3>2 DEF Queued
  <2> QED
    BY <2>4, <2>5, <2>6, ApplyRuns DEF Step, Same
<1> QED
  BY <1>7, <1>8

\* Whatever a connection or the loader executes leaves a run of the right type, and
\* a changed keyspace a trace in the file.
LEMMA ExecuteRuns ==
    ASSUME NEW x \in Runs, NEW cmd \in Command, NEW raw \in Buffers
    PROVE  LET y == Execute(x, cmd, raw)
           IN  /\ y \in Runs
               /\ x.aof /\ raw # <<>> /\ y.data # x.data => y.out # <<>>
<1> DEFINE y == Execute(x, cmd, raw)
<1>1. raw \in Files
  BY SeqMonotonic DEF Entries, Files, Buffers
<1>2. LeaveMulti(x) \in Runs /\ LeaveMulti(x).aof = x.aof /\ LeaveMulti(x).data = x.data
  <2>1. x.k \in Conn /\ LeaveMulti(x) = [x EXCEPT !.k = [x.k EXCEPT !.multi = FALSE, !.queue = <<>>]]
    BY DEF LeaveMulti, Runs
  <2>2. <<>> \in Queues
    BY DEF Queues
  <2>3. [x.k EXCEPT !.multi = FALSE, !.queue = <<>>] \in Conn
    BY <2>1, <2>2 DEF Conn
  <2> QED
    BY <2>1, <2>3 DEF Runs
<1>3. CASE cmd.op = "multi"
  BY <1>3 DEF Execute, Runs, Conn
<1>4. CASE cmd.op = "discard"
  BY <1>2, <1>4 DEF Execute
<1>5. CASE cmd.op = "exec"
  <2> DEFINE r == Ran(LeaveMulti(x), x.k.queue)
  <2>1. y = Log(r, cmd, raw)
    BY <1>5, ExecRuns
  <2>2. x.k.queue \in Queues
    BY DEF Runs, Conn
  <2> HIDE DEF r
  <2>3. r \in Runs /\ r.aof = x.aof
    BY <1>2, <2>2, QueueRuns DEF r, Same
  <2>4. Logged(cmd)
    BY <1>5 DEF Logged
  <2> QED
    BY <1>1, <2>1, <2>3, <2>4, LogRuns
<1>6. CASE cmd.op \notin {"multi", "discard", "exec"}
  <2>1. cmd \in KeyCommand
    BY <1>6 DEF KeyCommand, Command
  <2>2. CASE x.k.multi
    <3> DEFINE z == [x EXCEPT !.k.queue = Append(@, [cmd |-> cmd, raw |-> raw])]
    <3>1. y = Log(z, cmd, raw)
      BY <1>6, <2>2 DEF Execute, Enqueue
    <3>2. x.k.queue \in Queues /\ x.k \in Conn
      BY DEF Runs, Conn
    <3>3. [cmd |-> cmd, raw |-> raw] \in Queued
      BY <2>1 DEF Queued, Buffers
    <3>4. Append(x.k.queue, [cmd |-> cmd, raw |-> raw]) \in Queues
      BY <3>2, <3>3 DEF Queues
    <3>5. z \in Runs /\ z.data = x.data
      BY <3>2, <3>4 DEF Runs, Conn
    <3> HIDE DEF z
    <3> QED
      BY <1>1, <3>1, <3>5, LogRuns
  <2>3. CASE ~x.k.multi
    <3>1. y = Apply(x, cmd, raw)
      BY <1>6, <2>3 DEF Execute
    <3> QED
      BY <1>1, <2>1, <3>1, ApplyRuns
  <2> QED
    BY <2>2, <2>3
<1> QED
  BY <1>3, <1>4, <1>5, <1>6

\* A write at the file position leaves it behind what was written.
LEMMA OverwrittenType ==
    ASSUME log \in Seq(Entries), cursor \in 0 .. Len(log), NEW out \in Seq(Entries),
           NEW l \in Overwritten(out)
    PROVE  l \in Seq(Entries) /\ cursor + Len(out) \in 0 .. Len(l)
<1> DEFINE kept == SubSeq(log, 1, cursor)
           before == kept \o out
           rest == SubSeq(log, Len(before) + 1, Len(log))
<1>1. kept \in Seq(Entries) /\ Len(kept) = cursor
  BY SubSeqProperties
<1> HIDE DEF kept
<1>2. before \in Seq(Entries) /\ Len(before) = cursor + Len(out)
  BY <1>1, ConcatProperties
<1> HIDE DEF before
<1>3. rest \in Seq(Entries)
  <2>1. Len(before) \in Nat /\ Len(log) \in Nat
    BY <1>2, LenProperties
  <2> QED
    BY <2>1, SubSeqProperties
<1>4. l \in {before, before \o rest, before \o <<Junk>> \o rest}
  BY DEF Overwritten, before, kept
<1> HIDE DEF rest
<1>5. <<Junk>> \in Seq(Entries) /\ Len(<<Junk>>) = 1
  BY DEF Entries
<1>6. Len(before) \in Nat /\ Len(rest) \in Nat
  BY <1>2, <1>3, LenProperties
<1>7. CASE l = before
  BY <1>2, <1>6, <1>7
<1>8. CASE l = before \o rest
  BY <1>2, <1>3, <1>6, <1>8, ConcatProperties
<1>9. CASE l = before \o <<Junk>> \o rest
  <2> DEFINE junk == <<Junk>>
             torn == before \o junk
  <2>1. junk \in Seq(Entries) /\ Len(junk) = 1 /\ l = torn \o rest
    BY <1>5, <1>9
  <2> HIDE DEF junk
  <2>2. torn \in Seq(Entries) /\ Len(torn) = Len(before) + 1
    <3>1. before \in Seq(Entries) /\ junk \in Seq(Entries) /\ Len(junk) = 1
      BY <1>2, <2>1
    <3>2. torn \in Seq(Entries) /\ Len(torn) = Len(before) + Len(junk)
      BY <3>1, ConcatProperties
    <3> QED
      BY <3>1, <3>2
  <2> HIDE DEF torn
  <2> QED
    BY <1>2, <1>3, <1>6, <2>1, <2>2, ConcatProperties
<1> QED
  BY <1>4, <1>7, <1>8, <1>9

-----------------------------------------------------------------------------
(* Types *)

\* A connection starts with a database that exists and an empty queue.
LEMMA FreshConn ==
    /\ NewClient \in Conn
    /\ Empty \in [Dbs -> Nat]
    /\ 0 \in Dbs
<1>1. 0 \in Dbs
  BY AofAssumption DEF Dbs
<1> QED
  BY <1>1 DEF NewClient, Conn, Empty, Queues, Buffers

\* The file, the keyspace and the connections after a request, and what tells that
\* something was written.
LEMMA CommitType ==
    ASSUME TypeInv, NEW c \in Clients, NEW x \in Runs, Commit(c, x)
    PROVE  /\ data' = x.data /\ data' \in [Dbs -> Nat] /\ dbindex' \in Dbs \cup {NoDb}
           /\ log' \in Seq(Entries) /\ cursor' \in 0 .. Len(log')
           /\ client' \in [Clients -> Conn]
           /\ x.out # <<>> => cursor' > cursor
<1>1. /\ x.data \in [Dbs -> Nat] /\ x.out \in Files /\ x.k \in Conn
      /\ x.dbindex \in Dbs \cup {NoDb} /\ client \in [Clients -> Conn]
      /\ log \in Seq(Entries) /\ cursor \in 0 .. Len(log)
  BY DEF Runs, TypeInv, TypeOK, Entries, Files
<1>2. /\ data' = x.data /\ dbindex' = x.dbindex /\ cursor' = cursor + Len(x.out)
      /\ log' \in Overwritten(x.out)
  BY DEF Commit
<1>3. log' \in Seq(Entries) /\ cursor' \in 0 .. Len(log')
  BY <1>1, <1>2, OverwrittenType DEF Files
<1>4. x.out # <<>> => cursor' > cursor
  BY <1>1, <1>2, EmptySeq, LenProperties DEF Files
<1>5. client' \in [Clients -> Conn]
  <2>1. client' = [e \in Clients |->
          IF e = c THEN x.k
          ELSE [client[e] EXCEPT !.woken = @ \/ (client[e].waits
                                   /\ x.data[client[e].dbindex] > data[client[e].dbindex])]]
    BY DEF Commit
  <2>2. ASSUME NEW e \in Clients \ {c}
        PROVE  client'[e] \in Conn
    <3> DEFINE w == client[e].woken \/ (client[e].waits
                       /\ x.data[client[e].dbindex] > data[client[e].dbindex])
    <3>1. client'[e] = [client[e] EXCEPT !.woken = w]
      BY <1>1, <2>1 DEF Conn
    <3>2. client[e] \in Conn /\ w \in BOOLEAN
      BY <1>1 DEF Conn
    <3> HIDE DEF w
    <3> QED
      BY <3>1, <3>2 DEF Conn
  <2>3. client'[c] = x.k
    BY <2>1
  <2> QED
    BY <1>1, <2>1, <2>2, <2>3
<1> QED
  BY <1>1, <1>2, <1>3, <1>4, <1>5

\* A connection with its queue is one of the type of the struct.
LEMMA ConnTyped ==
    /\ Conn \subseteq Client
    /\ \A f \in [Clients -> Conn] : f \in [Clients -> Client]
<1>1. Queued \subseteq [cmd : Command, raw : Seq(Command)]
  BY DEF Queued, KeyCommand
<1>2. Seq(Queued) \subseteq Seq([cmd : Command, raw : Seq(Command)])
  BY <1>1, SeqMonotonic
<1>3. Conn \subseteq Client
  BY <1>2 DEF Conn, Client, Queues, Buffers
<1> QED
  BY <1>3

\* What a run begins with.
LEMMA RunType ==
    ASSUME TypeInv, NEW k \in Conn, NEW aof \in BOOLEAN
    PROVE  Run(k, aof) \in Runs /\ Run(k, aof).data = data /\ Run(k, aof).aof = aof
<1>1. <<>> \in Files /\ data \in [Dbs -> Nat] /\ dbindex \in Dbs \cup {NoDb}
  BY DEF Files, TypeInv, TypeOK
<1> QED
  BY <1>1 DEF Run, Runs

\* The run of a connection's next command, and of the repetition of its pop.
LEMMA RequestRuns ==
    ASSUME TypeInv, NEW c \in Clients, Request(c) \/ Retry(c)
    PROVE  \E x \in Runs : Commit(c, x) /\ (x.data # data => x.out # <<>>)
<1>1. client[c] \in Conn
  BY DEF TypeInv
<1>2. CASE Request(c)
  <2> DEFINE k == client[c]
             k0 == [k EXCEPT !.buffer = Tail(@)]
             cmd == Head(k.buffer)
             ran == Execute(Run(k0, TRUE), cmd, k.buffer)
             x == [ran EXCEPT !.k.waits = ran.blocked]
  <2>1. k.buffer \in Buffers /\ k.buffer # <<>> /\ Commit(c, x)
    BY <1>1, <1>2 DEF Request, Conn
  <2>2. cmd \in Command /\ Tail(k.buffer) \in Buffers
    BY <2>1 DEF Buffers
  <2>6. k0 \in Conn
    BY <1>1, <2>2 DEF Conn
  <2> HIDE DEF k0, cmd
  <2>3. Run(k0, TRUE) \in Runs /\ Run(k0, TRUE).data = data /\ Run(k0, TRUE).aof
    BY <2>6, RunType
  <2>4. ran \in Runs /\ (ran.data # data => ran.out # <<>>)
    BY <2>1, <2>2, <2>3, ExecuteRuns
  <2> HIDE DEF ran
  <2>5. x \in Runs /\ x.data = ran.data /\ x.out = ran.out
    BY <2>4 DEF Runs, Conn
  <2> QED
    BY <2>1, <2>4, <2>5
<1>3. CASE Retry(c)
  <2> DEFINE k0 == [client[c] EXCEPT !.woken = FALSE]
             cmd == [op |-> "bpop"]
             raw == <<Junk>>
             ran == Apply(Run(k0, TRUE), cmd, raw)
             x == [ran EXCEPT !.k.waits = ran.blocked]
  <2>1. Commit(c, x)
    BY <1>3 DEF Retry
  <2>2. k0 \in Conn /\ cmd \in KeyCommand
    BY <1>1 DEF Conn, KeyCommand, Command
  <2>6. raw \in Files /\ raw # <<>>
    BY DEF Files, Entries
  <2> HIDE DEF k0, cmd, raw
  <2>3. Run(k0, TRUE) \in Runs /\ Run(k0, TRUE).data = data /\ Run(k0, TRUE).aof
    BY <2>2, RunType
  <2>4. ran \in Runs /\ (ran.data # data => ran.out # <<>>)
    BY <2>2, <2>3, <2>6, ApplyRuns
  <2> HIDE DEF ran
  <2>5. x \in Runs /\ x.data = ran.data /\ x.out = ran.out
    BY <2>4 DEF Runs, Conn
  <2> QED
    BY <2>1, <2>4, <2>5
<1> QED
  BY <1>2, <1>3

\* Every step keeps the types.
LEMMA TypeStep == TypeInv /\ [Next]_vars => TypeInv'
<1> SUFFICES ASSUME TypeInv, [Next]_vars
             PROVE  TypeInv'
  OBVIOUS
<1>1. ASSUME NEW c \in Clients, NEW batch \in Batches, Receive(c, batch)
      PROVE  TypeInv'
  <2>1. batch \in Buffers
    BY AofAssumption DEF Batches, Buffers
  <2>2. client' = [client EXCEPT ![c].buffer = batch] /\ client \in [Clients -> Conn]
    BY <1>1 DEF Receive, TypeInv
  <2>3. client[c] \in Conn /\ [client[c] EXCEPT !.buffer = batch] \in Conn
    BY <2>1, <2>2 DEF Conn
  <2>4. client' \in [Clients -> Conn]
    BY <2>2, <2>3
  <2>5. plain' \in BOOLEAN
    BY <1>1 DEF Receive
  <2> QED
    BY <1>1, <2>4, <2>5, ConnTyped DEF Receive, TypeInv, TypeOK
<1>2. ASSUME NEW c \in Clients, Request(c) \/ Retry(c)
      PROVE  TypeInv'
  <2>1. PICK x \in Runs : Commit(c, x)
    BY <1>2, RequestRuns
  <2>2. phase' \in {phase, "dead"} /\ UNCHANGED <<loader, saved, plain>>
    BY <1>2 DEF Request, Retry
  <2> QED
    BY <2>1, <2>2, CommitType, ConnTyped DEF TypeInv, TypeOK, Entries, Files
<1>3. ASSUME Crash
      PROVE  TypeInv'
  BY <1>3, FreshConn, ConnTyped DEF Crash, TypeInv, TypeOK
<1>4. ASSUME BeginLoad
      PROVE  TypeInv'
  BY <1>4, FreshConn, ConnTyped DEF BeginLoad, TypeInv, TypeOK
<1>5. ASSUME LoadEntry
      PROVE  TypeInv'
  <2> DEFINE cmd == log[cursor + 1]
             ran == Execute(Run(loader, FALSE), cmd, <<>>)
  <2>1. cmd \in Command
    BY <1>5 DEF LoadEntry, TypeInv, TypeOK
  <2>2. Run(loader, FALSE) \in Runs
    BY RunType DEF TypeInv
  <2>3. <<>> \in Buffers
    BY DEF Buffers
  <2> HIDE DEF cmd
  <2>4. ran \in Runs
    BY <2>1, <2>2, <2>3, ExecuteRuns
  <2>5. /\ data' = ran.data /\ loader' = ran.k /\ phase' \in {"dead", "loading"}
        /\ cursor' = cursor + 1 /\ cursor < Len(log)
        /\ UNCHANGED <<log, dbindex, client, saved, plain>>
    BY <1>5 DEF LoadEntry, cmd
  <2> HIDE DEF ran
  <2>6. data' \in [Dbs -> Nat] /\ loader' \in Conn
    BY <2>4, <2>5 DEF Runs
  <2>7. cursor' \in 0 .. Len(log')
    BY <2>5 DEF TypeInv, TypeOK
  <2> QED
    BY <2>5, <2>6, <2>7, ConnTyped DEF TypeInv, TypeOK
<1>6. ASSUME LoadJunk
      PROVE  TypeInv'
  <2>1. cursor' \in 0 .. Len(log') /\ phase' \in {"dead", "running"}
    BY <1>6 DEF LoadJunk, TypeInv, TypeOK
  <2> QED
    BY <1>6, <2>1 DEF LoadJunk, TypeInv, TypeOK
<1>7. ASSUME LoadEnd
      PROVE  TypeInv'
  BY <1>7 DEF LoadEnd, TypeInv, TypeOK
<1>8. ASSUME UNCHANGED vars
      PROVE  TypeInv'
  BY <1>8 DEF vars, TypeInv, TypeOK
<1> QED
  BY <1>1, <1>2, <1>3, <1>4, <1>5, <1>6, <1>7, <1>8 DEF Next

\* The types hold at the start.
LEMMA TypeInit == Init => TypeInv
BY FreshConn, ConnTyped DEF Init, TypeInv, TypeOK

\* The invariant of the types holds for ever.
LEMMA TypesKept == Spec => []TypeInv
BY TypeInit, TypeStep, PTL DEF Spec

\* The file, the keyspace and the connections have their types in every reachable
\* state: a queue holds only what MULTI queues, and the position is in the file.
THEOREM TypeCorrect == Spec => []TypeOK
<1>1. TypeInv => TypeOK
  BY DEF TypeInv
<1> QED
  BY TypesKept, <1>1, PTL

\* No command that a running server executes, repeats for a woken client or takes out of
\* an EXEC's queue changes the keyspace without an entry in the file.
THEOREM ChangesLogged == Spec => EveryChangeLogged
<1> DEFINE Traced == phase = "running" /\ phase' # "starting" /\ data' # data => cursor' > cursor
<1>1. ASSUME TypeInv, [Next]_vars
      PROVE  [Traced]_vars
  <2> SUFFICES ASSUME phase = "running", phase' # "starting", data' # data
               PROVE  cursor' > cursor
    OBVIOUS
  <2>1. ASSUME NEW c \in Clients, Request(c) \/ Retry(c)
        PROVE  cursor' > cursor
    <3>1. PICK x \in Runs : Commit(c, x) /\ (x.data # data => x.out # <<>>)
      BY <1>1, <2>1, RequestRuns
    <3> QED
      BY <1>1, <3>1, CommitType
  <2>2. ASSUME NEW c \in Clients, NEW batch \in Batches, Receive(c, batch)
        PROVE  FALSE
    BY <2>2 DEF Receive
  <2> QED
    BY <1>1, <2>1, <2>2 DEF Next, vars, Crash, BeginLoad, LoadEntry, LoadJunk, LoadEnd
<1> QED
  BY <1>1, TypesKept, PTL DEF Spec, EveryChangeLogged

-----------------------------------------------------------------------------
(* Replaying the file *)

\* What plain commands leave in the file
PlainEntry == {cmd \in Command : cmd.op \in {"push", "select"}}
Push == [op |-> "push"]

\* What load makes of an entry, and the states it goes through
States == [data : [Dbs -> Nat], db : Dbs]
Entry(s, cmd) ==
    IF cmd.op = "select" THEN [s EXCEPT !.db = cmd.index] ELSE [s EXCEPT !.data[s.db] = @ + 1]
Replays(tr, l) ==
    /\ tr \in [0 .. Len(l) -> States]
    /\ tr[0] = [data |-> Empty, db |-> 0]
    /\ \A i \in 1 .. Len(l) : tr[i] = Entry(tr[i - 1], l[i])

\* Nothing is queued, nothing waits, and at most one plain command has been read
Resting(k) == ~k.multi /\ ~k.waits
AtMostOne(k) == k.buffer # <<>> =>
    phase = "running" /\ \E cmd \in Command : Plain(cmd) /\ k.buffer = <<cmd>>

\* The replay of the file passes through what the keyspace and the database selected
\* last are at the position, and ends with what was lost.
Replayed ==
    \E tr : /\ Replays(tr, log)
            /\ tr[cursor].data = data
            /\ phase = "loading" => tr[cursor].db = loader.dbindex
            /\ dbindex # NoDb => tr[cursor].db = dbindex
            /\ phase # "running" => tr[Len(log)].data = saved

PlainInv ==
    /\ log \in Seq(PlainEntry)
    /\ phase # "dead"
    /\ \A c \in Clients : Resting(client[c]) /\ AtMostOne(client[c])
    /\ ~loader.multi
    /\ phase = "running" => cursor = Len(log)
    /\ phase = "starting" => cursor = 0 /\ data = Empty
    /\ phase # "running" => dbindex = NoDb
    /\ Replayed

\* An entry takes a state to a state.
LEMMA EntryType ==
    ASSUME NEW s \in States, NEW cmd \in PlainEntry
    PROVE  Entry(s, cmd) \in States
<1>1. s.data \in [Dbs -> Nat] /\ s.db \in Dbs
  BY DEF States
<1>2. CASE cmd.op = "select"
  <2>1. cmd.index \in Dbs
    BY <1>2 DEF PlainEntry, Command
  <2> QED
    BY <1>2, <2>1 DEF Entry, States
<1>3. CASE cmd.op # "select"
  <2>1. Entry(s, cmd) = [s EXCEPT !.data = [s.data EXCEPT ![s.db] = s.data[s.db] + 1]]
    BY <1>3 DEF Entry, States
  <2>2. [s.data EXCEPT ![s.db] = s.data[s.db] + 1] \in [Dbs -> Nat]
    BY <1>1
  <2> QED
    BY <2>1, <2>2 DEF States
<1> QED
  BY <1>2, <1>3

\* A write at the end prolongs the replay.
LEMMA ReplayAppend ==
    ASSUME NEW l \in Seq(PlainEntry), NEW tr, Replays(tr, l), NEW cmd \in PlainEntry
    PROVE  \E t : /\ Replays(t, Append(l, cmd))
                  /\ t[Len(Append(l, cmd))] = Entry(tr[Len(l)], cmd)
<1> DEFINE n == Len(l)
           m == Append(l, cmd)
           t == [i \in 0 .. n + 1 |-> IF i <= n THEN tr[i] ELSE Entry(tr[n], cmd)]
<1>1. n \in Nat /\ Len(m) = n + 1 /\ m[n + 1] = cmd /\ \A i \in 1 .. n : m[i] = l[i]
  BY LenProperties, AppendProperties
<1> HIDE DEF n, m
<1>2. /\ \A i \in 0 .. n : tr[i] \in States
      /\ tr[0] = [data |-> Empty, db |-> 0]
      /\ \A i \in 1 .. n : tr[i] = Entry(tr[i - 1], l[i])
  BY DEF Replays, n
<1>3. Entry(tr[n], cmd) \in States
  BY <1>1, <1>2, EntryType
<1>4. /\ t \in [0 .. n + 1 -> States]
      /\ t[n + 1] = Entry(tr[n], cmd)
      /\ \A i \in 0 .. n : t[i] = tr[i]
  BY <1>1, <1>2, <1>3
<1> HIDE DEF t
<1>5. ASSUME NEW i \in 1 .. n + 1
      PROVE  t[i] = Entry(t[i - 1], m[i])
  <2>1. i - 1 \in 0 .. n
    BY <1>1
  <2>2. CASE i = n + 1
    BY <1>1, <1>4, <2>1, <2>2
  <2>3. CASE i # n + 1
    <3>1. i \in 1 .. n /\ i \in 0 .. n
      BY <1>1, <2>3
    <3> QED
      BY <1>1, <1>2, <1>4, <2>1, <3>1
  <2> QED
    BY <2>2, <2>3
<1>6. Replays(t, m)
  BY <1>1, <1>2, <1>4, <1>5 DEF Replays
<1> QED
  BY <1>1, <1>4, <1>6 DEF n, m

\* What a client's plain command leaves in the file: a SELECT if another database was
\* written last, and the push.
Written(l, d) == Append(IF dbindex = d THEN l ELSE Append(l, Select(d)), Push)

\* A write at the end of the file is an append.
LEMMA WrittenAtEnd ==
    ASSUME log \in Seq(PlainEntry), cursor = Len(log), NEW d \in Dbs,
           NEW l \in Overwritten((IF dbindex = d THEN <<>> ELSE <<Select(d)>>) \o <<Push>>)
    PROVE  l = Written(log, d)
<1>1. SubSeq(log, 1, cursor) = log
  BY SubSeqFull
<1>2. Select(d) \in PlainEntry /\ Push \in PlainEntry
  BY DEF Select, Push, PlainEntry, Command
<1> DEFINE push == <<Push>>
           select == <<Select(d)>>
<1>3. push \in Seq(PlainEntry) /\ select \in Seq(PlainEntry)
  BY <1>2
<1>4. CASE dbindex = d
  <2>1. <<>> \o push = push
    BY <1>3, ConcatEmptySeq
  <2>2. l = log \o push
    BY <1>1, <1>4, <2>1 DEF Overwritten
  <2> QED
    BY <1>2, <1>4, <2>2, AppendIsConcat DEF Written
<1>5. CASE dbindex # d
  <2>1. l = log \o (select \o push)
    BY <1>1, <1>5 DEF Overwritten
  <2> HIDE DEF push, select
  <2>2. l = (log \o select) \o push
    <3>1. (log \o select) \o push = log \o (select \o push)
      BY SMTT(20), <1>3, ConcatAssociative
    <3> QED
      BY <2>1, <3>1
  <2>3. Append(log, Select(d)) = log \o select
    BY <1>2, AppendIsConcat DEF select
  <2>4. Append(log, Select(d)) \in Seq(PlainEntry)
    BY <1>2
  <2>5. Append(Append(log, Select(d)), Push) = (log \o select) \o push
    BY <1>2, <2>3, <2>4, AppendIsConcat DEF push
  <2> QED
    BY <1>5, <2>2, <2>5 DEF Written
<1> QED
  BY <1>4, <1>5

\* The run of a plain command: the others change nothing, and a push is one entry or two.
LEMMA PlainRun ==
    ASSUME TypeInv, NEW k \in Conn, Resting(k), NEW cmd \in Command, Plain(cmd)
    PROVE  LET x == Execute(Run(k, TRUE), cmd, <<cmd>>)
           IN  /\ Resting(x.k) /\ x.k.buffer = k.buffer /\ ~x.blocked
               /\ \/ x.data = data /\ x.out = <<>> /\ x.dbindex = dbindex
                  \/ /\ cmd = Push
                     /\ x.data = [data EXCEPT ![k.dbindex] = @ + 1]
                     /\ x.out = (IF dbindex = k.dbindex THEN <<>> ELSE <<Select(k.dbindex)>>) \o <<Push>>
                     /\ x.dbindex = k.dbindex
<1> DEFINE x0 == Run(k, TRUE)
           x == Execute(x0, cmd, <<cmd>>)
<1>1. x0 = [data |-> data, k |-> k, out |-> <<>>, dbindex |-> dbindex, aof |-> TRUE,
            blocked |-> FALSE]
  BY DEF Run
<1>2. ~k.multi /\ ~k.waits /\ cmd.op \in {"push", "get", "select"}
  BY DEF Resting, Plain
<1>3. k.multi = FALSE /\ k.waits = FALSE
  BY <1>2 DEF Conn
<1>4. x = Apply(x0, cmd, <<cmd>>)
  <2> HIDE DEF x0
  <2>1. x0.k = k
    BY <1>1
  <2>2. x0.k.multi = FALSE
    BY <1>3, <2>1
  <2> QED
    BY <1>2, <2>2 DEF Execute
<1> HIDE DEF x0, x
<1> SUFFICES /\ Resting(x.k) /\ x.k.buffer = k.buffer /\ ~x.blocked
             /\ \/ x.data = data /\ x.out = <<>> /\ x.dbindex = dbindex
                \/ /\ cmd = Push
                   /\ x.data = [data EXCEPT ![k.dbindex] = @ + 1]
                   /\ x.out = (IF dbindex = k.dbindex THEN <<>> ELSE <<Select(k.dbindex)>>) \o <<Push>>
                   /\ x.dbindex = k.dbindex
  BY DEF x, x0
<1>5. CASE cmd.op = "get"
  <2>1. x = x0
    BY <1>4, <1>5 DEF Apply, Log, Logged
  <2> QED
    BY <1>1, <1>3, <2>1 DEF Resting
<1>6. CASE cmd.op = "select"
  <2>1. x = [x0 EXCEPT !.k.dbindex = cmd.index]
    BY <1>4, <1>6 DEF Apply, Log, Logged
  <2>2. x = [x0 EXCEPT !.k = [k EXCEPT !.dbindex = cmd.index]]
    BY <1>1, <2>1
  <2>3. /\ x.k = [k EXCEPT !.dbindex = cmd.index] /\ x.data = data /\ x.out = <<>>
        /\ x.dbindex = dbindex /\ x.blocked = FALSE
    BY <1>1, <2>2
  <2> QED
    BY <1>3, <2>3 DEF Resting, Conn
<1>7. CASE cmd.op = "push"
  <2> DEFINE d == k.dbindex
             added == [data EXCEPT ![d] = @ + 1]
             done == [x0 EXCEPT !.data[d] = @ + 1]
             sel == IF dbindex = d THEN <<>> ELSE <<Select(d)>>
  <2>1. cmd = Push
    BY <1>7 DEF Command, Push
  <2>2. x = Log(done, cmd, <<cmd>>)
    BY <1>1, <1>4, <1>7 DEF Apply
  <2>3. done = [x0 EXCEPT !.data = added]
    BY <1>1
  <2> HIDE DEF done, added
  <2>4. done = [data |-> added, k |-> k, out |-> <<>>, dbindex |-> dbindex, aof |-> TRUE,
                blocked |-> FALSE]
    BY <1>1, <2>3
  <2>5. x = [done EXCEPT !.out = <<>> \o (IF done.dbindex = done.k.dbindex THEN <<>>
                                         ELSE <<Select(done.k.dbindex)>>) \o <<cmd>>,
                         !.dbindex = done.k.dbindex]
    BY <1>7, <2>2, <2>4 DEF Log, Logged
  <2>6. x = [done EXCEPT !.out = (<<>> \o sel) \o <<cmd>>, !.dbindex = d]
    BY <2>4, <2>5
  <2>7. <<>> \o sel = sel
    OBVIOUS
  <2> HIDE DEF sel
  <2>8. x = [done EXCEPT !.out = sel \o <<Push>>, !.dbindex = d]
    BY <2>1, <2>6, <2>7
  <2>9. /\ x.out = sel \o <<Push>> /\ x.dbindex = d /\ x.k = k /\ x.blocked = FALSE
        /\ x.data = added
    BY <2>4, <2>8
  <2> QED
    BY <1>3, <2>1, <2>9 DEF Resting, sel, added
<1> QED
  BY <1>2, <1>5, <1>6, <1>7

\* A connection that reads or executes one plain command at a time.
LEMMA OtherConns ==
    ASSUME TypeInv, PlainInv, NEW c \in Clients, NEW x \in Runs, Commit(c, x),
           Resting(x.k), x.k.buffer = <<>>, phase' = phase
    PROVE  \A e \in Clients : Resting(client'[e]) /\ AtMostOne(client[e])'
<1> SUFFICES ASSUME NEW e \in Clients
             PROVE  Resting(client'[e]) /\ AtMostOne(client[e])'
  OBVIOUS
<1>1. Resting(client[e]) /\ AtMostOne(client[e]) /\ client[e] \in Conn
  BY DEF PlainInv, TypeInv
<1>2. CASE e = c
  <2>1. client'[e] = x.k
    BY <1>2 DEF Commit
  <2> QED
    BY <2>1 DEF AtMostOne
<1>3. CASE e # c
  <2> DEFINE w == client[e].woken \/ (client[e].waits
                     /\ x.data[client[e].dbindex] > data[client[e].dbindex])
  <2>1. client'[e] = [client[e] EXCEPT !.woken = w]
    BY <1>1, <1>3 DEF Commit, Conn
  <2> HIDE DEF w
  <2>2. /\ client'[e].multi = client[e].multi /\ client'[e].waits = client[e].waits
        /\ client'[e].buffer = client[e].buffer
    BY <1>1, <2>1 DEF Conn
  <2> QED
    BY <1>1, <2>2 DEF Resting, AtMostOne
<1> QED
  BY <1>2, <1>3

\* A push at the end of the file is replayed behind all that is there.
LEMMA ReplayWritten ==
    ASSUME log \in Seq(PlainEntry), NEW tr, Replays(tr, log), NEW d \in Dbs,
           data \in [Dbs -> Nat], tr[Len(log)].data = data,
           dbindex = d => tr[Len(log)].db = d
    PROVE  /\ Written(log, d) \in Seq(PlainEntry)
           /\ \E t : /\ Replays(t, Written(log, d))
                    /\ t[Len(Written(log, d))] = [data |-> [data EXCEPT ![d] = @ + 1], db |-> d]
<1> DEFINE l == IF dbindex = d THEN log ELSE Append(log, Select(d))
           s == [data |-> data, db |-> d]
<1>1. Select(d) \in PlainEntry /\ Push \in PlainEntry
  BY DEF Select, Push, PlainEntry, Command
<1>2. tr[Len(log)] \in States
  BY LenProperties DEF Replays
<1>3. l \in Seq(PlainEntry) /\ \E t : Replays(t, l) /\ t[Len(l)] = s
  <2>1. CASE dbindex = d
    <3>1. tr[Len(log)] = s
      BY <1>2, <2>1 DEF States
    <3> QED
      BY <2>1, <3>1
  <2>2. CASE dbindex # d
    <3>1. Entry(tr[Len(log)], Select(d)) = s
      BY <1>2 DEF Entry, Select, States
    <3>2. Append(log, Select(d)) \in Seq(PlainEntry)
      BY <1>1
    <3>3. \E t : /\ Replays(t, Append(log, Select(d)))
                /\ t[Len(Append(log, Select(d)))] = s
      BY <1>1, <3>1, ReplayAppend
    <3> QED
      BY <2>2, <3>2, <3>3
  <2> QED
    BY <2>1, <2>2
<1>4. Written(log, d) = Append(l, Push)
  BY DEF Written
<1> HIDE DEF l
<1>5. Entry(s, Push) = [data |-> [data EXCEPT ![d] = @ + 1], db |-> d]
  BY DEF Entry, Push
<1>6. PICK t : Replays(t, l) /\ t[Len(l)] = s
  BY <1>3
<1>7. \E u : Replays(u, Append(l, Push)) /\ u[Len(Append(l, Push))] = Entry(t[Len(l)], Push)
  BY <1>1, <1>3, <1>6, ReplayAppend
<1>8. Append(l, Push) \in Seq(PlainEntry)
  BY <1>1, <1>3
<1> QED
  BY <1>4, <1>5, <1>6, <1>7, <1>8

\* The server starts with no file and nothing to restore.
LEMMA PlainInit == Init => PlainInv
<1> SUFFICES ASSUME Init
             PROVE  PlainInv
  OBVIOUS
<1> DEFINE tr == [i \in 0 .. 0 |-> [data |-> Empty, db |-> 0]]
<1>1. [data |-> Empty, db |-> 0] \in States
  BY AofAssumption DEF States, Empty, Dbs
<1>2. log = <<>> /\ Len(log) = 0 /\ log \in Seq(PlainEntry)
  BY DEF Init
<1>3. tr \in [0 .. 0 -> States] /\ tr[0] = [data |-> Empty, db |-> 0]
  BY <1>1
<1> HIDE DEF tr
<1>4. Replays(tr, log) /\ tr[0].data = Empty
  BY <1>2, <1>3 DEF Replays
<1>5. Replayed
  BY <1>2, <1>4 DEF Replayed, Init
<1>6. ~NewClient.multi /\ ~NewClient.waits /\ NewClient.buffer = <<>>
  BY DEF NewClient
<1>7. \A c \in Clients : client[c] = NewClient
  BY DEF Init
<1> QED
  BY <1>2, <1>5, <1>6, <1>7 DEF Init, PlainInv, Resting, AtMostOne

\* The next command of a connection that sends plain commands one at a time is run, and
\* written at the end of the file.
LEMMA PlainRequest ==
    ASSUME TypeInv, PlainInv, NEW c \in Clients, Request(c)
    PROVE  /\ phase = "running" /\ phase' = "running" /\ cursor' = Len(log')
           /\ \A e \in Clients : Resting(client'[e]) /\ AtMostOne(client[e])'
           /\ \/ data' = data /\ log' = log /\ dbindex' = dbindex
              \/ \E d \in Dbs : /\ data' = [data EXCEPT ![d] = @ + 1]
                               /\ log' = Written(log, d)
                               /\ dbindex' = d
<1> DEFINE k == client[c]
           k0 == [k EXCEPT !.buffer = Tail(@)]
           head == Head(k.buffer)
           ran == Execute(Run(k0, TRUE), head, k.buffer)
           x == [ran EXCEPT !.k.waits = ran.blocked]
<1>1. /\ k.buffer # <<>> /\ Commit(c, x)
      /\ phase' = IF ran.blocked /\ head.op = "exec" THEN "dead" ELSE phase
  BY DEF Request
<1>2. k \in Conn /\ Resting(k) /\ AtMostOne(k)
  BY DEF TypeInv, PlainInv
<1>3. PICK cmd \in Command : Plain(cmd) /\ k.buffer = <<cmd>>
  BY <1>1, <1>2 DEF AtMostOne
<1>4. phase = "running" /\ cursor = Len(log)
  BY <1>1, <1>2 DEF AtMostOne, PlainInv
<1>5. k0 \in Conn /\ Resting(k0) /\ k0.buffer = <<>>
  <2>1. Tail(k.buffer) = <<>> /\ <<>> \in Buffers
    BY <1>3 DEF Buffers
  <2>2. k0 = [k EXCEPT !.buffer = <<>>]
    BY <1>2, <2>1 DEF Conn
  <2> HIDE DEF k0
  <2> QED
    BY <1>2, <2>1, <2>2 DEF Conn, Resting
<1>6. head = cmd
  BY <1>3
<1>7. ran = Execute(Run(k0, TRUE), cmd, <<cmd>>)
  BY <1>3, <1>6
<1> HIDE DEF k0, head, x, ran
<1>8. /\ Resting(ran.k) /\ ran.k.buffer = k0.buffer /\ ~ran.blocked
      /\ \/ ran.data = data /\ ran.out = <<>> /\ ran.dbindex = dbindex
         \/ /\ cmd = Push
            /\ ran.data = [data EXCEPT ![k0.dbindex] = @ + 1]
            /\ ran.out = (IF dbindex = k0.dbindex THEN <<>> ELSE <<Select(k0.dbindex)>>) \o <<Push>>
            /\ ran.dbindex = k0.dbindex
  BY <1>3, <1>5, <1>7, PlainRun
<1>9. ran \in Runs
  <2>1. Run(k0, TRUE) \in Runs
    BY <1>5, RunType
  <2>2. <<cmd>> \in Buffers
    BY DEF Buffers
  <2> QED
    BY <1>7, <2>1, <2>2, ExecuteRuns
<1>10. /\ x \in Runs /\ x.data = ran.data /\ x.out = ran.out /\ x.dbindex = ran.dbindex
       /\ Resting(x.k) /\ x.k.buffer = <<>>
  <2>1. x = [ran EXCEPT !.k = [ran.k EXCEPT !.waits = ran.blocked]]
    BY <1>9 DEF x, Runs
  <2>2. ran.k \in Conn /\ ran.blocked \in BOOLEAN
    BY <1>9 DEF Runs
  <2>3. [ran.k EXCEPT !.waits = ran.blocked] \in Conn
    BY <2>2 DEF Conn
  <2>4. /\ [ran.k EXCEPT !.waits = ran.blocked].waits = ran.blocked
        /\ [ran.k EXCEPT !.waits = ran.blocked].multi = ran.k.multi
        /\ [ran.k EXCEPT !.waits = ran.blocked].buffer = ran.k.buffer
    BY <2>2 DEF Conn
  <2>5. /\ x \in Runs /\ x.data = ran.data /\ x.out = ran.out /\ x.dbindex = ran.dbindex
        /\ x.k = [ran.k EXCEPT !.waits = ran.blocked]
    BY <1>9, <2>1, <2>3 DEF Runs
  <2> QED
    BY <1>5, <1>8, <2>4, <2>5 DEF Resting
<1>11. phase' = "running"
  BY <1>1, <1>4, <1>8
<1>12. \A e \in Clients : Resting(client'[e]) /\ AtMostOne(client[e])'
  BY <1>1, <1>4, <1>10, <1>11, OtherConns
<1>13. /\ data' = ran.data /\ dbindex' = ran.dbindex /\ cursor' = cursor + Len(ran.out)
       /\ log' \in Overwritten(ran.out)
  BY <1>1, <1>10 DEF Commit
<1>14. log \in Seq(PlainEntry) /\ Len(log) \in Nat
  BY LenProperties DEF PlainInv
<1>15. CASE ran.data = data /\ ran.out = <<>> /\ ran.dbindex = dbindex
  <2>1. log' = log
    <3>1. SubSeq(log, 1, cursor) = log
      BY <1>4, <1>14, SubSeqFull
    <3>2. log \o <<>> = log
      BY <1>14, ConcatEmptySeq
    <3> QED
      BY <1>4, <1>13, <1>15, <3>1, <3>2 DEF Overwritten
  <2>2. cursor' = cursor
    BY <1>4, <1>13, <1>14, <1>15
  <2> QED
    BY <1>4, <1>11, <1>12, <1>13, <1>15, <2>1, <2>2
<1>16. CASE /\ ran.data = [data EXCEPT ![k0.dbindex] = @ + 1]
            /\ ran.out = (IF dbindex = k0.dbindex THEN <<>> ELSE <<Select(k0.dbindex)>>) \o <<Push>>
            /\ ran.dbindex = k0.dbindex
  <2> DEFINE d == k0.dbindex
  <2>1. d \in Dbs
    BY <1>5 DEF Conn
  <2> HIDE DEF d
  <2>2. log' = Written(log, d)
    BY <1>4, <1>13, <1>14, <1>16, <2>1, WrittenAtEnd DEF d
  <2>3. cursor' = Len(log')
    <3>1. Push \in Entries /\ Select(d) \in Entries
      BY <2>1 DEF Push, Select, Entries, Command
    <3>2. log \in Seq(Entries)
      BY DEF TypeInv, TypeOK, Entries
    <3>3. CASE dbindex = d
      <4>1. Len(log') = Len(log) + 1
        BY <2>2, <3>1, <3>2, <3>3, AppendProperties DEF Written
      <4>2. ran.out = <<>> \o <<Push>>
        BY <1>16, <3>3 DEF d
      <4> QED
        BY <1>4, <1>13, <4>1, <4>2
    <3>4. CASE dbindex # d
      <4> DEFINE l == Append(log, Select(d))
      <4>1. l \in Seq(Entries) /\ Len(l) = Len(log) + 1
        BY <3>1, <3>2, AppendProperties
      <4>2. log' = Append(l, Push)
        BY <2>2, <3>4 DEF Written
      <4> HIDE DEF l
      <4>3. Len(log') = Len(l) + 1
        BY <3>1, <4>1, <4>2, AppendProperties
      <4>4. ran.out = <<Select(d)>> \o <<Push>>
        BY <1>16, <3>4 DEF d
      <4>5. Len(ran.out) = 2
        BY <4>4
      <4> QED
        BY <1>4, <1>13, <1>14, <4>1, <4>3, <4>5
    <3> QED
      BY <3>3, <3>4
  <2> QED
    BY <1>4, <1>11, <1>12, <1>13, <1>16, <2>1, <2>2, <2>3 DEF d
<1> QED
  BY <1>8, <1>15, <1>16

\* Loading an entry is one step along the replay.
LEMMA LoadedEntry ==
    ASSUME TypeInv, ~loader.multi, NEW cmd \in PlainEntry
    PROVE  LET x == Execute(Run(loader, FALSE), cmd, <<>>)
               s == Entry([data |-> data, db |-> loader.dbindex], cmd)
           IN  ~x.k.multi /\ ~x.blocked /\ x.data = s.data /\ x.k.dbindex = s.db
<1> DEFINE x0 == Run(loader, FALSE)
           x == Execute(x0, cmd, <<>>)
           s == Entry([data |-> data, db |-> loader.dbindex], cmd)
<1>1. x0 = [data |-> data, k |-> loader, out |-> <<>>, dbindex |-> dbindex, aof |-> FALSE,
            blocked |-> FALSE]
  BY DEF Run
<1>2. loader.multi = FALSE /\ loader \in Conn /\ cmd \in Command
  BY DEF TypeInv, Conn, PlainEntry
<1>3. x = Apply(x0, cmd, <<>>)
  <2> HIDE DEF x0
  <2>1. x0.k = loader
    BY <1>1
  <2>2. x0.k.multi = FALSE
    BY <1>2, <2>1
  <2> QED
    BY <2>2 DEF Execute, PlainEntry
<1> HIDE DEF x0, x, s
<1> SUFFICES ~x.k.multi /\ ~x.blocked /\ x.data = s.data /\ x.k.dbindex = s.db
  BY DEF x, x0, s
<1>4. CASE cmd.op = "select"
  <2>1. x = [x0 EXCEPT !.k.dbindex = cmd.index]
    BY <1>3, <1>4 DEF Apply, Log, Logged
  <2>2. x = [x0 EXCEPT !.k = [loader EXCEPT !.dbindex = cmd.index]]
    BY <1>1, <2>1
  <2>3. x.k = [loader EXCEPT !.dbindex = cmd.index] /\ x.data = data /\ x.blocked = FALSE
    BY <1>1, <2>2
  <2>4. s.data = data /\ s.db = cmd.index
    BY <1>4 DEF s, Entry
  <2> QED
    BY <1>2, <2>3, <2>4 DEF Conn
<1>5. CASE cmd.op # "select"
  <2> DEFINE d == loader.dbindex
             added == [data EXCEPT ![d] = @ + 1]
             done == [x0 EXCEPT !.data[d] = @ + 1]
  <2>1. cmd.op = "push"
    BY <1>5 DEF PlainEntry
  <2>2. x = Log(done, cmd, <<>>)
    BY <1>1, <1>3, <2>1 DEF Apply
  <2>3. done = [x0 EXCEPT !.data = added]
    BY <1>1
  <2>4. s.data = added /\ s.db = d
    BY <1>5 DEF s, Entry
  <2> HIDE DEF done, added
  <2>5. done.aof = FALSE /\ done.k = loader /\ done.data = added /\ done.blocked = FALSE
    BY <1>1, <2>3
  <2>6. x = done
    BY <2>2, <2>5 DEF Log
  <2> QED
    BY <1>2, <2>4, <2>5, <2>6
<1> QED
  BY <1>4, <1>5

\* Every step of a history of plain commands keeps the replay.
LEMMA PlainStep ==
    ASSUME TypeInv, PlainInv, [Next]_vars, plain'
    PROVE  PlainInv'
<1>1. ASSUME NEW c \in Clients, NEW batch \in Batches, Receive(c, batch)
      PROVE  PlainInv'
  <2>1. /\ phase = "running" /\ Len(batch) = 1 /\ Plain(batch[1])
        /\ client' = [client EXCEPT ![c].buffer = batch]
        /\ UNCHANGED <<phase, data, log, cursor, dbindex, loader, saved>>
    BY <1>1 DEF Receive
  <2>2. batch \in Seq(Command)
    BY AofAssumption DEF Batches
  <2>3. batch[1] \in Command /\ batch = <<batch[1]>>
    <3>1. batch \in [1 .. 1 -> Command]
      BY <2>1, <2>2, LenProperties
    <3>2. batch[1] \in Command
      BY <3>1
    <3>3. batch = <<batch[1]>>
      <4>1. <<batch[1]>> \in [1 .. 1 -> Command] /\ <<batch[1]>>[1] = batch[1]
        BY <3>2
      <4> QED
        BY <3>1, <4>1
    <3> QED
      BY <3>2, <3>3
  <2>4. ASSUME NEW e \in Clients
        PROVE  Resting(client'[e]) /\ AtMostOne(client[e])'
    <3>1. Resting(client[e]) /\ AtMostOne(client[e]) /\ client[e] \in Conn
      BY DEF PlainInv, TypeInv
    <3>2. client \in [Clients -> Conn]
      BY DEF TypeInv
    <3>3. CASE e # c
      <4>1. client'[e] = client[e]
        BY <2>1, <3>2, <3>3
      <4> QED
        BY <2>1, <3>1, <4>1 DEF AtMostOne
    <3>4. CASE e = c
      <4>1. client'[e] = [client[e] EXCEPT !.buffer = batch]
        BY <2>1, <3>2, <3>4
      <4>2. /\ client'[e].multi = client[e].multi /\ client'[e].waits = client[e].waits
            /\ client'[e].buffer = batch
        BY <3>1, <4>1 DEF Conn
      <4>3. phase' = "running"
        BY <2>1
      <4> QED
        BY <2>1, <2>3, <3>1, <4>2, <4>3 DEF Resting, AtMostOne
    <3> QED
      BY <3>3, <3>4
  <2>5. Replayed'
    BY <2>1 DEF PlainInv, Replayed, Replays, States
  <2> QED
    BY <2>1, <2>4, <2>5 DEF PlainInv
<1>2. ASSUME NEW c \in Clients, Request(c)
      PROVE  PlainInv'
  <2>1. /\ phase = "running" /\ phase' = "running" /\ cursor' = Len(log')
        /\ \A e \in Clients : Resting(client'[e]) /\ AtMostOne(client[e])'
    BY <1>2, PlainRequest
  <2>2. loader' = loader
    BY <1>2 DEF Request
  <2>3. PICK tr : /\ Replays(tr, log) /\ tr[cursor].data = data
                  /\ dbindex # NoDb => tr[cursor].db = dbindex
    BY DEF PlainInv, Replayed
  <2>4. cursor = Len(log) /\ log \in Seq(PlainEntry)
    BY <2>1 DEF PlainInv
  <2>5. CASE data' = data /\ log' = log /\ dbindex' = dbindex
    <3>1. Replays(tr, log') /\ tr[Len(log')].data = data'
      BY <2>3, <2>4, <2>5
    <3>2. dbindex' # NoDb => tr[Len(log')].db = dbindex'
      BY <2>3, <2>4, <2>5
    <3>3. Replayed'
      BY <2>1, <3>1, <3>2 DEF Replayed, Replays, States, Dbs, Empty, Entry
    <3> QED
      BY <2>1, <2>2, <2>4, <2>5, <3>3 DEF PlainInv
  <2>6. ASSUME NEW d \in Dbs, data' = [data EXCEPT ![d] = @ + 1], log' = Written(log, d),
               dbindex' = d
        PROVE  PlainInv'
    <3>1. d # NoDb /\ data \in [Dbs -> Nat]
      BY AofAssumption DEF Dbs, NoDb, TypeInv, TypeOK
    <3>2. /\ log' \in Seq(PlainEntry)
          /\ \E t : Replays(t, log') /\ t[Len(log')] = [data |-> data', db |-> d]
      BY <2>3, <2>4, <2>6, <3>1, ReplayWritten
    <3>3. PICK t : Replays(t, log') /\ t[Len(log')] = [data |-> data', db |-> d]
      BY <3>2
    <3>4. t[cursor'].data = data' /\ t[cursor'].db = dbindex'
      BY <2>1, <2>6, <3>3
    <3>5. Replayed'
      BY <2>1, <3>3, <3>4 DEF Replayed, Replays, States, Dbs, Empty, Entry
    <3> QED
      BY <2>1, <2>2, <3>2, <3>5 DEF PlainInv
  <2> QED
    BY <1>2, <2>5, <2>6, PlainRequest
<1>3. ASSUME NEW c \in Clients, Retry(c)
      PROVE  FALSE
  BY <1>3 DEF Retry, PlainInv, Resting
<1>4. ASSUME Crash
      PROVE  PlainInv'
  <2>1. ~NewClient.multi /\ ~NewClient.waits /\ NewClient.buffer = <<>>
    BY DEF NewClient
  <2>2. PICK tr : Replays(tr, log) /\ tr[cursor].data = data
    BY DEF PlainInv, Replayed
  <2>3. /\ phase = "running" /\ phase' = "starting" /\ data' = Empty /\ cursor' = 0
        /\ dbindex' = NoDb /\ client' = [e \in Clients |-> NewClient] /\ saved' = data
        /\ log' = log /\ loader' = loader
    BY <1>4 DEF Crash
  <2>4. tr[0].data = Empty /\ tr[Len(log)].data = data
    BY <2>2, <2>3 DEF Replays, PlainInv
  <2>5. Replayed'
    BY <2>2, <2>3, <2>4 DEF Replayed, Replays, States, Dbs, Empty, Entry
  <2>6. \A e \in Clients : Resting(client'[e]) /\ AtMostOne(client[e])'
    BY <2>1, <2>3 DEF Resting, AtMostOne
  <2> QED
    BY <2>3, <2>5, <2>6 DEF PlainInv, Empty
<1>5. ASSUME BeginLoad
      PROVE  PlainInv'
  <2>1. /\ phase = "starting" /\ phase' = "loading" /\ loader' = NewClient
        /\ UNCHANGED <<data, log, cursor, dbindex, client, saved>>
    BY <1>5 DEF BeginLoad
  <2>2. cursor = 0 /\ data = Empty /\ dbindex = NoDb
    BY <2>1 DEF PlainInv
  <2>3. ~NewClient.multi /\ NewClient.dbindex = 0
    BY DEF NewClient
  <2>4. PICK tr : Replays(tr, log) /\ tr[cursor].data = data /\ tr[Len(log)].data = saved
    BY <2>1 DEF PlainInv, Replayed
  <2>5. tr[0].db = 0
    BY <2>4 DEF Replays
  <2>6. Replayed'
    BY <2>1, <2>2, <2>3, <2>4, <2>5 DEF Replayed, Replays, States, Dbs, Empty, Entry
  <2>7. \A e \in Clients : Resting(client[e]) /\ AtMostOne(client[e])
    BY DEF PlainInv
  <2>8. \A e \in Clients : Resting(client'[e]) /\ AtMostOne(client[e])'
    BY <2>1, <2>7 DEF AtMostOne
  <2> QED
    BY <2>1, <2>2, <2>3, <2>6, <2>8 DEF PlainInv
<1>6. ASSUME LoadEntry
      PROVE  PlainInv'
  <2> DEFINE cmd == log[cursor + 1]
             x == Execute(Run(loader, FALSE), cmd, <<>>)
  <2>1. /\ phase = "loading" /\ cursor < Len(log) /\ cursor' = cursor + 1
        /\ data' = x.data /\ loader' = x.k
        /\ phase' = IF x.blocked THEN "dead" ELSE "loading"
        /\ UNCHANGED <<log, dbindex, client, saved>>
    BY <1>6 DEF LoadEntry
  <2>2. cursor \in Nat /\ Len(log) \in Nat /\ log \in Seq(PlainEntry) /\ ~loader.multi
    BY LenProperties DEF TypeInv, TypeOK, PlainInv
  <2>3. cmd \in PlainEntry
    BY <2>1, <2>2
  <2> HIDE DEF cmd
  <2>4. PICK tr : /\ Replays(tr, log) /\ tr[cursor].data = data
                  /\ tr[cursor].db = loader.dbindex /\ tr[Len(log)].data = saved
    BY <2>1 DEF PlainInv, Replayed
  <2> DEFINE s == Entry([data |-> data, db |-> loader.dbindex], cmd)
  <2>5. /\ ~x.k.multi /\ ~x.blocked /\ x.data = s.data /\ x.k.dbindex = s.db
    BY <2>2, <2>3, LoadedEntry
  <2>6. tr[cursor + 1] = s
    <3>1. tr[cursor] \in States
      BY <2>1, <2>2, <2>4 DEF Replays
    <3>2. tr[cursor] = [data |-> data, db |-> loader.dbindex]
      BY <2>4, <3>1 DEF States
    <3>3. cursor + 1 \in 1 .. Len(log) /\ (cursor + 1) - 1 = cursor
      BY <2>1, <2>2
    <3>4. tr[cursor + 1] = Entry(tr[(cursor + 1) - 1], log[cursor + 1])
      BY <2>4, <3>3 DEF Replays
    <3> QED
      BY <3>2, <3>3, <3>4 DEF cmd
  <2> HIDE DEF x, s
  <2>7. tr[cursor'].data = data' /\ tr[cursor'].db = loader'.dbindex /\ phase' = "loading"
    BY <2>1, <2>5, <2>6
  <2>8. dbindex' = NoDb
    BY <2>1 DEF PlainInv
  <2>9. Replayed'
    BY <2>1, <2>4, <2>7, <2>8 DEF Replayed, Replays, States, Dbs, Empty, Entry, NoDb
  <2>10. \A e \in Clients : Resting(client[e]) /\ AtMostOne(client[e])
    BY DEF PlainInv
  <2>11. \A e \in Clients : Resting(client'[e]) /\ AtMostOne(client[e])'
    BY <2>1, <2>7, <2>10 DEF AtMostOne
  <2> QED
    BY <2>1, <2>2, <2>5, <2>7, <2>8, <2>9, <2>11 DEF PlainInv
<1>7. ASSUME LoadJunk
      PROVE  FALSE
  <2>1. log[cursor + 1] = Junk /\ cursor < Len(log) /\ cursor \in Nat /\ log \in Seq(PlainEntry)
    BY <1>7 DEF LoadJunk, PlainInv, TypeInv, TypeOK
  <2>2. log[cursor + 1] \in PlainEntry
    BY <2>1
  <2> QED
    BY <2>1, <2>2 DEF Junk, PlainEntry
<1>8. ASSUME LoadEnd
      PROVE  PlainInv'
  <2>1. /\ phase = "loading" /\ cursor = Len(log) /\ phase' = "running"
        /\ UNCHANGED <<data, log, cursor, dbindex, client, loader, saved>>
    BY <1>8 DEF LoadEnd, PlainInv
  <2>2. dbindex = NoDb
    BY <2>1 DEF PlainInv
  <2>3. PICK tr : Replays(tr, log) /\ tr[cursor].data = data
    BY DEF PlainInv, Replayed
  <2>4. Replayed'
    BY <2>1, <2>2, <2>3 DEF Replayed, Replays, States, Dbs, Empty, Entry, NoDb
  <2>5. \A e \in Clients : Resting(client[e]) /\ AtMostOne(client[e])
    BY DEF PlainInv
  <2>6. \A e \in Clients : Resting(client'[e]) /\ AtMostOne(client[e])'
    BY <2>1, <2>5 DEF AtMostOne
  <2> QED
    BY <2>1, <2>4, <2>6 DEF PlainInv
<1>9. ASSUME UNCHANGED vars
      PROVE  PlainInv'
  BY <1>9 DEF vars, PlainInv, Replayed, Replays, AtMostOne, Dbs, States, Empty, Entry
<1> QED
  BY <1>1, <1>2, <1>3, <1>4, <1>5, <1>6, <1>7, <1>8, <1>9 DEF Next

\* A history of plain commands was one before its last step.
LEMMA PlainBefore ==
    ASSUME TypeInv, [Next]_vars, plain'
    PROVE  plain
<1> plain \in BOOLEAN
  BY DEF TypeInv, TypeOK
<1> QED
  BY DEF Next, vars, Receive, Request, Retry, Crash, BeginLoad, LoadEntry, LoadJunk, LoadEnd

\* In a history of plain commands the replay of the file is the keyspace.
LEMMA PlainKept == Spec => [](TypeInv /\ (plain => PlainInv))
<1>1. TypeInv /\ (plain => PlainInv) /\ [Next]_vars => (plain => PlainInv)'
  BY PlainBefore, PlainStep
<1> QED
  BY <1>1, TypesKept, PlainInit, PTL DEF Spec

\* As long as clients send plain commands one at a time, and none before the load, loading
\* the file rebuilds in every database what was lost with the process.
THEOREM Restored == Spec => LoadRestores
<1>1. ASSUME TypeInv, plain => PlainInv, [Next]_vars
      PROVE  [plain /\ phase = "loading" /\ phase' = "running" => data' = saved]_vars
  <2> SUFFICES ASSUME plain, phase = "loading", phase' = "running"
               PROVE  data' = saved
    OBVIOUS
  <2>1. PlainInv
    BY <1>1
  <2>2. ASSUME LoadEnd
        PROVE  data' = saved
    <3>1. PICK tr : tr[cursor].data = data /\ tr[Len(log)].data = saved
      BY <2>1 DEF PlainInv, Replayed
    <3> QED
      BY <2>2, <3>1 DEF LoadEnd
  <2>3. ASSUME LoadJunk
        PROVE  FALSE
    <3>1. log[cursor + 1] = Junk /\ cursor < Len(log) /\ cursor \in Nat /\ log \in Seq(PlainEntry)
      BY <1>1, <2>1, <2>3 DEF LoadJunk, PlainInv, TypeInv, TypeOK
    <3>2. log[cursor + 1] \in PlainEntry
      BY <3>1
    <3> QED
      BY <3>1, <3>2 DEF Junk, PlainEntry
  <2>4. ASSUME NEW c \in Clients, Request(c)
        PROVE  FALSE
    BY <1>1, <2>1, <2>4, PlainRequest
  <2>5. ASSUME NEW c \in Clients, Retry(c)
        PROVE  FALSE
    BY <2>5 DEF Retry, Serving
  <2>6. ASSUME NEW c \in Clients, NEW batch \in Batches, Receive(c, batch)
        PROVE  FALSE
    BY <2>6 DEF Receive, Serving
  <2>7. ~ (Crash \/ BeginLoad \/ LoadEntry \/ UNCHANGED vars)
    BY DEF Crash, BeginLoad, LoadEntry, vars
  <2> QED
    BY <1>1, <2>2, <2>3, <2>4, <2>5, <2>6, <2>7 DEF Next
<1> QED
  BY <1>1, PlainKept, PTL DEF Spec, LoadRestores

\* What was logged in such a history stays as it was and where it was: each write is behind
\* it, those after a load too.
THEOREM OnlyGrows == Spec => LogAppendOnly
<1>1. ASSUME TypeInv, plain => PlainInv, [Next]_vars
      PROVE  [plain' => IsPrefix(log, log')]_vars
  <2> SUFFICES ASSUME plain'
               PROVE  IsPrefix(log, log')
    OBVIOUS
  <2>1. plain /\ PlainInv
    BY <1>1, PlainBefore
  <2>2. log \in Seq(PlainEntry) /\ Len(log) \in Nat
    BY <2>1, LenProperties DEF PlainInv
  <2>3. IsPrefix(log, log)
    BY <2>2 DEF IsPrefix
  <2>4. ASSUME NEW l \in Seq(PlainEntry), NEW cmd \in PlainEntry, IsPrefix(log, l)
        PROVE  IsPrefix(log, Append(l, cmd))
    <3>1. /\ Len(log) <= Len(l) /\ SubSeq(log, 1, Len(log)) = SubSeq(l, 1, Len(log))
          /\ Len(l) \in Nat /\ Len(Append(l, cmd)) = Len(l) + 1
      BY <2>4, LenProperties, AppendProperties DEF IsPrefix
    <3>2. SubSeq(Append(l, cmd), 1, Len(log)) = SubSeq(l, 1, Len(log))
      BY <2>2, <3>1
    <3> QED
      BY <2>2, <3>1, <3>2 DEF IsPrefix
  <2>5. ASSUME NEW d \in Dbs
        PROVE  IsPrefix(log, Written(log, d))
    <3>1. Select(d) \in PlainEntry /\ Push \in PlainEntry
      BY DEF Select, Push, PlainEntry, Command
    <3>2. Append(log, Select(d)) \in Seq(PlainEntry)
      BY <2>2, <3>1
    <3> QED
      BY <2>2, <2>3, <2>4, <3>1, <3>2 DEF Written
  <2>6. ASSUME NEW c \in Clients, Request(c)
        PROVE  IsPrefix(log, log')
    BY <1>1, <2>1, <2>3, <2>5, <2>6, PlainRequest
  <2>7. ASSUME NEW c \in Clients, Retry(c)
        PROVE  FALSE
    BY <2>1, <2>7 DEF Retry, PlainInv, Resting
  <2>8. (\E c \in Clients : (\E batch \in Batches : Receive(c, batch)) \/ Request(c) \/ Retry(c))
          \/ log' = log
    BY <1>1 DEF Next, Crash, BeginLoad, LoadEntry, LoadJunk, LoadEnd, vars
  <2>9. ASSUME NEW c \in Clients, NEW batch \in Batches, Receive(c, batch)
        PROVE  log' = log
    BY <2>9 DEF Receive
  <2> QED
    BY <2>3, <2>6, <2>7, <2>8, <2>9
<1> QED
  BY <1>1, PlainKept, PTL DEF Spec, LogAppendOnly
=============================================================================
