---------------------------- MODULE ServerProofs ----------------------------
(***************************************************************************)
(* Proofs about the threads of Server, for every number of clients, keys   *)
(* and databases and every set of commands: the types, that nobody changes *)
(* a key in the middle of an EXEC or after a panic, and that no wait loses *)
(* its timeout or its wake-up.                                             *)
(*                                                                         *)
(* TypeOK alone is not inductive: the retry of a pop reads the command of  *)
(* its wait, and a step of EXEC the head of the queue it runs.  TypeInv    *)
(* adds that a waiting client has a wait and a locked EXEC a command left. *)
(*                                                                         *)
(* ExecIsolated and PoisonStops follow from who can write: a thread that   *)
(* has just locked the mutex, or the EXEC that holds it.  After a panic    *)
(* neither is left, since the client that held the mutex gave it up when   *)
(* it panicked.                                                            *)
(*                                                                         *)
(* TimeoutNotLost speaks of blocked clients.  Between two waits a timeout  *)
(* is a message on the command channel, then an argument of the command to *)
(* repeat; 0 stands for no timeout in both.  Timely follows it there.      *)
(*                                                                         *)
(* NoLostWakeup: a slot with a subscribed client never holds anything to   *)
(* pop (Settled), and no step takes a client out of a slot's subscribers   *)
(* without sending it a wake-up (Notifies).  A handler may break Settled   *)
(* at the slot it writes, until it calls key_updated for it (SettledBut).  *)
(***************************************************************************)
EXTENDS Server, CommandsProofs

TypeInv ==
    /\ TypeOK
    /\ \A c \in Clients : pc[c] \in {"blocked", "retry"} => wait[c] \in Wait
    /\ lock # NoClient => running # <<>>

-----------------------------------------------------------------------------
(* What the steps share *)

\* A database number that no handler rejects.
LEMMA GoodIndex ==
    ASSUME TypeOK, NEW c \in Clients, NEW cmd \in Command, ~BadIndex(c, cmd),
           cmd.op # "select"
    PROVE  /\ Handler(db, dbindex[c], cmd).db \in DB
           /\ cmd.op \in Blocking => dbindex[c] \in Dbs
<1>1. CASE dbindex[c] \in Dbs
  BY <1>1, HandlerType DEF TypeOK
<1>2. CASE dbindex[c] \notin Dbs
  <2>1. cmd.op = "flushall"
    BY <1>2 DEF BadIndex
  <2>2. Clear(db, Slots) \in DB
    BY ClearType DEF TypeOK
  <2> QED
    BY <2>1, <2>2 DEF Handler, Result, Blocking, CollectionOps
<1> QED
  BY <1>1, <1>2

\* A handler that replies leaves the database and the selection well typed.
LEMMA CompleteType ==
    ASSUME TypeOK, NEW c \in Clients, NEW cmd \in Command, Complete(c, cmd)
    PROVE  db' \in DB /\ dbindex' \in [Clients -> 0 .. NumDbs]
<1>1. CASE cmd.op = "select"
  <2>1. cmd.index \in Nat
    BY <1>1, KeyOp DEF KeyCommand
  <2>2. Select(c, cmd.index) /\ db' = db
    BY <1>1 DEF Complete
  <2>3. cmd.index > NumDbs \/ cmd.index \in 0 .. NumDbs
    BY <2>1, DatabaseAssumption
  <2> QED
    BY <2>2, <2>3 DEF Select, TypeOK
<1>2. CASE cmd.op # "select"
  BY <1>2, GoodIndex DEF Complete, Panics, TypeOK
<1> QED
  BY <1>1, <1>2

\* The history of modified slots keeps its type.
LEMMA RememberType ==
    ASSUME TypeOK, Remember
    PROVE  dirty' \in [Clients -> SUBSET Slots]
<1>1. Modified(db, db') \subseteq Slots
  BY DEF Modified
<1>2. \A c \in Clients : (dirty[c] \cup Modified(db, db')) \cap watched_keys'[c] \subseteq Slots
  BY <1>1, Zenon DEF TypeOK
<1> QED
  BY <1>2, Zenon DEF Remember

\* A blocking command's timer is set to a time, if at all.
LEMMA TimerType ==
    ASSUME TypeOK, NEW cmd \in Command, cmd.op \in Blocking
    PROVE  /\ cmd.timeout \in Nat
           /\ TimerOf(cmd) \in Nat \cup {NoExp}
<1>1. cmd.timeout \in Nat
  BY KeyOp DEF KeyCommand, Blocking
<1>2. db.now \in Nat
  BY DEF TypeOK, DB
<1> QED
  BY <1>1, <1>2, MsPerSecAssumption DEF TimerOf

\* Waiting subscribes the client and gives it a wait.
LEMMA BlockType ==
    ASSUME TypeInv, NEW c \in Clients, NEW cmd \in Command, Block(c, cmd)
    PROVE  /\ db' \in DB
           /\ wait' \in [Clients -> Wait \cup {NoWait}]
           /\ wait'[c] \in Wait
           /\ pc' \in [Clients -> {"ready", "blocked", "retry", "gone"}]
           /\ \A e \in Clients : e # c => pc'[e] = pc[e] /\ wait'[e] = wait[e]
           /\ dirty' \in [Clients -> SUBSET Slots]
<1>1. cmd.op \in Blocking /\ ~BadIndex(c, cmd) /\ cmd.op # "select"
  BY DEF Block, MustWait, Blocking
<1>2. Handler(db, dbindex[c], cmd).db \in DB /\ dbindex[c] \in Dbs
  BY <1>1, GoodIndex DEF TypeInv
<1>3. WaitSlots(dbindex[c], cmd) \in SUBSET Slots
  BY <1>1, <1>2, KeyOp DEF WaitSlots, Slots, KeyCommand, Blocking
<1>4. db' \in DB
  BY <1>2, <1>3, RegistrationType DEF Block
<1>5. [cmd |-> cmd, since |-> db.now, deadline |-> TimerOf(cmd),
       waker |-> "listening", chan |-> <<>>] \in Wait
  BY <1>1, TimerType DEF Wait, TypeInv, TypeOK, DB
<1>6. /\ wait' \in [Clients -> Wait \cup {NoWait}]
      /\ wait'[c] \in Wait
      /\ \A e \in Clients : e # c => wait'[e] = wait[e]
  BY <1>5 DEF Block, TypeInv, TypeOK
<1>7. /\ pc' \in [Clients -> {"ready", "blocked", "retry", "gone"}]
      /\ \A e \in Clients : e # c => pc'[e] = pc[e]
  BY DEF Block, TypeInv, TypeOK
<1>8. dirty' \in [Clients -> SUBSET Slots]
  BY RememberType DEF Block, TypeInv
<1> QED
  BY <1>4, <1>6, <1>7, <1>8

\* A panic keeps every variable's type.
LEMMA PanicType ==
    ASSUME TypeInv, NEW c \in Clients, Panic(c)
    PROVE  TypeInv'
<1>1. TypeOK'
  BY DEF Panic, TypeInv, TypeOK, clientVars
<1>2. \A e \in Clients : pc'[e] \in {"blocked", "retry"} => wait'[e] \in Wait
  BY DEF Panic, TypeInv, TypeOK
<1> QED
  BY <1>1, <1>2 DEF Panic, TypeInv

\* The end of a MULTI keeps every variable's type.
LEMMA LeaveMultiType ==
    ASSUME TypeInv, NEW c \in Clients, LeaveMulti(c)
    PROVE  /\ multi' \in [Clients -> BOOLEAN]
           /\ multi_commands' \in [Clients -> Seq(Cmds)]
           /\ watched_keys' \in [Clients -> SUBSET Slots]
           /\ dirty' \in [Clients -> SUBSET Slots]
BY DEF LeaveMulti, TypeInv, TypeOK

\* The timeout of a resumed wait is a positive number, or 0 for ever.
LEMMA NewTimeoutType ==
    ASSUME TypeOK, NEW w \in Wait
    PROVE  NewTimeout(w) \in Nat
<1>1. w.cmd.timeout \in Nat /\ w.since \in Nat
  BY KeyOp DEF Wait, KeyCommand, Blocking
<1>2. db.now \in Nat /\ MsPerSec \in Nat
  BY MsPerSecAssumption DEF TypeOK, DB
<1>3. w.cmd.timeout * MsPerSec - db.now + w.since \in Int
  BY <1>1, <1>2
<1> QED
  BY <1>3 DEF NewTimeout

\* A message on the command channel, from the waker or the timer.
LEMMA MessageType ==
    ASSUME NEW w \in Wait, NEW m \in Nat \cup {TimedOut}
    PROVE  /\ [w EXCEPT !.waker = "done", !.chan = Append(@, m)] \in Wait
           /\ [w EXCEPT !.deadline = NoExp, !.chan = Append(@, m)] \in Wait
<1> DEFINE cmds == {c \in Command : c.op \in Blocking}
           msgs == Nat \cup {TimedOut}
<1>1. w \in [cmd : cmds, since : Nat, deadline : Nat \cup {NoExp},
             waker : {"listening", "done"}, chan : Seq(msgs)]
  BY DEF Wait
<1>2. Append(w.chan, m) \in Seq(msgs)
  <2> HIDE DEF cmds
  <2>1. w.chan \in Seq(msgs) /\ m \in msgs
    BY <1>1
  <2> HIDE DEF msgs
  <2> QED
    BY <2>1
<1>3. Wait = [cmd : cmds, since : Nat, deadline : Nat \cup {NoExp},
              waker : {"listening", "done"}, chan : Seq(msgs)]
  BY DEF Wait
<1> HIDE DEF cmds, msgs
<1> QED
  BY <1>1, <1>2, <1>3

\* The clients' registrations go away with the receiver of their channel.
LEMMA ForgetType ==
    ASSUME TypeOK, NEW c \in Clients
    PROVE  Forget(c) \in DB
BY DEF Forget, TypeOK, DB

-----------------------------------------------------------------------------
(* The type invariant *)

\* The invariant holds at the start.
LEMMA InitType == Init => TypeInv
<1> SUFFICES ASSUME Init
             PROVE  TypeInv
  OBVIOUS
<1>1. NewDatabase \in DB
  BY DEF NewDatabase, DB
<1>2. 0 \in 0 .. NumDbs
  BY DatabaseAssumption
<1>3. db \in DB /\ dbindex \in [Clients -> 0 .. NumDbs]
  BY <1>1, <1>2 DEF Init
<1>4. multi_commands \in [Clients -> Seq(Cmds)] /\ running \in Seq(Cmds)
  BY DEF Init
<1>5. wait \in [Clients -> Wait \cup {NoWait}]
  BY DEF Init
<1>6. \A c \in Clients : pc[c] \notin {"blocked", "retry"}
  BY DEF Init
<1> QED
  BY <1>3, <1>4, <1>5, <1>6 DEF Init, TypeInv, TypeOK

\* Every step of every thread preserves the invariant.
LEMMA TypeStep == TypeInv /\ [Next]_vars => TypeInv'
<1> SUFFICES ASSUME TypeInv, [Next]_vars
             PROVE  TypeInv'
  OBVIOUS
<1> USE ServerAssumption
<1>1. ASSUME NEW c \in Clients, NEW cmd \in Cmds, Request(c, cmd)
      PROVE  TypeInv'
  <2>1. db' \in DB /\ dbindex' \in [Clients -> 0 .. NumDbs]
    BY <1>1, CompleteType DEF Request, TypeInv
  <2>2. dirty' \in [Clients -> SUBSET Slots]
    BY <1>1, RememberType DEF Request, TypeInv
  <2> QED
    BY <1>1, <2>1, <2>2 DEF Request, TypeInv, TypeOK, execVars
<1>2. ASSUME NEW c \in Clients, NEW cmd \in Cmds, RequestBlock(c, cmd)
      PROVE  TypeInv'
  <2>1. Block(c, cmd) /\ cmd \in Command
    BY <1>2 DEF RequestBlock
  <2>2. /\ db' \in DB
        /\ wait' \in [Clients -> Wait \cup {NoWait}]
        /\ wait'[c] \in Wait
        /\ pc' \in [Clients -> {"ready", "blocked", "retry", "gone"}]
        /\ \A e \in Clients : e # c => pc'[e] = pc[e] /\ wait'[e] = wait[e]
        /\ dirty' \in [Clients -> SUBSET Slots]
    BY <2>1, BlockType
  <2>3. TimerOf(cmd) \in Nat \cup {NoExp}
    BY <2>1, TimerType DEF Block, MustWait, TypeInv
  <2>4. due' \in [Clients -> Nat \cup {NoExp}]
    BY <1>2, <2>3 DEF RequestBlock, TypeInv, TypeOK
  <2>5. UNCHANGED <<clientVars, execVars>>
    BY <2>1 DEF Block
  <2> QED
    BY <2>2, <2>4, <2>5 DEF TypeInv, TypeOK, clientVars, execVars
<1>3. ASSUME NEW c \in Clients, NEW cmd \in Cmds, RequestPanic(c, cmd)
      PROVE  TypeInv'
  BY <1>3, PanicType DEF RequestPanic
<1>4. ASSUME NEW c \in Clients, NEW cmd \in Cmds, Queue(c, cmd)
      PROVE  TypeInv'
  <2>1. multi_commands' \in [Clients -> Seq(Cmds)]
    BY <1>4 DEF Queue, TypeInv, TypeOK
  <2> QED
    BY <1>4, <2>1 DEF Queue, TypeInv, TypeOK, execVars
<1>5. ASSUME NEW c \in Clients, NEW ks \in WatchSets, Watch(c, ks)
      PROVE  TypeInv'
  <2> DEFINE S == {<<dbindex[c], k>> : k \in ks}
  <2>1. S \in SUBSET Slots
    BY <1>5 DEF Watch, Slots
  <2>2. db' \in DB
    BY <1>5, <2>1, RegistrationType DEF Watch, TypeInv, TypeOK
  <2> HIDE DEF S
  <2>3. /\ watched_keys' \in [Clients -> SUBSET Slots]
        /\ dirty' \in [Clients -> SUBSET Slots]
    BY <1>5, <2>1 DEF Watch, TypeInv, TypeOK, S
  <2> QED
    BY <1>5, <2>2, <2>3 DEF Watch, TypeInv, TypeOK, execVars
<1>6. ASSUME NEW c \in Clients, Unwatch(c)
      PROVE  TypeInv'
  BY <1>6 DEF Unwatch, TypeInv, TypeOK, execVars
<1>7. ASSUME NEW c \in Clients, Multi(c)
      PROVE  TypeInv'
  BY <1>7 DEF Multi, TypeInv, TypeOK, execVars
<1>8. ASSUME NEW c \in Clients, Discard(c) \/ ExecNothing(c)
      PROVE  TypeInv'
  <2>1. LeaveMulti(c) /\ UNCHANGED <<lock, running>>
    BY <1>8 DEF Discard, ExecNothing
  <2> QED
    BY <2>1, LeaveMultiType DEF LeaveMulti, TypeInv, TypeOK
<1>9. ASSUME NEW c \in Clients, Exec(c)
      PROVE  TypeInv'
  <2>1. LeaveMulti(c) /\ lock' = c /\ running' = multi_commands[c] /\ multi_commands[c] # <<>>
    BY <1>9 DEF Exec
  <2> QED
    BY <2>1, LeaveMultiType DEF LeaveMulti, TypeInv, TypeOK
<1>10. ASSUME NEW c \in Clients, ExecStep(c)
       PROVE  TypeInv'
  <2>1. running # <<>>
    BY <1>10 DEF ExecStep, TypeInv
  <2>2. Head(running) \in Command /\ Tail(running) \in Seq(Cmds)
    BY <2>1 DEF TypeInv, TypeOK
  <2>3. db' \in DB /\ dbindex' \in [Clients -> 0 .. NumDbs]
    BY <1>10, <2>2, CompleteType DEF ExecStep, TypeInv
  <2>4. dirty' \in [Clients -> SUBSET Slots]
    BY <1>10, RememberType DEF ExecStep, TypeInv
  <2> QED
    BY <1>10, <2>2, <2>3, <2>4 DEF ExecStep, TypeInv, TypeOK
<1>11. ASSUME NEW c \in Clients, ExecPanic(c)
       PROVE  TypeInv'
  BY <1>11, PanicType DEF ExecPanic
<1>12. ASSUME NEW c \in Clients, Waker(c)
       PROVE  TypeInv'
  <2>1. wait[c] \in Wait
    BY <1>12 DEF Waker, TypeInv, TypeOK, NoWait
  <2>2. NewTimeout(wait[c]) \in Nat \cup {TimedOut}
    BY <2>1, NewTimeoutType DEF TypeInv
  <2>3. [wait[c] EXCEPT !.waker = "done", !.chan = Append(@, NewTimeout(wait[c]))] \in Wait
    BY <2>1, <2>2, MessageType
  <2>4. wait' \in [Clients -> Wait \cup {NoWait}] /\ wait'[c] \in Wait
        /\ \A e \in Clients : e # c => wait'[e] = wait[e]
    BY <1>12, <2>3 DEF Waker, TypeInv, TypeOK
  <2>5. db' \in DB
    BY <1>12 DEF Waker, TypeInv, TypeOK, DB
  <2> QED
    BY <1>12, <2>4, <2>5 DEF Waker, TypeInv, TypeOK, clientVars, execVars
<1>13. ASSUME NEW c \in Clients, Timer(c)
       PROVE  TypeInv'
  <2>1. wait[c] \in Wait
    BY <1>13 DEF Timer, TypeInv, TypeOK, NoWait
  <2>2. [wait[c] EXCEPT !.deadline = NoExp, !.chan = Append(@, TimedOut)] \in Wait
    BY <2>1, MessageType
  <2>3. wait' \in [Clients -> Wait \cup {NoWait}] /\ wait'[c] \in Wait
        /\ \A e \in Clients : e # c => wait'[e] = wait[e]
    BY <1>13, <2>2 DEF Timer, TypeInv, TypeOK
  <2> QED
    BY <1>13, <2>3 DEF Timer, TypeInv, TypeOK, clientVars, execVars
<1>14. ASSUME NEW c \in Clients, RecvTimeout(c)
       PROVE  TypeInv'
  <2>1. db' \in DB
    BY <1>14, ForgetType DEF RecvTimeout, TypeInv
  <2> QED
    BY <1>14, <2>1 DEF RecvTimeout, TypeInv, TypeOK, clientVars, execVars
<1>15. ASSUME NEW c \in Clients, RecvCommand(c)
       PROVE  TypeInv'
  <2>1. db' \in DB
    BY <1>15, ForgetType DEF RecvCommand, TypeInv
  <2>2. wait[c] \in Wait /\ Head(wait[c].chan) \in Nat
    BY <1>15 DEF RecvCommand, TypeInv, Wait
  <2>3. [wait[c].cmd EXCEPT !.timeout = Head(wait[c].chan)] \in {e \in Command : e.op \in Blocking}
    BY <2>2, KeyOp DEF Wait, Command, KeyCommand, Blocking
  <2>4. wait'[c] \in Wait
    BY <1>15, <2>2, <2>3 DEF RecvCommand, TypeInv, TypeOK, Wait
  <2>5. wait' \in [Clients -> Wait \cup {NoWait}]
        /\ \A e \in Clients : e # c => wait'[e] = wait[e]
    BY <1>15, <2>4 DEF RecvCommand, TypeInv, TypeOK
  <2> QED
    BY <1>15, <2>1, <2>4, <2>5 DEF RecvCommand, TypeInv, TypeOK, clientVars, execVars
<1>16. ASSUME NEW c \in Clients, Retry(c)
       PROVE  TypeInv'
  <2>1. wait[c].cmd \in Command
    BY <1>16 DEF Retry, TypeInv, Wait
  <2>2. db' \in DB /\ dbindex' \in [Clients -> 0 .. NumDbs]
    BY <1>16, <2>1, CompleteType DEF Retry, TypeInv
  <2>3. dirty' \in [Clients -> SUBSET Slots]
    BY <1>16, RememberType DEF Retry, TypeInv
  <2> QED
    BY <1>16, <2>2, <2>3 DEF Retry, TypeInv, TypeOK, execVars
<1>17. ASSUME NEW c \in Clients, RetryBlock(c)
       PROVE  TypeInv'
  <2>1. Block(c, wait[c].cmd) /\ wait[c].cmd \in Command
    BY <1>17 DEF RetryBlock, TypeInv, Wait
  <2>2. /\ db' \in DB
        /\ wait' \in [Clients -> Wait \cup {NoWait}]
        /\ wait'[c] \in Wait
        /\ pc' \in [Clients -> {"ready", "blocked", "retry", "gone"}]
        /\ \A e \in Clients : e # c => pc'[e] = pc[e] /\ wait'[e] = wait[e]
        /\ dirty' \in [Clients -> SUBSET Slots]
    BY <2>1, BlockType
  <2>3. UNCHANGED <<clientVars, execVars, due>>
    BY <1>17, <2>1 DEF Block, RetryBlock
  <2> QED
    BY <2>2, <2>3 DEF TypeInv, TypeOK, clientVars, execVars
<1>18. ASSUME NEW c \in Clients, Leave(c)
       PROVE  TypeInv'
  BY <1>18 DEF Leave, TypeInv, TypeOK, execVars
<1>19. ASSUME Hz
       PROVE  TypeInv'
  <2>1. PICK S \in SUBSET Expired(db, Slots) : db' = RemoveAll(db, S)
    BY <1>19 DEF Hz
  <2>2. S \in SUBSET Slots
    BY DEF Expired
  <2>3. db' \in DB
    BY <2>1, <2>2, RemoveAllType DEF TypeInv, TypeOK
  <2>4. dirty' \in [Clients -> SUBSET Slots]
    BY <1>19, RememberType DEF Hz, TypeInv
  <2> QED
    BY <1>19, <2>3, <2>4 DEF Hz, TypeInv, TypeOK, clientVars, execVars
<1>20. ASSUME Tick
       PROVE  TypeInv'
  <2>1. db \in DB /\ db.now + 1 \in Nat
    BY DEF TypeInv, TypeOK, DB
  <2>2. db' \in DB
    BY <1>20, <2>1 DEF Tick, DB
  <2> QED
    BY <1>20, <2>2 DEF Tick, TypeInv, TypeOK, clientVars, execVars
<1>21. ASSUME UNCHANGED vars
       PROVE  TypeInv'
  BY <1>21 DEF TypeInv, TypeOK, vars, clientVars, execVars
<1> QED
  BY <1>1, <1>2, <1>3, <1>4, <1>5, <1>6, <1>7, <1>8, <1>9, <1>10, <1>11, <1>12, <1>13,
     <1>14, <1>15, <1>16, <1>17, <1>18, <1>19, <1>20, <1>21 DEF Next

\* Every reachable state has the types the structs of the code declare: whatever
\* the commands, a handler, an EXEC and a resumed pop find what they expect.
THEOREM TypeCorrect == Spec => []TypeOK
<1>1. TypeInv => TypeOK
  BY DEF TypeInv
<1> QED
  BY InitType, TypeStep, <1>1, PTL DEF Spec

-----------------------------------------------------------------------------
(* The mutex *)

KeysChange == <<db'.data, db'.exp>> # <<db.data, db.exp>>

\* A poisoned mutex is held by nobody
PoisonInv == poisoned => lock = NoClient

\* Wakers, timers, receivers and closing clients need no mutex, and change neither
\* keys nor expirations; nor does an EXEC that panics.
LEMMA ChannelSteps ==
    ASSUME TypeOK, NEW c \in Clients,
           \/ Waker(c) \/ Timer(c) \/ RecvTimeout(c) \/ RecvCommand(c) \/ Leave(c)
           \/ ExecPanic(c)
    PROVE  ~KeysChange
<1>1. CASE Waker(c)
  BY <1>1 DEF Waker, KeysChange, TypeOK, DB
<1>2. CASE Timer(c)
  BY <1>2 DEF Timer, KeysChange
<1>3. CASE RecvTimeout(c) \/ RecvCommand(c)
  <2>1. db' = Forget(c)
    BY <1>3 DEF RecvTimeout, RecvCommand
  <2> QED
    BY <2>1 DEF Forget, KeysChange, TypeOK, DB
<1>4. CASE Leave(c)
  BY <1>4 DEF Leave, KeysChange
<1>5. CASE ExecPanic(c)
  BY <1>5 DEF ExecPanic, Panic, KeysChange
<1> QED
  BY <1>1, <1>2, <1>3, <1>4, <1>5

\* Whoever changes a key has locked the mutex, or runs the EXEC that holds it.
LEMMA Writers ==
    ASSUME TypeOK, [Next]_vars, KeysChange
    PROVE  Lockable \/ \E c \in Clients : ExecStep(c)
<1>1. ASSUME UNCHANGED vars
      PROVE  FALSE
  BY <1>1 DEF vars, KeysChange
<1>2. ASSUME Tick
      PROVE  FALSE
  BY <1>2 DEF Tick, KeysChange, TypeOK, DB
<1>3. ASSUME Hz
      PROVE  Lockable
  BY <1>3 DEF Hz
<1>4. ASSUME NEW c \in Clients, NEW cmd \in Cmds,
             \/ Request(c, cmd) \/ RequestBlock(c, cmd) \/ RequestPanic(c, cmd) \/ Queue(c, cmd)
      PROVE  Lockable
  BY <1>4 DEF Request, RequestBlock, RequestPanic, Queue
<1>5. ASSUME NEW c \in Clients,
             \/ \E ks \in WatchSets : Watch(c, ks)
             \/ Unwatch(c) \/ Multi(c) \/ Discard(c) \/ ExecNothing(c) \/ Exec(c)
             \/ Retry(c) \/ RetryBlock(c)
      PROVE  Lockable
  BY <1>5 DEF Watch, Unwatch, Multi, Discard, ExecNothing, Exec, Retry, RetryBlock
<1> QED
  BY <1>1, <1>2, <1>3, <1>4, <1>5, ChannelSteps DEF Next

\* A step of EXEC that changes a key is the next command of its queue; while EXEC
\* holds the mutex no client, no retry and not the hz thread comes in between.
THEOREM ExecAlone == Spec => ExecIsolated
<1>1. ASSUME TypeInv, [Next]_vars
      PROVE  [/\ lock # NoClient
              /\ <<db'.data, db'.exp>> # <<db.data, db.exp>>
              => running' = Tail(running)]_vars
  BY <1>1, Writers DEF TypeInv, KeysChange, Lockable, ExecStep
<1> QED
  BY InitType, TypeStep, <1>1, PTL DEF Spec, ExecIsolated

-----------------------------------------------------------------------------
\* Only a thread that could lock the mutex takes it for an EXEC, and a panic in the
\* middle of one lets go of it.
LEMMA PoisonStep == PoisonInv /\ [Next]_vars => PoisonInv'
<1> SUFFICES ASSUME PoisonInv, [Next]_vars
             PROVE  PoisonInv'
  OBVIOUS
<1>1. ASSUME UNCHANGED <<lock, poisoned>>
      PROVE  PoisonInv'
  BY <1>1 DEF PoisonInv
<1>2. ASSUME NEW c \in Clients, Panic(c)
      PROVE  PoisonInv'
  BY <1>2 DEF Panic, PoisonInv
<1>3. ASSUME NEW c \in Clients, Exec(c)
      PROVE  PoisonInv'
  BY <1>3 DEF Exec, LeaveMulti, Lockable, PoisonInv
<1>4. ASSUME NEW c \in Clients, ExecStep(c)
      PROVE  PoisonInv'
  BY <1>4, ServerAssumption DEF ExecStep, PoisonInv
<1>5. ASSUME NEW c \in Clients, NEW cmd \in Cmds,
             \/ Request(c, cmd) \/ RequestBlock(c, cmd) \/ RequestPanic(c, cmd) \/ Queue(c, cmd)
      PROVE  PoisonInv'
  BY <1>1, <1>2, <1>5 DEF Request, RequestBlock, RequestPanic, Queue, Block, execVars
<1>6. ASSUME NEW c \in Clients,
             \/ \E ks \in WatchSets : Watch(c, ks)
             \/ Unwatch(c) \/ Multi(c) \/ Discard(c) \/ ExecNothing(c) \/ ExecPanic(c)
      PROVE  PoisonInv'
  BY <1>1, <1>2, <1>6 DEF Watch, Unwatch, Multi, Discard, ExecNothing, ExecPanic, LeaveMulti,
                         execVars
<1>7. ASSUME NEW c \in Clients,
             \/ Waker(c) \/ Timer(c) \/ RecvTimeout(c) \/ RecvCommand(c)
             \/ Retry(c) \/ RetryBlock(c) \/ Leave(c)
      PROVE  PoisonInv'
  BY <1>1, <1>7 DEF Waker, Timer, RecvTimeout, RecvCommand, Retry, RetryBlock, Block, Leave,
                    execVars
<1>8. ASSUME Hz \/ Tick \/ UNCHANGED vars
      PROVE  PoisonInv'
  BY <1>1, <1>8 DEF Hz, Tick, vars, execVars
<1> QED
  BY <1>3, <1>4, <1>5, <1>6, <1>7, <1>8 DEF Next

\* After a panic with the mutex locked no thread changes a key or an expiration: the
\* others find the mutex poisoned, and no EXEC is under way that could go on.
THEOREM PoisonedForGood == Spec => PoisonStops
<1>1. Init => PoisonInv
  BY DEF Init, PoisonInv
<1>2. ASSUME TypeInv, PoisonInv, [Next]_vars
      PROVE  [poisoned => <<db'.data, db'.exp>> = <<db.data, db.exp>>]_vars
  BY <1>2, Writers, ServerAssumption DEF TypeInv, KeysChange, Lockable, ExecStep, PoisonInv
<1> QED
  BY InitType, TypeStep, <1>1, PoisonStep, <1>2, PTL DEF Spec, PoisonStops

-----------------------------------------------------------------------------
(* Timeouts *)

\* Of a client at p, whose wait is w and whose request is due at u
Timely(p, w, u) ==
    /\ p \in {"blocked", "retry"} => (w.cmd.timeout = 0 <=> u = NoExp)
    /\ p = "blocked" =>
         /\ u = NoExp => w.deadline = NoExp
         /\ u # NoExp => w.deadline # NoExp \/ w.chan # <<>>
         /\ \A i \in DOMAIN w.chan :
               w.chan[i] # TimedOut => (w.chan[i] = 0 <=> u = NoExp)

TimeInv == \A c \in Clients : Timely(pc[c], wait[c], due[c])

-----------------------------------------------------------------------------
(* Where a timeout stands *)

\* A timer is set for every timeout but 0: generic_bpop starts its thread on timeout > 0.
LEMMA TimerExact ==
    ASSUME TypeOK, NEW cmd \in Command, cmd.op \in Blocking
    PROVE  TimerOf(cmd) = NoExp <=> cmd.timeout = 0
<1>1. cmd.timeout \in Nat
  BY TimerType
<1>2. db.now + cmd.timeout * MsPerSec \in Int
  BY <1>1, MsPerSecAssumption DEF TypeOK, DB
<1> QED
  BY <1>1, <1>2, DatabaseAssumption DEF TimerOf

\* The waker passes on 0 for 0 only, since it clamps what is left to 1.
LEMMA NewTimeoutExact ==
    ASSUME TypeOK, NEW w \in Wait
    PROVE  NewTimeout(w) = 0 <=> w.cmd.timeout = 0
<1>1. w.cmd.timeout \in Nat /\ w.since \in Nat
  BY KeyOp DEF Wait, KeyCommand, Blocking
<1>2. w.cmd.timeout * MsPerSec - db.now + w.since \in Int
  BY SMTT(20), <1>1, MsPerSecAssumption DEF TypeOK, DB
<1> QED
  BY <1>2 DEF NewTimeout

\* A client that is not waiting has nothing to keep.
LEMMA AwakeTimely ==
    ASSUME NEW p, p \notin {"blocked", "retry"}, NEW w, NEW u
    PROVE  Timely(p, w, u)
BY DEF Timely

\* A new wait, and one that a retry begins, has its timer.
LEMMA BlockTimely ==
    ASSUME TypeInv, NEW c \in Clients, NEW cmd \in Command, Block(c, cmd),
           NEW u, cmd.timeout = 0 <=> u = NoExp
    PROVE  Timely(pc'[c], wait'[c], u)
<1>1. cmd.op \in Blocking
  BY DEF Block, MustWait, Blocking
<1>2. TimerOf(cmd) = NoExp <=> cmd.timeout = 0
  BY <1>1, TimerExact DEF TypeInv
<1>3. pc'[c] = "blocked"
  BY DEF Block, TypeInv, TypeOK
<1>4. wait'[c] = [cmd |-> cmd, since |-> db.now, deadline |-> TimerOf(cmd),
                  waker |-> "listening", chan |-> <<>>]
  BY DEF Block, TypeInv, TypeOK
<1> QED
  BY <1>2, <1>3, <1>4 DEF Timely

\* A message that tells the same timeout, at the end of the channel.
LEMMA AppendTimely ==
    ASSUME NEW w \in Wait, NEW m \in Nat \cup {TimedOut}, NEW u,
           m # TimedOut => (m = 0 <=> u = NoExp),
           \A i \in DOMAIN w.chan : w.chan[i] # TimedOut => (w.chan[i] = 0 <=> u = NoExp)
    PROVE  LET ch == Append(w.chan, m)
           IN /\ ch # <<>>
              /\ \A i \in DOMAIN ch : ch[i] # TimedOut => (ch[i] = 0 <=> u = NoExp)
<1> DEFINE msgs == Nat \cup {TimedOut}
           l == w.chan
           ch == Append(l, m)
<1>1. l \in Seq(msgs) /\ m \in msgs
  BY DEF Wait
<1> HIDE DEF msgs, l
<1>2. Len(l) \in Nat /\ DOMAIN l = 1 .. Len(l) /\ Len(ch) = Len(l) + 1
  BY <1>1
<1>3. DOMAIN ch = 1 .. Len(l) + 1
  BY <1>1, <1>2
<1>4. ch[Len(l) + 1] = m /\ \A i \in DOMAIN l : ch[i] = l[i]
  BY <1>1, <1>2
<1>5. ASSUME NEW i \in DOMAIN ch, ch[i] # TimedOut
      PROVE  ch[i] = 0 <=> u = NoExp
  <2>1. i \in DOMAIN l \/ i = Len(l) + 1
    BY <1>2, <1>3
  <2> QED
    BY <1>4, <1>5, <2>1 DEF l
<1>6. ch # <<>>
  BY <1>2, <1>3
<1> QED
  BY <1>5, <1>6 DEF l

-----------------------------------------------------------------------------
(* No timeout is lost *)

\* At the start nobody waits.
LEMMA InitTimely == Init => TimeInv
BY AwakeTimely DEF Init, TimeInv

\* A step that leaves the waits of all clients but c alone preserves the invariant if
\* it does for c.
LEMMA OneClient ==
    ASSUME TimeInv, NEW c \in Clients,
           \A e \in Clients \ {c} : pc'[e] = pc[e] /\ wait'[e] = wait[e] /\ due'[e] = due[e],
           Timely(pc'[c], wait'[c], due'[c])
    PROVE  TimeInv'
BY DEF TimeInv

\* A panic ends the wait of the client it happens to.
LEMMA PanicTimely ==
    ASSUME TypeInv, TimeInv, NEW c \in Clients, Panic(c)
    PROVE  TimeInv'
<1>1. pc'[c] = "gone"
  BY DEF Panic, TypeInv, TypeOK
<1>2. \A e \in Clients \ {c} : pc'[e] = pc[e] /\ wait'[e] = wait[e] /\ due'[e] = due[e]
  BY DEF Panic, TypeInv, TypeOK
<1> QED
  BY <1>1, <1>2, AwakeTimely, OneClient

\* Every step of every thread preserves the invariant.
LEMMA TimeStep == TypeInv /\ TimeInv /\ [Next]_vars => TimeInv'
<1> SUFFICES ASSUME TypeInv, TimeInv, [Next]_vars
             PROVE  TimeInv'
  OBVIOUS
<1> USE ServerAssumption
<1>1. ASSUME UNCHANGED <<pc, wait, due>>
      PROVE  TimeInv'
  BY <1>1 DEF TimeInv
<1>2. ASSUME NEW c \in Clients, NEW cmd \in Cmds, RequestBlock(c, cmd)
      PROVE  TimeInv'
  <2>1. Block(c, cmd) /\ cmd \in Command /\ cmd.op \in Blocking
    BY <1>2 DEF RequestBlock, Block, MustWait, Blocking
  <2>2. due' = [due EXCEPT ![c] = TimerOf(cmd)]
    BY <1>2 DEF RequestBlock
  <2>3. due'[c] = TimerOf(cmd) /\ \A e \in Clients \ {c} : due'[e] = due[e]
    BY <2>2 DEF TypeInv, TypeOK
  <2>4. cmd.timeout = 0 <=> due'[c] = NoExp
    BY <2>1, <2>3, TimerExact DEF TypeInv
  <2>5. Timely(pc'[c], wait'[c], due'[c])
    BY <2>1, <2>4, BlockTimely
  <2> QED
    BY <2>1, <2>3, <2>5, BlockType, OneClient
<1>3. ASSUME NEW c \in Clients, NEW cmd \in Cmds, RequestPanic(c, cmd)
      PROVE  TimeInv'
  BY <1>3, PanicTimely DEF RequestPanic
<1>4. ASSUME NEW c \in Clients, ExecPanic(c)
      PROVE  TimeInv'
  BY <1>4, PanicTimely DEF ExecPanic
<1>5. ASSUME NEW c \in Clients, Waker(c)
      PROVE  TimeInv'
  <2>1. wait[c] \in Wait
    BY <1>5 DEF Waker, TypeInv, TypeOK, NoWait
  <2>2. wait'[c] = [wait[c] EXCEPT !.waker = "done", !.chan = Append(@, NewTimeout(wait[c]))]
    BY <1>5 DEF Waker, TypeInv, TypeOK
  <2>3. /\ wait'[c].cmd = wait[c].cmd
        /\ wait'[c].deadline = wait[c].deadline
        /\ wait'[c].chan = Append(wait[c].chan, NewTimeout(wait[c]))
    BY <2>1, <2>2 DEF Wait
  <2>4. UNCHANGED <<pc, due>> /\ \A e \in Clients \ {c} : wait'[e] = wait[e]
    BY <1>5 DEF Waker, TypeInv, TypeOK
  <2>5. NewTimeout(wait[c]) \in Nat /\ (NewTimeout(wait[c]) = 0 <=> wait[c].cmd.timeout = 0)
    BY <2>1, NewTimeoutType, NewTimeoutExact DEF TypeInv
  <2>6. Timely(pc[c], wait[c], due[c])
    BY DEF TimeInv
  <2>7. Timely(pc'[c], wait'[c], due'[c])
    BY SMTT(20), <2>1, <2>3, <2>4, <2>5, <2>6, AppendTimely DEF Timely
  <2> QED
    BY <2>4, <2>7, OneClient
<1>6. ASSUME NEW c \in Clients, Timer(c)
      PROVE  TimeInv'
  <2>1. wait[c] \in Wait
    BY <1>6 DEF Timer, TypeInv, TypeOK, NoWait
  <2>2. wait'[c] = [wait[c] EXCEPT !.deadline = NoExp, !.chan = Append(@, TimedOut)]
    BY <1>6 DEF Timer, TypeInv, TypeOK
  <2>3. /\ wait'[c].cmd = wait[c].cmd
        /\ wait'[c].deadline = NoExp
        /\ wait'[c].chan = Append(wait[c].chan, TimedOut)
    BY <2>1, <2>2 DEF Wait
  <2>4. UNCHANGED <<pc, due>> /\ \A e \in Clients \ {c} : wait'[e] = wait[e]
    BY <1>6 DEF Timer, TypeInv, TypeOK
  <2>5. Timely(pc[c], wait[c], due[c])
    BY DEF TimeInv
  <2>6. Timely(pc'[c], wait'[c], due'[c])
    <3>1. CASE pc[c] = "blocked"
      <4>1. \A i \in DOMAIN wait[c].chan :
               wait[c].chan[i] # TimedOut => (wait[c].chan[i] = 0 <=> due[c] = NoExp)
        BY <2>5, <3>1 DEF Timely
      <4>2. LET ch == Append(wait[c].chan, TimedOut)
            IN /\ ch # <<>>
               /\ \A i \in DOMAIN ch : ch[i] # TimedOut => (ch[i] = 0 <=> due[c] = NoExp)
        <5>1. TimedOut \in Nat \cup {TimedOut} /\ wait[c] \in Wait
          BY <2>1
        <5> QED
          BY ONLY <4>1, <5>1, AppendTimely
      <4>3. /\ wait'[c].chan # <<>>
            /\ \A i \in DOMAIN wait'[c].chan :
                  wait'[c].chan[i] # TimedOut => (wait'[c].chan[i] = 0 <=> due[c] = NoExp)
        BY <2>3, <4>2
      <4> QED
        BY <2>3, <2>4, <2>5, <4>3 DEF Timely
    <3>2. CASE pc[c] # "blocked"
      BY <2>3, <2>4, <2>5, <3>2 DEF Timely
    <3> QED
      BY <3>1, <3>2
  <2> QED
    BY <2>4, <2>6, OneClient
<1>7. ASSUME NEW c \in Clients, RecvTimeout(c) \/ Retry(c) \/ Leave(c)
      PROVE  TimeInv'
  <2>1. pc'[c] \in {"ready", "gone"}
    BY <1>7 DEF RecvTimeout, Retry, Leave, TypeInv, TypeOK
  <2>2. \A e \in Clients \ {c} : pc'[e] = pc[e] /\ wait'[e] = wait[e] /\ due'[e] = due[e]
    BY <1>7 DEF RecvTimeout, Retry, Leave, TypeInv, TypeOK
  <2> QED
    BY <2>1, <2>2, AwakeTimely, OneClient
<1>8. ASSUME NEW c \in Clients, RecvCommand(c)
      PROVE  TimeInv'
  <2> DEFINE m == Head(wait[c].chan)
  <2>1. /\ wait[c] \in Wait /\ pc[c] = "blocked"
        /\ wait[c].chan # <<>> /\ m # TimedOut
    BY <1>8 DEF RecvCommand, TypeInv
  <2>2. 1 \in DOMAIN wait[c].chan /\ m = wait[c].chan[1]
    BY <2>1 DEF Wait
  <2>3. m = 0 <=> due[c] = NoExp
    BY <2>1, <2>2 DEF TimeInv, Timely
  <2>4. wait'[c].cmd = [wait[c].cmd EXCEPT !.timeout = m]
    BY <1>8 DEF RecvCommand, TypeInv, TypeOK
  <2>5. wait'[c].cmd.timeout = m
    BY <2>1, <2>4, KeyOp DEF Wait, Command, KeyCommand, Blocking
  <2>6. pc'[c] = "retry" /\ due' = due
    BY <1>8 DEF RecvCommand, TypeInv, TypeOK
  <2>7. \A e \in Clients \ {c} : pc'[e] = pc[e] /\ wait'[e] = wait[e]
    BY <1>8 DEF RecvCommand, TypeInv, TypeOK
  <2>8. Timely(pc'[c], wait'[c], due'[c])
    BY <2>3, <2>5, <2>6 DEF Timely
  <2> QED
    BY <2>6, <2>7, <2>8, OneClient
<1>9. ASSUME NEW c \in Clients, RetryBlock(c)
      PROVE  TimeInv'
  <2>1. Block(c, wait[c].cmd) /\ wait[c].cmd \in Command /\ pc[c] = "retry" /\ due' = due
    BY <1>9 DEF RetryBlock, TypeInv, Wait
  <2>2. wait[c].cmd.timeout = 0 <=> due[c] = NoExp
    BY <2>1 DEF TimeInv, Timely
  <2>3. Timely(pc'[c], wait'[c], due'[c])
    BY <2>1, <2>2, BlockTimely
  <2> QED
    BY <2>1, <2>3, BlockType, OneClient
<1>10. ASSUME NEW c \in Clients,
              \/ \E cmd \in Cmds : Request(c, cmd) \/ Queue(c, cmd)
              \/ \E ks \in WatchSets : Watch(c, ks)
              \/ Unwatch(c) \/ Multi(c) \/ Discard(c) \/ ExecNothing(c) \/ Exec(c)
              \/ ExecStep(c)
       PROVE  TimeInv'
  BY <1>1, <1>10 DEF Request, Queue, Watch, Unwatch, Multi, Discard, ExecNothing, Exec,
                     ExecStep, LeaveMulti
<1>11. ASSUME Hz \/ Tick \/ UNCHANGED vars
       PROVE  TimeInv'
  BY <1>1, <1>11 DEF Hz, Tick, vars
<1> QED
  BY <1>2, <1>3, <1>4, <1>5, <1>6, <1>7, <1>8, <1>9, <1>10, <1>11 DEF Next

\* The timeout of a blocking pop is never lost on the way from the request over wakers,
\* timers and repeated commands, however they interleave, and none appears where the
\* client asked to wait for ever.
THEOREM TimeoutsKept == Spec => []TimeoutNotLost
<1>1. TimeInv => TimeoutNotLost
  BY DEF TimeInv, Timely, TimeoutNotLost
<1>2. TypeInv /\ TimeInv /\ [Next]_vars => (TypeInv /\ TimeInv)'
  BY TypeStep, TimeStep
<1> QED
  BY InitType, InitTimely, <1>1, <1>2, PTL DEF Spec

-----------------------------------------------------------------------------
(* Wake-ups *)

Settled(d) == \A t \in Slots : d.subs[t] # {} => ~Ready(d.data[t])

SettledBut(d, s) == \A t \in Slots \ {s} : d.subs[t] # {} => ~Ready(d.data[t])

Notifies(d1, d2) ==
    /\ d1.sent \subseteq d2.sent
    /\ \A t \in Slots : \A c \in d1.subs[t] : c \in d2.subs[t] \/ c \in d2.sent

-----------------------------------------------------------------------------
(* Methods of Database *)

\* Two steps that notify make one that does.
LEMMA NotifiesTransitive ==
    ASSUME NEW d1, NEW d2, NEW d3, Notifies(d1, d2), Notifies(d2, d3)
    PROVE  Notifies(d1, d3)
BY Zenon DEF Notifies

\* Nothing can be popped where there is no value, or nil.
LEMMA NothingReady ==
    /\ ~Ready(NoValue)
    /\ ~Ready(Nil)
BY DEF Ready, NoValue, Nil, Listable, Elements

\* Database::remove sends nothing and leaves nothing to pop.
LEMMA RemoveNotifies ==
    ASSUME NEW d \in DB, NEW s \in Slots
    PROVE  /\ Notifies(d, Remove(d, s))
           /\ \A u : SettledBut(d, u) => SettledBut(Remove(d, s), u)
           /\ Settled(d) => Settled(Remove(d, s))
           /\ ~Ready(Remove(d, s).data[s])
<1>1. /\ Remove(d, s).subs = d.subs /\ Remove(d, s).sent = d.sent
      /\ \A t \in Slots : Remove(d, s).data[t] = IF t = s THEN NoValue ELSE d.data[t]
  BY DEF Remove, DB
<1> QED
  BY <1>1, NothingReady DEF Notifies, Settled, SettledBut

\* Database::get_mut may remove an expired value and brings nothing to pop.
LEMMA GetMutNotifies ==
    ASSUME NEW d \in DB, NEW s \in Slots, Settled(d)
    PROVE  Settled(GetMut(d, s)) /\ Notifies(d, GetMut(d, s))
BY RemoveNotifies DEF GetMut, Notifies

\* Database::get_or_create makes at most a nil, which nobody can pop.
LEMMA GetOrCreateNotifies ==
    ASSUME NEW d \in DB, NEW s \in Slots, Settled(d)
    PROVE  Settled(GetOrCreate(d, s)) /\ Notifies(d, GetOrCreate(d, s))
<1>1. /\ GetOrCreate(d, s).subs = d.subs /\ GetOrCreate(d, s).sent = d.sent
      /\ \A t \in Slots : GetOrCreate(d, s).data[t] =
            IF t = s /\ d.data[t] = NoValue THEN Nil ELSE d.data[t]
  BY DEF GetOrCreate, DB
<1> QED
  BY <1>1, NothingReady DEF Notifies, Settled

\* A value written in place may break Settled at its own slot only.
LEMMA StoreNotifies ==
    ASSUME NEW d \in DB, NEW s \in Slots, NEW v, Settled(d)
    PROVE  SettledBut(Store(d, s, v), s) /\ Notifies(d, Store(d, s, v))
<1>1. /\ Store(d, s, v).subs = d.subs /\ Store(d, s, v).sent = d.sent
      /\ \A t \in Slots \ {s} : Store(d, s, v).data[t] = d.data[t]
  BY DEF Store, DB
<1> QED
  BY <1>1 DEF Notifies, Settled, SettledBut

\* key_updated settles the slot it is called for, and every client it drops is sent
\* a wake-up.
LEMMA KeyUpdatedNotifies ==
    ASSUME NEW d \in DB, NEW s \in Slots
    PROVE  /\ Notifies(d, KeyUpdated(d, s))
           /\ SettledBut(d, s) => Settled(KeyUpdated(d, s))
           /\ \A u : SettledBut(d, u) => SettledBut(KeyUpdated(d, s), u)
<1> DEFINE kept == IF IsEmpty(d.data[s]) THEN Remove(d, s) ELSE d
<1>1. kept \in DB /\ kept.subs = d.subs /\ kept.sent = d.sent
  BY RemoveType DEF Remove, DB
<1>2. \A u : SettledBut(d, u) => SettledBut(kept, u)
  BY RemoveNotifies
<1> HIDE DEF kept
<1>3. KeyUpdated(d, s) = [kept EXCEPT !.sent = @ \cup d.subs[s], !.subs[s] = {}, !.watched[s] = {}]
  BY DEF KeyUpdated, kept
<1>4. /\ KeyUpdated(d, s).sent = d.sent \cup d.subs[s]
      /\ KeyUpdated(d, s).data = kept.data
      /\ \A t \in Slots : KeyUpdated(d, s).subs[t] = IF t = s THEN {} ELSE d.subs[t]
  BY <1>1, <1>3 DEF DB
<1>5. Notifies(d, KeyUpdated(d, s))
  BY <1>4 DEF Notifies
<1>6. SettledBut(d, s) => Settled(KeyUpdated(d, s))
  BY <1>1, <1>2, <1>4 DEF Settled, SettledBut
<1>7. \A u : SettledBut(d, u) => SettledBut(KeyUpdated(d, s), u)
  BY <1>1, <1>2, <1>4 DEF SettledBut
<1> QED
  BY <1>5, <1>6, <1>7

\* Database::set_msexpiration does not touch values or subscribers.
LEMMA SetMsexpirationNotifies ==
    ASSUME NEW d \in DB, NEW s \in Slots, NEW t \in Int
    PROVE  /\ Notifies(d, SetMsexpiration(d, s, t))
           /\ SettledBut(d, s) => Settled(SetMsexpiration(d, s, t))
<1>1. KeyUpdated(d, s) \in DB
  BY KeyUpdatedType
<1>2. /\ SetMsexpiration(d, s, t).data = KeyUpdated(d, s).data
      /\ SetMsexpiration(d, s, t).subs = KeyUpdated(d, s).subs
      /\ SetMsexpiration(d, s, t).sent = KeyUpdated(d, s).sent
  BY <1>1 DEF SetMsexpiration, DB
<1> QED
  BY <1>2, KeyUpdatedNotifies DEF Notifies, Settled

\* Database::clear leaves nothing to pop, and forgets no client it did not
\* wake.
LEMMA ClearNotifies ==
    ASSUME NEW d \in DB, NEW S \in SUBSET Slots, Settled(d)
    PROVE  Settled(Clear(d, S)) /\ Notifies(d, Clear(d, S))
<1> DEFINE updated == {s \in S : d.watched[s] # {} /\ d.data[s] # NoValue}
<1>1. /\ Clear(d, S).sent = d.sent \cup UNION {d.subs[s] : s \in updated}
      /\ \A t \in Slots : /\ Clear(d, S).data[t] = IF t \in S THEN NoValue ELSE d.data[t]
                          /\ Clear(d, S).subs[t] = IF t \in updated THEN {} ELSE d.subs[t]
  BY DEF Clear, DB
<1> HIDE DEF updated
<1>2. Settled(Clear(d, S))
  BY <1>1, NothingReady DEF Settled
<1>3. Notifies(d, Clear(d, S))
  BY <1>1 DEF Notifies
<1> QED
  BY <1>2, <1>3

\* Nor does the hz thread.
LEMMA RemoveAllNotifies ==
    ASSUME NEW d \in DB, NEW S \in SUBSET Slots, Settled(d)
    PROVE  Settled(RemoveAll(d, S)) /\ Notifies(d, RemoveAll(d, S))
<1>1. /\ RemoveAll(d, S).sent = d.sent /\ RemoveAll(d, S).subs = d.subs
      /\ \A t \in Slots : RemoveAll(d, S).data[t] = IF t \in S THEN NoValue ELSE d.data[t]
  BY DEF RemoveAll, DB
<1> QED
  BY <1>1, NothingReady DEF Settled, Notifies

-----------------------------------------------------------------------------
(* Handlers: what each leaves is settled, and nobody was dropped silently. *)

Wakes(d1, d2) == Settled(d2) /\ Notifies(d1, d2)

\* Two steps that wake make one that does.
LEMMA WakesTransitive ==
    ASSUME NEW d1, NEW d2, NEW d3, Wakes(d1, d2), Wakes(d2, d3)
    PROVE  Wakes(d1, d3)
BY NotifiesTransitive DEF Wakes

\* Standing still wakes whoever needs it.
LEMMA WakesReflexive ==
    ASSUME NEW d, Settled(d)
    PROVE  Wakes(d, d)
BY DEF Wakes, Notifies

\* Database::key_updated wakes, wherever it is called.
LEMMA KeyUpdatedWakes ==
    ASSUME NEW d \in DB, NEW s \in Slots, Settled(d)
    PROVE  Wakes(d, KeyUpdated(d, s))
BY KeyUpdatedNotifies DEF Wakes, Settled, SettledBut

\* An assignment to a slot and key_updated for it.
LEMMA StoreWakes ==
    ASSUME NEW d \in DB, NEW s \in Slots, NEW v \in Value, Settled(d)
    PROVE  Wakes(d, KeyUpdated(Store(d, s, v), s))
<1>1. Store(d, s, v) \in DB
  BY StoreType
<1>2. SettledBut(Store(d, s, v), s) /\ Notifies(d, Store(d, s, v))
  BY StoreNotifies
<1>3. /\ Settled(KeyUpdated(Store(d, s, v), s))
      /\ Notifies(Store(d, s, v), KeyUpdated(Store(d, s, v), s))
  BY <1>1, <1>2, KeyUpdatedNotifies
<1> QED
  BY <1>2, <1>3, NotifiesTransitive DEF Wakes

\* So do get_or_create, a write and key_updated, the usual shape of a handler.
LEMMA WriteWakes ==
    ASSUME NEW d \in DB, NEW s \in Slots, NEW v \in Value, Settled(d)
    PROVE  Wakes(d, KeyUpdated(Store(GetOrCreate(d, s), s, v), s))
<1>1. GetOrCreate(d, s) \in DB
  BY GetOrCreateType
<1>2. Wakes(d, GetOrCreate(d, s))
  BY GetOrCreateNotifies DEF Wakes
<1>3. Wakes(GetOrCreate(d, s), KeyUpdated(Store(GetOrCreate(d, s), s, v), s))
  BY <1>1, <1>2, StoreWakes DEF Wakes
<1> QED
  BY <1>2, <1>3, WakesTransitive

\* A step that wakes still does with an expiration set after it.
LEMMA SetMsexpirationWakes ==
    ASSUME NEW d \in DB, NEW s \in Slots, NEW t \in Int, Settled(d)
    PROVE  Wakes(d, SetMsexpiration(d, s, t))
BY SetMsexpirationNotifies DEF Wakes, Settled, SettledBut

\* SET wakes: it calls key_updated for the key it wrote.
LEMMA GenericSetWakes ==
    ASSUME NEW d \in DB, NEW s \in Slots, NEW cmd, Settled(d),
           cmd.val \in StringVal, cmd.px \in Int \cup {NoExp}
    PROVE  Wakes(d, GenericSet(d, s, cmd).db)
<1> DEFINE stored == KeyUpdated(Store(GetOrCreate(d, s), s, Str(cmd.val)), s)
<1>1. stored \in DB /\ Wakes(d, stored)
  <2>1. Str(cmd.val) \in Value
    BY DEF StringVal, Str, Value, Strings
  <2> QED
    BY <2>1, WriteType, WriteWakes
<1>2. cmd.px # NoExp => Wakes(d, SetMsexpiration(stored, s, cmd.px + d.now))
  <2> SUFFICES ASSUME cmd.px # NoExp
               PROVE  Wakes(d, SetMsexpiration(stored, s, cmd.px + d.now))
    OBVIOUS
  <2>1. cmd.px + d.now \in Int
    BY DEF DB
  <2> HIDE DEF stored
  <2>2. Wakes(stored, SetMsexpiration(stored, s, cmd.px + d.now))
    BY <1>1, <2>1, SetMsexpirationWakes DEF Wakes
  <2> QED
    BY <1>1, <2>2, WakesTransitive
<1> HIDE DEF stored
<1>3. GenericSet(d, s, cmd).db \in {d, stored, SetMsexpiration(stored, s, cmd.px + d.now)}
         /\ (cmd.px = NoExp => GenericSet(d, s, cmd).db \in {d, stored})
  BY DEF GenericSet, Result, stored
<1> QED
  BY <1>1, <1>2, <1>3, WakesReflexive

\* GETSET wakes.
LEMMA GetSetWakes ==
    ASSUME NEW d \in DB, NEW s \in Slots, NEW val \in StringVal, Settled(d)
    PROVE  Wakes(d, GetSet(d, s, val).db)
<1>1. Str(val) \in Value
  BY DEF StringVal, Str, Value, Strings
<1> QED
  BY <1>1, WriteWakes DEF GetSet, Result

\* INCRBY wakes, and leaves nothing to pop when it fails.
LEMMA GenericIncrWakes ==
    ASSUME NEW d \in DB, NEW s \in Slots, NEW by \in Ints, Settled(d)
    PROVE  Wakes(d, GenericIncr(d, s, by).db)
<1> DEFINE created == GetOrCreate(d, s)
           v == created.data[s]
<1>1. created \in DB /\ v \in Value
  BY GetOrCreateType
<1>2. Wakes(d, created)
  BY GetOrCreateNotifies DEF Wakes
<1> HIDE DEF created
<1>3. Wakes(created, KeyUpdated(created, s))
  BY <1>1, <1>2, KeyUpdatedWakes DEF Wakes
<1>4. ~IncrFails(v, by) => Wakes(created, KeyUpdated(Store(created, s, IncrValue(v, by)), s))
  <2> SUFFICES ASSUME ~IncrFails(v, by)
               PROVE  Wakes(created, KeyUpdated(Store(created, s, IncrValue(v, by)), s))
    OBVIOUS
  <2>1. IncrValue(v, by) \in Value
    BY <1>1, IncrType DEF Value
  <2> QED
    BY <1>1, <1>2, <2>1, StoreWakes DEF Wakes
<1>5. GenericIncr(d, s, by).db =
        IF IncrFails(v, by) THEN KeyUpdated(created, s)
        ELSE KeyUpdated(Store(created, s, IncrValue(v, by)), s)
  BY DEF GenericIncr, Result, created
<1>6. Wakes(created, GenericIncr(d, s, by).db)
  BY <1>3, <1>4, <1>5
<1> QED
  BY <1>2, <1>6, WakesTransitive

\* DEL wakes: it brings nothing to pop.
LEMMA DelWakes ==
    ASSUME NEW d \in DB, NEW s \in Slots, Settled(d)
    PROVE  Wakes(d, Del(d, s).db)
<1>1. Remove(d, s) \in DB /\ Wakes(d, Remove(d, s))
  BY RemoveType, RemoveNotifies DEF Wakes
<1>2. Wakes(Remove(d, s), KeyUpdated(Remove(d, s), s))
  BY <1>1, KeyUpdatedWakes DEF Wakes
<1>3. Wakes(d, KeyUpdated(Remove(d, s), s))
  BY <1>1, <1>2, WakesTransitive
<1>4. Del(d, s).db \in {Remove(d, s), KeyUpdated(Remove(d, s), s)}
  BY DEF Del, Result
<1> QED
  BY <1>1, <1>3, <1>4

\* PEXPIRE and PEXPIREAT wake, whether or not they set an expiration.
LEMMA GenericExpireWakes ==
    ASSUME NEW d \in DB, NEW s \in Slots, NEW t \in Int, Settled(d)
    PROVE  Wakes(d, GenericExpire(d, s, t).db)
<1>1. SetMsexpiration(d, s, t) \in DB /\ Wakes(d, SetMsexpiration(d, s, t))
  BY SetMsexpirationType, SetMsexpirationWakes
<1>2. Wakes(SetMsexpiration(d, s, t), KeyUpdated(SetMsexpiration(d, s, t), s))
  BY <1>1, KeyUpdatedWakes DEF Wakes
<1>3. Wakes(d, KeyUpdated(SetMsexpiration(d, s, t), s))
  BY <1>1, <1>2, WakesTransitive
<1>4. GenericExpire(d, s, t).db \in {d, KeyUpdated(SetMsexpiration(d, s, t), s)}
  BY DEF GenericExpire, Result
<1> QED
  BY <1>3, <1>4, WakesReflexive

\* PERSIST wakes.
LEMMA PersistWakes ==
    ASSUME NEW d \in DB, NEW s \in Slots, Settled(d)
    PROVE  Wakes(d, Persist(d, s).db)
<1>1. RemoveMsexpiration(d, s) \in DB /\ Wakes(d, RemoveMsexpiration(d, s))
  BY DEF RemoveMsexpiration, DB, Wakes, Settled, Notifies
<1>2. Wakes(RemoveMsexpiration(d, s), KeyUpdated(RemoveMsexpiration(d, s), s))
  BY <1>1, KeyUpdatedWakes DEF Wakes
<1>3. Persist(d, s).db = KeyUpdated(RemoveMsexpiration(d, s), s)
  BY DEF Persist, Result
<1> QED
  BY <1>1, <1>2, <1>3, WakesTransitive

\* RENAME, RENAMENX and MOVE call key_updated for the name the value comes to.
LEMMA RelocateWakes ==
    ASSUME NEW d \in DB, NEW from \in Slots, NEW to \in Slots, Settled(d)
    PROVE  Wakes(d, Relocate(d, from, to).db)
<1> DEFINE v == Removed(d, from)
           removed == Remove(d, from)
           placed == Store(GetOrCreate(removed, to), to, v)
           left == removed.exp[from]
<1>1. removed \in DB /\ Wakes(d, removed)
  BY RemoveType, RemoveNotifies DEF Wakes
<1>2. v \in Value \cup {NoValue}
  BY GetType DEF Removed
<1>3. left = NoExp
  BY DEF Remove, DB
<1>4. v # NoValue => Wakes(removed, KeyUpdated(placed, to))
  BY <1>1, <1>2, WriteWakes DEF Wakes
<1>5. Relocate(d, from, to).db \in {removed, KeyUpdated(placed, to)}
         /\ (v = NoValue => Relocate(d, from, to).db = removed)
  <2> HIDE DEF v, removed, placed, left
  <2>1. Relocate(d, from, to) =
           IF v = NoValue THEN Result("error", removed)
           ELSE Result("ok", KeyUpdated(IF left = NoExp THEN placed
                                        ELSE SetMsexpiration(placed, to, left), to))
    BY DEF Relocate, v, removed, placed, left
  <2> QED
    BY <1>3, <2>1 DEF Result
<1> HIDE DEF v, removed, placed
<1> QED
  BY <1>1, <1>4, <1>5, WakesTransitive

\* LPUSH and RPUSH wake: key_updated comes after the push, also when the push
\* failed.
LEMMA GenericPushWakes ==
    ASSUME NEW d \in DB, NEW s \in Slots, NEW cmd, Settled(d),
           cmd.elems \in Seq(Elems), cmd.right \in BOOLEAN
    PROVE  Wakes(d, GenericPush(d, s, cmd).db)
<1> DEFINE opened == IF cmd.create THEN GetOrCreate(d, s) ELSE GetMut(d, s)
           v == opened.data[s]
           pushed == Store(opened, s, PushValue(v, cmd.elems, cmd.right))
<1>1. opened \in DB
  BY GetOrCreateType, GetMutType
<1>2. Wakes(d, opened)
  BY GetOrCreateNotifies, GetMutNotifies DEF Wakes
<1> HIDE DEF opened
<1>3. v \in Value \cup {NoValue}
  BY <1>1 DEF DB
<1>4. Wakes(opened, opened) /\ Wakes(opened, KeyUpdated(opened, s))
  BY <1>1, <1>2, KeyUpdatedWakes, WakesReflexive DEF Wakes
<1>5. v # NoValue /\ Listable(v) => Wakes(opened, KeyUpdated(pushed, s))
  <2> SUFFICES ASSUME v # NoValue, Listable(v)
               PROVE  Wakes(opened, KeyUpdated(pushed, s))
    OBVIOUS
  <2>1. PushValue(v, cmd.elems, cmd.right) \in Value
    BY <1>3, PushType DEF Value
  <2> QED
    BY <1>1, <1>2, <2>1, StoreWakes DEF Wakes
<1>6. GenericPush(d, s, cmd).db =
         IF v = NoValue THEN opened
         ELSE IF Listable(v) THEN KeyUpdated(pushed, s)
         ELSE KeyUpdated(opened, s)
  BY DEF GenericPush, Result, opened
<1> HIDE DEF v, pushed
<1>7. Wakes(opened, GenericPush(d, s, cmd).db)
  BY <1>4, <1>5, <1>6
<1> QED
  BY <1>2, <1>7, WakesTransitive

\* LPOP and RPOP wake: popping brings nothing to a key that had nothing.
LEMMA GenericPopWakes ==
    ASSUME NEW d \in DB, NEW s \in Slots, NEW right \in BOOLEAN, Settled(d)
    PROVE  Wakes(d, GenericPop(d, s, right).db)
<1> DEFINE opened == GetMut(d, s)
           v == opened.data[s]
           popped == Store(opened, s, PopValue(v, right))
<1>1. opened \in DB /\ Wakes(d, opened)
  BY GetMutType, GetMutNotifies DEF Wakes
<1> HIDE DEF opened
<1>2. v \in Value \cup {NoValue}
  BY <1>1 DEF DB
<1>3. Wakes(opened, KeyUpdated(opened, s))
  BY <1>1, KeyUpdatedWakes DEF Wakes
<1>4. Listable(v) /\ Elements(v) # <<>> => Wakes(opened, KeyUpdated(popped, s))
  <2> SUFFICES ASSUME Listable(v), Elements(v) # <<>>
               PROVE  Wakes(opened, KeyUpdated(popped, s))
    OBVIOUS
  <2>1. v \in Value
    BY <1>2 DEF Listable, NoValue
  <2>2. PopValue(v, right) \in Value
    BY <2>1, PopType DEF Value
  <2> QED
    BY <1>1, <2>2, StoreWakes DEF Wakes
<1>5. GenericPop(d, s, right).db =
         IF Listable(v) /\ Elements(v) # <<>> THEN KeyUpdated(popped, s)
         ELSE KeyUpdated(opened, s)
  <2>1. GenericPop(d, s, right) =
          CASE Listable(v) /\ Elements(v) # <<>> -> Result("ok", KeyUpdated(popped, s))
            [] v = NoValue \/ (Listable(v) /\ Elements(v) = <<>>) ->
                 Result("nil", KeyUpdated(opened, s))
            [] v # NoValue /\ ~Listable(v) -> Result("error", KeyUpdated(opened, s))
    BY DEF GenericPop, opened
  <2>2. v = NoValue => ~Listable(v)
    BY DEF Listable, NoValue
  <2> HIDE DEF v, popped
  <2> QED
    BY <2>1, <2>2 DEF Result
<1> HIDE DEF v, popped
<1>6. Wakes(opened, GenericPop(d, s, right).db)
  BY <1>3, <1>4, <1>5
<1> QED
  BY <1>1, <1>6, WakesTransitive

\* Nobody is subscribed to the source when it has an element to give, and the
\* destination is settled by its key_updated.  "nil" leaves nothing at the source.
LEMMA GenericRpoplpushWakes ==
    ASSUME NEW d \in DB, NEW src \in Slots, NEW dst \in Slots, Settled(d)
    PROVE  LET r == GenericRpoplpush(d, src, dst)
           IN /\ Wakes(d, r.db)
              /\ r.reply = "nil" => ~Ready(r.db.data[src])
<1> DEFINE target == Get(d, dst)
           opened == GetMut(d, src)
           v      == opened.data[src]
           el     == Popped(v, TRUE)
           popped == Store(opened, src, PopValue(v, TRUE))
           created == GetOrCreate(popped, dst)
           w      == created.data[dst]
           pushed == Store(created, dst, PushValue(w, <<el>>, FALSE))
           moved  == KeyUpdated(KeyUpdated(pushed, src), dst)
           Moves  == Listable(v) /\ Elements(v) # <<>>
<1>1. opened \in DB /\ Wakes(d, opened)
  BY GetMutType, GetMutNotifies DEF Wakes
<1>2. v \in Value \cup {NoValue}
  <2> HIDE DEF opened
  <2> QED
    BY <1>1 DEF DB
<1>3. Moves => v \in Value /\ PopValue(v, TRUE) \in Value /\ el \in Elems
  <2> SUFFICES ASSUME Moves
               PROVE  v \in Value /\ PopValue(v, TRUE) \in Value /\ el \in Elems
    OBVIOUS
  <2>1. v \in Value
    BY <1>2 DEF Listable, NoValue
  <2> QED
    BY <2>1, PopType DEF Value
<1> HIDE DEF opened, el
<1>4. Moves => popped \in DB /\ Wakes(opened, popped)
  <2> SUFFICES ASSUME Moves
               PROVE  popped \in DB /\ Wakes(opened, popped)
    OBVIOUS
  <2>1. popped \in DB
    BY <1>1, <1>3, StoreType
  <2>2. v # NoValue /\ Ready(v)
    BY DEF Ready, Listable, NoValue
  <2>3. opened.subs[src] = {}
    BY <1>1, <2>2 DEF Wakes, Settled
  <2>4. SettledBut(popped, src) /\ Notifies(opened, popped)
    BY <1>1, StoreNotifies DEF Wakes
  <2>5. popped.subs = opened.subs
    BY DEF Store
  <2> QED
    BY <2>1, <2>3, <2>4, <2>5 DEF Wakes, Settled, SettledBut
<1> HIDE DEF v, popped
<1>5. Moves => created \in DB /\ w \in Value /\ Wakes(opened, created)
  <2> SUFFICES ASSUME Moves
               PROVE  created \in DB /\ w \in Value /\ Wakes(opened, created)
    OBVIOUS
  <2>1. Wakes(popped, created)
    BY <1>4, GetOrCreateNotifies DEF Wakes
  <2> QED
    BY <1>4, <2>1, GetOrCreateType, WakesTransitive
<1> HIDE DEF created, w
<1>6. Moves /\ Listable(w) => Wakes(created, moved)
  <2> SUFFICES ASSUME Moves, Listable(w)
               PROVE  Wakes(created, moved)
    OBVIOUS
  <2>1. <<el>> \in Seq(Elems)
    BY <1>3
  <2>2. PushValue(w, <<el>>, FALSE) \in Value
    BY <1>5, <2>1, PushType DEF Value
  <2>3. pushed \in DB /\ SettledBut(pushed, dst) /\ Notifies(created, pushed)
    BY <1>5, <2>2, StoreType, StoreNotifies DEF Wakes
  <2> HIDE DEF pushed
  <2>4. /\ KeyUpdated(pushed, src) \in DB
        /\ SettledBut(KeyUpdated(pushed, src), dst)
        /\ Notifies(pushed, KeyUpdated(pushed, src))
    BY <2>3, KeyUpdatedType, KeyUpdatedNotifies
  <2>5. Settled(moved) /\ Notifies(KeyUpdated(pushed, src), moved)
    BY <2>4, KeyUpdatedNotifies
  <2> QED
    BY <2>3, <2>4, <2>5, NotifiesTransitive DEF Wakes
<1> HIDE DEF pushed
<1>7. GenericRpoplpush(d, src, dst) =
         IF target # NoValue /\ ~Listable(target) THEN Result("error", d)
         ELSE IF v = NoValue THEN Result("nil", opened)
         ELSE IF ~Listable(v) THEN Result("error", opened)
         ELSE IF Elements(v) = <<>> THEN Result("nil", opened)
         ELSE IF ~Listable(w) THEN Result("error", created)
         ELSE Result("ok", moved)
  BY Zenon DEF GenericRpoplpush, opened, v, el, popped, created, w, pushed
<1> HIDE DEF target, moved
<1>8. Wakes(d, GenericRpoplpush(d, src, dst).db)
  <2>1. Moves /\ Listable(w) => Wakes(d, moved)
    BY <1>1, <1>5, <1>6, WakesTransitive
  <2>2. Moves => Wakes(d, created)
    BY <1>1, <1>5, WakesTransitive
  <2>3. Wakes(d, d)
    BY WakesReflexive
  <2> QED
    BY <1>1, <1>7, <2>1, <2>2, <2>3 DEF Result
<1>9. ASSUME GenericRpoplpush(d, src, dst).reply = "nil"
      PROVE  ~Ready(GenericRpoplpush(d, src, dst).db.data[src])
  <2>1. /\ GenericRpoplpush(d, src, dst).db = opened
        /\ v = NoValue \/ (Listable(v) /\ Elements(v) = <<>>)
    BY <1>7, <1>9 DEF Result
  <2> QED
    BY <2>1 DEF Ready, v
<1> QED
  BY <1>8, <1>9

\* A key that is looked at is ready afterwards only if it was found ready.
LEMMA LookedAt ==
    ASSUME NEW d \in DB, NEW S \in SUBSET Slots, NEW s \in S, ~Ready(Get(d, s))
    PROVE  ~Ready(RemoveAll(d, Expired(d, S)).data[s])
<1>1. RemoveAll(d, Expired(d, S)).data[s] =
         IF s \in Expired(d, S) THEN NoValue ELSE d.data[s]
  BY DEF RemoveAll, DB
<1>2. s \in Expired(d, S) <=> IsExpired(d, s)
  BY DEF Expired
<1> QED
  BY <1>1, <1>2, NothingReady DEF Get

\* "nil" leaves nothing to pop at any of the keys.
LEMMA GenericBpopWakes ==
    ASSUME NEW d \in DB, NEW i \in Dbs, NEW keys \in Seq(Keys), NEW right \in BOOLEAN,
           Settled(d)
    PROVE  LET r == GenericBpop(d, i, keys, right)
           IN /\ Wakes(d, r.db)
              /\ r.reply = "nil" => \A k \in DOMAIN keys : ~Ready(r.db.data[<<i, keys[k]>>])
<1> DEFINE slot(k) == <<i, keys[k]>>
           ready   == {k \in DOMAIN keys : Ready(Get(d, slot(k)))}
           first   == CHOOSE k \in ready : \A j \in ready : k <= j
           s       == slot(first)
           looked  == {slot(k) : k \in IF ready = {} THEN DOMAIN keys ELSE 1 .. first}
           opened  == RemoveAll(d, Expired(d, looked))
           popped  == Store(opened, s, PopValue(opened.data[s], right))
<1>1. \A k \in DOMAIN keys : slot(k) \in Slots
  BY DEF Slots
<1>2. ready \subseteq DOMAIN keys /\ DOMAIN keys \subseteq Nat
  OBVIOUS
<1>3. ready # {} => first \in ready /\ s \in Slots
  <2> HIDE DEF ready, slot
  <2>1. ready \subseteq Nat
    BY <1>2
  <2>2. ready # {} => first \in ready
    BY <2>1, FirstExists
  <2> QED
    BY <1>1, <1>2, <2>2
<1>4. looked \subseteq Slots
  <2>1. ready # {} => 1 .. first \subseteq DOMAIN keys
    <3> HIDE DEF ready, first, s
    <3>1. ready # {} => first \in 1 .. Len(keys)
      BY <1>2, <1>3
    <3> QED
      BY <3>1
  <2> HIDE DEF slot, ready, first
  <2> QED
    BY <1>1, <2>1
<1>5. opened \in DB /\ Wakes(d, opened)
  <2>1. Expired(d, looked) \in SUBSET Slots
    BY <1>4 DEF Expired
  <2> QED
    BY <2>1, RemoveAllType, RemoveAllNotifies DEF Wakes
<1>6. ready # {} => s \in looked /\ Ready(Get(d, s))
  <2> SUFFICES ASSUME ready # {}
               PROVE  s \in looked /\ Ready(Get(d, s))
    OBVIOUS
  <2>1. Ready(Get(d, s))
    <3> HIDE DEF first
    <3> QED
      BY <1>3
  <2>2. s \in looked
    <3> HIDE DEF ready, slot
    <3>1. first \in 1 .. first
      BY <1>2, <1>3
    <3> QED
      BY <3>1
  <2> QED
    BY <2>1, <2>2
<1>7. ready # {} => opened.data[s] = Get(d, s)
  <2> SUFFICES ASSUME ready # {}
               PROVE  opened.data[s] = Get(d, s)
    OBVIOUS
  <2> HIDE DEF looked, s, ready
  <2>1. ~IsExpired(d, s)
    BY <1>6, NothingReady DEF Get
  <2>2. s \notin Expired(d, looked)
    BY <2>1 DEF Expired
  <2>3. opened.data[s] = d.data[s]
    BY <1>3, <2>2 DEF RemoveAll, DB
  <2> QED
    BY <2>1, <2>3 DEF Get
<1>8. ready = {} => \A k \in DOMAIN keys : ~Ready(opened.data[slot(k)])
  <2> SUFFICES ASSUME ready = {}, NEW k \in DOMAIN keys
               PROVE  ~Ready(opened.data[slot(k)])
    OBVIOUS
  <2>1. slot(k) \in looked
    OBVIOUS
  <2>2. ~Ready(Get(d, slot(k)))
    OBVIOUS
  <2> HIDE DEF slot, looked
  <2> QED
    BY <1>4, <2>1, <2>2, LookedAt
<1> HIDE DEF opened, ready, s
<1>9. ready # {} /\ Listable(opened.data[s]) => Wakes(opened, KeyUpdated(popped, s))
  <2> SUFFICES ASSUME ready # {}, Listable(opened.data[s])
               PROVE  Wakes(opened, KeyUpdated(popped, s))
    OBVIOUS
  <2>1. opened.data[s] \in Value
    BY <1>3, <1>5 DEF DB, Listable, NoValue
  <2>2. Elements(opened.data[s]) # <<>>
    BY <1>6, <1>7 DEF Ready
  <2>3. PopValue(opened.data[s], right) \in Value
    BY <2>1, <2>2, PopType DEF Value
  <2> QED
    BY <1>3, <1>5, <2>3, StoreWakes DEF Wakes
<1>10. GenericBpop(d, i, keys, right) =
         IF ready = {} THEN Result("nil", opened)
         ELSE IF ~Listable(opened.data[s]) THEN Result("error", opened)
         ELSE Result("ok", KeyUpdated(popped, s))
  BY Zenon DEF GenericBpop, opened, ready, s
<1> HIDE DEF popped
<1>11. Wakes(d, GenericBpop(d, i, keys, right).db)
  BY <1>5, <1>9, <1>10, WakesTransitive DEF Result
<1>12. GenericBpop(d, i, keys, right).reply = "nil" =>
          ready = {} /\ GenericBpop(d, i, keys, right).db = opened
  BY <1>10 DEF Result
<1> QED
  BY <1>8, <1>11, <1>12

\* A handler of one key wakes, in whichever of the ways it ends.
LEMMA OneSlotWakes ==
    ASSUME NEW d \in DB, NEW s \in Slots, NEW r \in OneSlot(d, s), Settled(d)
    PROVE  Wakes(d, r)
<1>1. ASSUME NEW o \in Opened(d, s)
      PROVE  o \in DB /\ Wakes(d, o)
  <2>1. CASE o \in {d, GetMut(d, s), GetOrCreate(d, s)}
    BY <2>1, GetMutType, GetOrCreateType, WakesReflexive, GetMutNotifies, GetOrCreateNotifies
       DEF Wakes
  <2>2. CASE o = GetOrCreate(GetMut(d, s), s)
    <3>1. GetMut(d, s) \in DB /\ Wakes(d, GetMut(d, s))
      BY GetMutType, GetMutNotifies DEF Wakes
    <3>2. o \in DB /\ Wakes(GetMut(d, s), o)
      BY <2>2, <3>1, GetOrCreateType, GetOrCreateNotifies DEF Wakes
    <3> QED
      BY <3>1, <3>2, WakesTransitive
  <2> QED
    BY <1>1, <2>1, <2>2 DEF Opened
<1>2. ASSUME NEW o \in Opened(d, s)
      PROVE  /\ Wakes(o, KeyUpdated(o, s))
             /\ \A v \in Value : Wakes(o, KeyUpdated(Store(o, s, v), s))
  BY <1>1, KeyUpdatedWakes, StoreWakes DEF Wakes
<1>3. ASSUME NEW o \in Opened(d, s)
      PROVE  /\ Wakes(d, KeyUpdated(o, s))
             /\ \A v \in Value : Wakes(d, KeyUpdated(Store(o, s, v), s))
  BY <1>1, <1>2, WakesTransitive
<1>4. \A o \in Quiet(d, s) \cup Found(d, s) : Wakes(d, o)
  BY <1>1, FoundOpened
<1> QED
  BY <1>3, <1>4 DEF OneSlot, Reported

\* SMOVE: nobody is subscribed to a key that holds a set, and the destination is
\* settled by its key_updated.
LEMMA SmoveWakes ==
    ASSUME NEW d \in DB, NEW src \in Slots, NEW dst \in Slots, NEW e \in Elems, Settled(d)
    PROVE  Wakes(d, Smove(d, src, dst, e).db)
<1> DEFINE target  == Get(d, dst)
           opened  == GetMut(d, src)
           v       == opened.data[src]
           taken   == Store(opened, src, SetOf(Members(v) \ {e}))
           created == GetOrCreate(taken, dst)
           w       == created.data[dst]
           added   == Store(created, dst, SetOf(Members(w) \cup {e}))
           moved   == KeyUpdated(KeyUpdated(added, src), dst)
<1>1. opened \in DB /\ Wakes(d, opened) /\ v \in Value \cup {NoValue}
  <2>1. opened \in DB /\ Wakes(d, opened)
    BY GetMutType, GetMutNotifies DEF Wakes
  <2> HIDE DEF opened
  <2> QED
    BY <2>1 DEF DB
<1> HIDE DEF opened
<1>2. e \in Members(v) => taken \in DB /\ Wakes(opened, taken)
  <2> SUFFICES ASSUME e \in Members(v)
               PROVE  taken \in DB /\ Wakes(opened, taken)
    OBVIOUS
  <2>1. SetOf(Members(v) \ {e}) \in Value
    BY <1>1, ValueCases DEF SetOf, Value, Sets
  <2>2. v.type = "set"
    BY DEF Members
  <2>3. Ready(v)
    BY <2>2 DEF Ready, Listable, NoValue
  <2>4. opened.subs[src] = {}
    BY <1>1, <2>3 DEF Wakes, Settled
  <2>5. SettledBut(taken, src) /\ Notifies(opened, taken)
    BY <1>1, StoreNotifies DEF Wakes
  <2>6. taken \in DB /\ taken.subs = opened.subs
    BY <1>1, <2>1, StoreType DEF Store
  <2> QED
    BY <2>4, <2>5, <2>6 DEF Wakes, Settled, SettledBut
<1> HIDE DEF v, taken
<1>3. e \in Members(v) => Wakes(opened, created) /\ created \in DB /\ w \in Value
  <2> SUFFICES ASSUME e \in Members(v)
               PROVE  Wakes(opened, created) /\ created \in DB /\ w \in Value
    OBVIOUS
  <2>1. Wakes(taken, created)
    BY <1>2, GetOrCreateNotifies DEF Wakes
  <2> QED
    BY <1>2, <2>1, GetOrCreateType, WakesTransitive
<1> HIDE DEF created, w
<1>4. e \in Members(v) => Wakes(created, moved)
  <2> SUFFICES ASSUME e \in Members(v)
               PROVE  Wakes(created, moved)
    OBVIOUS
  <2>1. SetOf(Members(w) \cup {e}) \in Value
    BY <1>3, ValueCases DEF SetOf, Value, Sets
  <2>2. added \in DB /\ SettledBut(added, dst) /\ Notifies(created, added)
    BY <1>3, <2>1, StoreType, StoreNotifies DEF Wakes
  <2> HIDE DEF added
  <2>3. /\ KeyUpdated(added, src) \in DB
        /\ SettledBut(KeyUpdated(added, src), dst)
        /\ Notifies(added, KeyUpdated(added, src))
    BY <2>2, KeyUpdatedType, KeyUpdatedNotifies
  <2>4. Settled(moved) /\ Notifies(KeyUpdated(added, src), moved)
    BY <2>3, KeyUpdatedNotifies
  <2> QED
    BY <2>2, <2>3, <2>4, NotifiesTransitive DEF Wakes
<1> HIDE DEF added, moved, target
<1>5. Smove(d, src, dst, e) =
        IF target # NoValue /\ target.type # "set" THEN Result("error", d)
        ELSE IF v = NoValue THEN Result("ok", opened)
        ELSE IF ~Settable(v) THEN Result("error", opened)
        ELSE IF e \notin Members(v) THEN Result("ok", opened)
        ELSE IF ~Settable(w) THEN Result("panic", d)
        ELSE Result("ok", moved)
  BY Zenon DEF Smove, target, opened, v, taken, created, w, added, moved
<1>6. e \in Members(v) => Wakes(d, moved)
  BY <1>1, <1>3, <1>4, WakesTransitive
<1> QED
  BY <1>1, <1>5, <1>6, WakesReflexive DEF Result

\* MSET sends a wake-up to everyone who is subscribed to one of its keys.
LEMMA MsetWakes ==
    ASSUME NEW d \in DB, NEW i \in Dbs, NEW K \in SUBSET Keys, NEW vals \in [K -> StringVal],
           Settled(d)
    PROVE  Wakes(d, Mset(d, i, vals).db)
<1> DEFINE r == Mset(d, i, vals).db
           S == KeySlots(i, K)
<1>1. /\ r.sent = d.sent \cup UNION {d.subs[s] : s \in S}
      /\ \A s \in Slots : IF s \in S THEN r.subs[s] = {}
                          ELSE r.subs[s] = d.subs[s] /\ r.data[s] = d.data[s]
  BY MsetFields
<1> HIDE DEF r, S
<1>2. Settled(r)
  BY <1>1 DEF Settled
<1>3. Notifies(d, r)
  BY <1>1 DEF Notifies
<1> QED
  BY <1>2, <1>3 DEF Wakes, r

\* So every command of Collections wakes.
LEMMA CollectionHandlerWakes ==
    ASSUME NEW d \in DB, NEW i \in Dbs, NEW cmd \in CollectionCommand, Settled(d)
    PROVE  Wakes(d, CollectionHandler(d, i, cmd).db)
<1> DEFINE r == CollectionHandler(d, i, cmd)
<1>1. \/ r.db = d
      \/ \E s \in Slots : \/ EndsTold(d, s, r)
                          \/ cmd.op \in {"sadd", "srem", "hset", "hincrby"} /\ Ends(d, s, r)
                          \/ r.reply # "error" /\ r.db \in Reported(Remove(d, s), s)
      \/ cmd.op = "smove" /\ \E s, t \in Slots : \E e \in Elems : r = Smove(d, s, t, e)
      \/ \E K \in SUBSET Keys : \E vals \in [K -> StringVal] : r = Mset(d, i, vals)
  BY CollectionEnds, Zenon
<1> HIDE DEF r
<1>2. r.db = d => Wakes(d, r.db)
  BY WakesReflexive
<1>3. ASSUME NEW s \in Slots, EndsTold(d, s, r) \/ Ends(d, s, r)
      PROVE  Wakes(d, r.db)
  BY <1>3, ToldEnds, OneSlotWakes DEF Ends
<1>4. ASSUME NEW s \in Slots, r.db \in Reported(Remove(d, s), s)
      PROVE  Wakes(d, r.db)
  <2>1. Remove(d, s) \in DB /\ Wakes(d, Remove(d, s))
    BY RemoveType, RemoveNotifies DEF Wakes
  <2>2. Wakes(Remove(d, s), r.db)
    BY <1>4, <2>1, OneSlotWakes DEF OneSlot, Wakes
  <2> QED
    BY <2>1, <2>2, WakesTransitive
<1>5. ASSUME NEW s \in Slots, NEW t \in Slots, NEW e \in Elems, r = Smove(d, s, t, e)
      PROVE  Wakes(d, r.db)
  BY <1>5, SmoveWakes
<1>6. ASSUME NEW K \in SUBSET Keys, NEW vals \in [K -> StringVal], r = Mset(d, i, vals)
      PROVE  Wakes(d, r.db)
  BY <1>6, MsetWakes
<1>7. Wakes(d, r.db)
  BY <1>1, <1>2, <1>3, <1>4, <1>5, <1>6
<1> QED
  BY <1>7 DEF r

\* Whatever a key command does to keys that clients are blocked on, it sends those
\* clients a wake-up; and a blocking command that will wait leaves nothing it
\* could have taken.
THEOREM HandlerWakes ==
    ASSUME NEW d \in DB, NEW i \in Dbs, NEW cmd \in Command, cmd.op # "select", Settled(d)
    PROVE  LET r == Handler(d, i, cmd)
           IN /\ Wakes(d, r.db)
              /\ cmd.op \in Blocking /\ r.reply = "nil" =>
                    \A s \in WaitSlots(i, cmd) : ~Ready(r.db.data[s])
<1>a. CASE cmd \in CollectionCommand
  <2>1. cmd.op \notin Blocking
    BY <1>a, CollectionOp DEF CollectionOps, Blocking
  <2>2. Wakes(d, CollectionHandler(d, i, cmd).db)
    BY <1>a, CollectionHandlerWakes
  <2> QED
    BY <1>a, <2>1, <2>2, CollectionsHandled
<1>b. CASE cmd \in KeyCommand
  <2> USE <1>b DEF KeyCommand, CollectionOps
  <2>0. /\ \A k \in Keys : <<i, k>> \in Slots
        /\ d.now \in Nat
        /\ Slots \in SUBSET Slots
        /\ {s \in Slots : s[1] = i} \in SUBSET Slots
        /\ Wakes(d, d)
    BY WakesReflexive DEF Slots, DB
  <2>1. CASE cmd.op \in {"get", "del", "persist"}
    BY <2>0, <2>1, DelWakes, PersistWakes DEF Handler, Result, Blocking
  <2>2. CASE cmd.op = "set"
    BY <2>0, <2>2, GenericSetWakes DEF Handler, Blocking
  <2>3. CASE cmd.op = "getset"
    BY <2>0, <2>3, GetSetWakes DEF Handler, Blocking
  <2>4. CASE cmd.op = "incrby"
    BY <2>0, <2>4, GenericIncrWakes DEF Handler, Blocking
  <2>5. CASE cmd.op \in {"pexpire", "pexpireat"}
    <3>1. cmd.key \in Keys /\ cmd.op \notin Blocking
      BY <2>5 DEF Blocking
    <3>2. cmd.ms \in Int /\ d.now + cmd.ms \in Int
      BY <2>0, <2>5
    <3>3. Wakes(d, Handler(d, i, cmd).db)
      <4>1. Handler(d, i, cmd) \in {GenericExpire(d, <<i, cmd.key>>, d.now + cmd.ms),
                                    GenericExpire(d, <<i, cmd.key>>, cmd.ms)}
        BY <2>5 DEF Handler
      <4> QED
        BY <2>0, <3>1, <3>2, <4>1, GenericExpireWakes
    <3> QED
      BY <3>1, <3>3
  <2>6. CASE cmd.op \in {"flushdb", "flushall"}
    BY <2>0, <2>6, ClearNotifies DEF Handler, Result, Blocking, Wakes
  <2>7. CASE cmd.op = "push"
    BY <2>0, <2>7, GenericPushWakes DEF Handler, Blocking
  <2>8. CASE cmd.op = "pop"
    BY <2>0, <2>8, GenericPopWakes DEF Handler, Blocking
  <2>9. CASE cmd.op \in {"rename", "renamenx"}
    <3>1. cmd.key \in Keys /\ cmd.dest \in Keys
      BY <2>9
    <3>2. Wakes(d, Relocate(d, <<i, cmd.key>>, <<i, cmd.dest>>).db)
      BY <2>0, <3>1, RelocateWakes
    <3> QED
      BY <2>0, <2>9, <3>2 DEF Handler, Rename, RenameNx, Result, Blocking
  <2>10. CASE cmd.op = "move"
    <3>1. cmd.key \in Keys /\ cmd.to \in Int
      BY <2>10
    <3>2. cmd.to \in Dbs => Wakes(d, Relocate(d, <<i, cmd.key>>, <<cmd.to, cmd.key>>).db)
      BY <2>0, <3>1, RelocateWakes DEF Slots
    <3> QED
      BY <2>0, <2>10, <3>2 DEF Handler, MoveKey, Result, Blocking
  <2>11. CASE cmd.op \in {"rpoplpush", "brpoplpush"}
    <3>1. cmd.key \in Keys /\ cmd.dest \in Keys
      BY <2>11
    <3>2. Handler(d, i, cmd) = GenericRpoplpush(d, <<i, cmd.key>>, <<i, cmd.dest>>)
      BY <2>11 DEF Handler
    <3>3. WaitSlots(i, cmd) = {<<i, cmd.key>>}
      BY <2>11 DEF WaitSlots
    <3> QED
      BY <2>0, <3>1, <3>2, <3>3, GenericRpoplpushWakes
  <2>12. CASE cmd.op = "bpop"
    <3>1. cmd.keys \in Seq(Keys) /\ cmd.right \in BOOLEAN
      BY <2>12
    <3>2. Handler(d, i, cmd) = GenericBpop(d, i, cmd.keys, cmd.right)
      BY <2>12 DEF Handler
    <3>3. WaitSlots(i, cmd) = {<<i, cmd.keys[k]>> : k \in DOMAIN cmd.keys}
      BY <2>12 DEF WaitSlots
    <3> QED
      BY <3>1, <3>2, <3>3, GenericBpopWakes
  <2> QED
    BY <2>1, <2>2, <2>3, <2>4, <2>5, <2>6, <2>7, <2>8, <2>9, <2>10, <2>11, <2>12
<1> QED
  BY <1>a, <1>b DEF Command

-----------------------------------------------------------------------------
(* The invariant *)

Subscribed(c) ==
    Asleep(c) => WaitSlots(dbindex[c], wait[c].cmd) \subseteq {s \in Slots : c \in db.subs[s]}

WakeInv ==
    /\ TypeInv
    /\ Settled(db)
    /\ \A c \in Clients : Subscribed(c)
    /\ lock # NoClient => pc[lock] = "ready"

\* A sleeping client stays subscribed over every step that leaves the client alone.
LEMMA StaysSubscribed ==
    ASSUME NEW c \in Clients, Subscribed(c), Notifies(db, db'),
           pc'[c] = pc[c], wait'[c] = wait[c], dbindex'[c] = dbindex[c]
    PROVE  Subscribed(c)'
<1> SUFFICES ASSUME Asleep(c)'
             PROVE  WaitSlots(dbindex[c], wait[c].cmd)' \subseteq {s \in Slots : c \in db'.subs[s]}
  BY DEF Subscribed
<1>1. Asleep(c)
  BY DEF Asleep, Notifies
<1>2. WaitSlots(dbindex[c], wait[c].cmd)' = WaitSlots(dbindex[c], wait[c].cmd)
  BY Zenon DEF WaitSlots
<1>3. c \notin db'.sent
  BY DEF Asleep
<1> QED
  BY <1>1, <1>2, <1>3 DEF Subscribed, Notifies

\* A client that is not asleep is trivially subscribed.
LEMMA AwakeSubscribed ==
    ASSUME NEW c \in Clients, pc[c] # "blocked"
    PROVE  Subscribed(c)
BY DEF Subscribed, Asleep

\* A handler that replies wakes whom it must, and only moves its own client to
\* another database.
LEMMA CompleteWakes ==
    ASSUME WakeInv, NEW c \in Clients, NEW cmd \in Command, Complete(c, cmd)
    PROVE  /\ Wakes(db, db')
           /\ \A e \in Clients \ {c} : dbindex'[e] = dbindex[e]
<1>1. CASE cmd.op = "select"
  <2>1. Select(c, cmd.index) /\ db' = db
    BY <1>1 DEF Complete
  <2> QED
    BY <2>1, WakesReflexive DEF Select, WakeInv, TypeInv, TypeOK
<1>2. CASE cmd.op # "select"
  <2>1. db' = Handler(db, dbindex[c], cmd).db /\ dbindex' = dbindex /\ ~BadIndex(c, cmd)
    BY <1>2 DEF Complete, Panics
  <2>2. CASE dbindex[c] \in Dbs
    BY <1>2, <2>1, <2>2, HandlerWakes DEF WakeInv, TypeInv, TypeOK
  <2>3. CASE dbindex[c] \notin Dbs
    <3>1. cmd.op = "flushall"
      BY <1>2, <2>1, <2>3 DEF BadIndex
    <3>2. Wakes(db, Clear(db, Slots))
      BY ClearNotifies DEF Wakes, WakeInv, TypeInv, TypeOK
    <3> QED
      BY <2>1, <3>1, <3>2 DEF Handler, Result, CollectionOps
  <2> QED
    BY <2>2, <2>3
<1> QED
  BY <1>1, <1>2

\* A client that begins to wait is subscribed to keys that hold nothing for it.
LEMMA BlockWakes ==
    ASSUME WakeInv, NEW c \in Clients, NEW cmd \in Command, Block(c, cmd)
    PROVE  /\ Wakes(db, db')
           /\ Subscribed(c)'
           /\ dbindex' = dbindex
<1> DEFINE r == Handler(db, dbindex[c], cmd)
           S == WaitSlots(dbindex[c], cmd)
<1>1. cmd.op \in Blocking /\ r.reply = "nil" /\ cmd.op # "select"
  BY DEF Block, MustWait, Blocking
<1>2. r.db \in DB /\ dbindex[c] \in Dbs
  BY <1>1, GoodIndex DEF Block, WakeInv, TypeInv
<1>3. Wakes(db, r.db) /\ \A s \in S : ~Ready(r.db.data[s])
  BY <1>1, <1>2, HandlerWakes DEF WakeInv, TypeInv, TypeOK
<1>4. S \subseteq Slots
  BY <1>1, <1>2, KeyOp DEF WaitSlots, Slots, KeyCommand, Blocking
<1>5. db' = KeySubscribe(r.db, S, c) /\ dbindex' = dbindex
  BY DEF Block, clientVars
<1>6. wait'[c].cmd = cmd
  BY DEF Block, WakeInv, TypeInv, TypeOK
<1> HIDE DEF r, S
<1>7. /\ db'.data = r.db.data /\ db'.sent = r.db.sent
      /\ \A s \in Slots : db'.subs[s] = IF s \in S THEN r.db.subs[s] \cup {c} ELSE r.db.subs[s]
  BY <1>2, <1>5 DEF KeySubscribe, DB
<1>8. Wakes(r.db, db')
  BY <1>3, <1>7 DEF Wakes, Settled, Notifies
<1>9. WaitSlots(dbindex[c], wait[c].cmd)' = S
  BY <1>5, <1>6 DEF S, WaitSlots
<1>10. Subscribed(c)'
  BY <1>4, <1>7, <1>9 DEF Subscribed
<1> QED
  BY <1>3, <1>5, <1>8, <1>10, WakesTransitive

\* The invariant holds at the start.
LEMMA InitWakes == Init => WakeInv
<1> SUFFICES ASSUME Init
             PROVE  WakeInv
  OBVIOUS
<1>1. Settled(db)
  BY DEF Init, NewDatabase, Settled
<1>2. \A c \in Clients : Subscribed(c)
  BY DEF Init, Subscribed, Asleep
<1>3. lock = NoClient
  BY DEF Init
<1> QED
  BY <1>1, <1>2, <1>3, InitType DEF WakeInv

\* The steps that wake nobody and put nobody to sleep.
LEMMA StandStill ==
    ASSUME WakeInv, TypeInv', UNCHANGED <<db, dbindex, pc, wait>>,
           lock' = lock \/ lock' = NoClient \/ pc[lock'] = "ready"
    PROVE  WakeInv'
BY DEF WakeInv, Settled, Subscribed, Asleep, WaitSlots

\* A panic changes no key and its thread is awake afterwards.
LEMMA PanicWakes ==
    ASSUME WakeInv, TypeInv', NEW c \in Clients, Panic(c)
    PROVE  WakeInv'
<1>1. /\ \A e \in Clients \ {c} : pc'[e] = pc[e] /\ wait'[e] = wait[e]
      /\ pc'[c] = "gone"
  BY DEF Panic, WakeInv, TypeInv, TypeOK
<1>2. db' = db /\ dbindex' = dbindex /\ lock' = NoClient
  BY DEF Panic, clientVars
<1>3. Wakes(db, db')
  BY <1>2, WakesReflexive DEF WakeInv
<1>4. \A e \in Clients : Subscribed(e)'
  BY <1>1, <1>2, <1>3, StaysSubscribed DEF WakeInv, Wakes, Subscribed, Asleep
<1> QED
  BY <1>2, <1>3, <1>4 DEF WakeInv, Wakes

\* A client's receiver goes away with the wait: for the others nothing changes.
LEMMA ReceiveWakes ==
    ASSUME WakeInv, TypeInv', NEW c \in Clients, db' = Forget(c),
           UNCHANGED <<dbindex, lock>>, pc[c] = "blocked", pc'[c] # "blocked",
           \A e \in Clients \ {c} : pc'[e] = pc[e] /\ wait'[e] = wait[e]
    PROVE  WakeInv'
<1>1. /\ db'.data = db.data /\ db'.sent = db.sent \ {c}
      /\ \A s \in Slots : db'.subs[s] = db.subs[s] \ {c}
  BY DEF Forget, WakeInv, TypeInv, TypeOK, DB
<1>2. Settled(db)'
  BY <1>1 DEF WakeInv, Settled
<1>3. ASSUME NEW e \in Clients
      PROVE  Subscribed(e)'
  <2>1. CASE e = c
    BY <2>1 DEF Subscribed, Asleep
  <2>2. CASE e # c
    <3>1. Asleep(e)' => Asleep(e)
      BY <1>1, <2>2 DEF Asleep
    <3>2. WaitSlots(dbindex[e], wait[e].cmd)' = WaitSlots(dbindex[e], wait[e].cmd)
      BY <2>2, Zenon DEF WaitSlots
    <3>3. Subscribed(e)
      BY DEF WakeInv
    <3>4. \A s \in Slots : e \in db.subs[s] => e \in db'.subs[s]
      BY <1>1, <2>2
    <3> QED
      BY <3>1, <3>2, <3>3, <3>4 DEF Subscribed
  <2> QED
    BY <2>1, <2>2
<1>4. (lock # NoClient => pc[lock] = "ready")'
  BY ServerAssumption DEF WakeInv, TypeInv, TypeOK
<1> QED
  BY <1>2, <1>3, <1>4 DEF WakeInv

\* A waker or timer sends its message: its client is asleep no longer.
LEMMA MessageWakes ==
    ASSUME WakeInv, TypeInv', NEW c \in Clients, UNCHANGED <<dbindex, pc, lock>>,
           db'.data = db.data, db'.subs = db.subs,
           db'.sent = db.sent \/ db'.sent = db.sent \ {c},
           wait'[c].chan # <<>>, \A e \in Clients \ {c} : wait'[e] = wait[e]
    PROVE  WakeInv'
<1>1. Settled(db)'
  BY DEF WakeInv, Settled
<1>2. ASSUME NEW e \in Clients
      PROVE  Subscribed(e)'
  <2>1. CASE e = c
    BY <2>1 DEF Subscribed, Asleep
  <2>2. CASE e # c
    <3>1. Asleep(e)' => Asleep(e)
      BY <2>2 DEF Asleep
    <3>2. WaitSlots(dbindex[e], wait[e].cmd)' = WaitSlots(dbindex[e], wait[e].cmd)
      BY <2>2, Zenon DEF WaitSlots
    <3>3. Subscribed(e)
      BY DEF WakeInv
    <3> QED
      BY <3>1, <3>2, <3>3 DEF Subscribed
  <2> QED
    BY <2>1, <2>2
<1> QED
  BY <1>1, <1>2 DEF WakeInv

\* Every step of every thread preserves the invariant.
LEMMA WakeStep == WakeInv /\ [Next]_vars => WakeInv'
<1> SUFFICES ASSUME WakeInv, [Next]_vars
             PROVE  WakeInv'
  OBVIOUS
<1> USE ServerAssumption
<1>0. TypeInv'
  BY TypeStep DEF WakeInv
<1>1. ASSUME NEW c \in Clients, NEW cmd \in Cmds, Request(c, cmd)
      PROVE  WakeInv'
  <2>1. Wakes(db, db') /\ \A e \in Clients \ {c} : dbindex'[e] = dbindex[e]
    BY <1>1, CompleteWakes DEF Request
  <2>2. UNCHANGED <<pc, wait, lock>> /\ pc[c] = "ready"
    BY <1>1 DEF Request, execVars
  <2>3. \A e \in Clients : Subscribed(e)'
    BY <2>1, <2>2, StaysSubscribed DEF WakeInv, Wakes, Subscribed, Asleep
  <2> QED
    BY <1>0, <2>1, <2>2, <2>3 DEF WakeInv, Wakes
<1>2. ASSUME NEW c \in Clients, NEW cmd \in Command,
             pc[c] # "blocked", Lockable, Block(c, cmd)
      PROVE  WakeInv'
  <2>1. Wakes(db, db') /\ Subscribed(c)' /\ dbindex' = dbindex
    BY <1>2, BlockWakes
  <2>2. \A e \in Clients \ {c} : pc'[e] = pc[e] /\ wait'[e] = wait[e]
    BY <1>2 DEF Block, WakeInv, TypeInv, TypeOK
  <2>3. \A e \in Clients : Subscribed(e)'
    BY <2>1, <2>2, StaysSubscribed DEF WakeInv, Wakes
  <2>4. lock' = NoClient
    BY <1>2 DEF Block, Lockable, execVars
  <2> QED
    BY <1>0, <2>1, <2>3, <2>4 DEF WakeInv, Wakes
<1>3. ASSUME NEW c \in Clients, NEW cmd \in Cmds, RequestBlock(c, cmd)
      PROVE  WakeInv'
  BY <1>2, <1>3 DEF RequestBlock
<1>4. ASSUME NEW c \in Clients, RetryBlock(c)
      PROVE  WakeInv'
  <2>1. wait[c].cmd \in Command
    BY <1>4 DEF RetryBlock, WakeInv, TypeInv, Wait
  <2> QED
    BY <1>2, <1>4, <2>1 DEF RetryBlock
<1>5. ASSUME NEW c \in Clients, (\E cmd \in Cmds : RequestPanic(c, cmd)) \/ ExecPanic(c)
      PROVE  WakeInv'
  BY <1>0, <1>5, PanicWakes DEF RequestPanic, ExecPanic
<1>6. ASSUME NEW c \in Clients, NEW cmd \in Cmds, Queue(c, cmd)
      PROVE  WakeInv'
  BY <1>0, <1>6, StandStill DEF Queue, execVars
<1>7. ASSUME NEW c \in Clients, NEW ks \in WatchSets, Watch(c, ks)
      PROVE  WakeInv'
  <2>1. db'.data = db.data /\ db'.subs = db.subs /\ db'.sent = db.sent
    BY <1>7 DEF Watch, KeyWatch, WakeInv, TypeInv, TypeOK, DB
  <2>2. UNCHANGED <<dbindex, pc, wait, lock>>
    BY <1>7 DEF Watch, execVars
  <2> QED
    BY <1>0, <2>1, <2>2 DEF WakeInv, Settled, Subscribed, Asleep, WaitSlots
<1>8. ASSUME NEW c \in Clients, Unwatch(c) \/ Multi(c) \/ Discard(c) \/ ExecNothing(c) \/ Exec(c)
      PROVE  WakeInv'
  BY <1>0, <1>8, StandStill DEF Unwatch, Multi, Discard, ExecNothing, Exec, LeaveMulti, execVars
<1>9. ASSUME NEW c \in Clients, ExecStep(c)
      PROVE  WakeInv'
  <2>1. Head(running) \in Command
    BY <1>9 DEF ExecStep, WakeInv, TypeInv, TypeOK
  <2>2. Wakes(db, db') /\ \A e \in Clients \ {c} : dbindex'[e] = dbindex[e]
    BY <1>9, <2>1, CompleteWakes DEF ExecStep
  <2>3. UNCHANGED <<pc, wait>> /\ pc[c] = "ready" /\ lock' \in {c, NoClient}
    BY <1>9 DEF ExecStep, WakeInv
  <2>4. \A e \in Clients : Subscribed(e)'
    BY <2>2, <2>3, StaysSubscribed DEF WakeInv, Wakes, Subscribed, Asleep
  <2> QED
    BY <1>0, <2>2, <2>3, <2>4 DEF WakeInv, Wakes
<1>10. ASSUME NEW c \in Clients, Waker(c)
       PROVE  WakeInv'
  <2>1. wait[c] \in Wait /\ wait[c].chan \in Seq(Nat \cup {TimedOut})
    BY <1>10 DEF Waker, WakeInv, TypeInv, TypeOK, NoWait, Wait
  <2>2. /\ wait'[c].chan = Append(wait[c].chan, NewTimeout(wait[c]))
        /\ \A e \in Clients \ {c} : wait'[e] = wait[e]
    BY <1>10, <2>1 DEF Waker, WakeInv, TypeInv, TypeOK, Wait
  <2>3. wait'[c].chan # <<>>
    <3> DEFINE n == NewTimeout(wait[c])
               msgs == Nat \cup {TimedOut}
    <3>1. n \in msgs
      BY <2>1, NewTimeoutType DEF WakeInv, TypeInv
    <3>2. wait[c].chan \in Seq(msgs) /\ wait'[c].chan = Append(wait[c].chan, n)
      BY <2>1, <2>2
    <3> HIDE DEF n, msgs
    <3> QED
      BY <3>1, <3>2
  <2>4. db'.data = db.data /\ db'.subs = db.subs /\ db'.sent = db.sent \ {c}
    BY <1>10 DEF Waker, WakeInv, TypeInv, TypeOK, DB
  <2>5. UNCHANGED <<dbindex, pc, lock>>
    BY <1>10 DEF Waker, clientVars, execVars
  <2> QED
    BY <1>0, <2>2, <2>3, <2>4, <2>5, MessageWakes
<1>11. ASSUME NEW c \in Clients, Timer(c)
       PROVE  WakeInv'
  <2>1. wait[c] \in Wait /\ wait[c].chan \in Seq(Nat \cup {TimedOut})
    BY <1>11 DEF Timer, WakeInv, TypeInv, TypeOK, NoWait, Wait
  <2>2. /\ wait'[c].chan = Append(wait[c].chan, TimedOut)
        /\ \A e \in Clients \ {c} : wait'[e] = wait[e]
    BY <1>11, <2>1 DEF Timer, WakeInv, TypeInv, TypeOK, Wait
  <2>3. wait'[c].chan # <<>>
    BY <2>1, <2>2
  <2> QED
    BY <1>0, <1>11, <2>2, <2>3, MessageWakes DEF Timer, clientVars, execVars
<1>12. ASSUME NEW c \in Clients, RecvTimeout(c) \/ RecvCommand(c)
       PROVE  WakeInv'
  <2>1. db' = Forget(c) /\ UNCHANGED <<dbindex, lock>> /\ pc[c] = "blocked"
    BY <1>12 DEF RecvTimeout, RecvCommand, clientVars, execVars
  <2>2. pc'[c] # "blocked" /\ \A e \in Clients \ {c} : pc'[e] = pc[e] /\ wait'[e] = wait[e]
    BY <1>12 DEF RecvTimeout, RecvCommand, WakeInv, TypeInv, TypeOK
  <2> QED
    BY <1>0, <2>1, <2>2, ReceiveWakes
<1>13. ASSUME NEW c \in Clients, Retry(c)
       PROVE  WakeInv'
  <2>1. wait[c].cmd \in Command
    BY <1>13 DEF Retry, WakeInv, TypeInv, Wait
  <2>2. Wakes(db, db') /\ \A e \in Clients \ {c} : dbindex'[e] = dbindex[e]
    BY <1>13, <2>1, CompleteWakes DEF Retry
  <2>3. /\ pc'[c] = "ready" /\ lock' = NoClient
        /\ \A e \in Clients \ {c} : pc'[e] = pc[e] /\ wait'[e] = wait[e]
    BY <1>13 DEF Retry, Lockable, execVars, WakeInv, TypeInv, TypeOK
  <2>4. \A e \in Clients : Subscribed(e)'
    BY <2>2, <2>3, StaysSubscribed DEF WakeInv, Wakes, Subscribed, Asleep
  <2> QED
    BY <1>0, <2>2, <2>3, <2>4 DEF WakeInv, Wakes
<1>14. ASSUME NEW c \in Clients, Leave(c)
       PROVE  WakeInv'
  <2>1. UNCHANGED <<db, dbindex, lock>> /\ lock # c
    BY <1>14 DEF Leave, execVars, WakeInv
  <2>2. /\ pc'[c] = "gone"
        /\ \A e \in Clients \ {c} : pc'[e] = pc[e] /\ wait'[e] = wait[e]
    BY <1>14 DEF Leave, WakeInv, TypeInv, TypeOK
  <2>3. Wakes(db, db')
    BY <2>1, WakesReflexive DEF WakeInv
  <2>4. \A e \in Clients : Subscribed(e)'
    BY <2>1, <2>2, <2>3, StaysSubscribed DEF WakeInv, Wakes, Subscribed, Asleep
  <2>5. lock # NoClient => lock \in Clients \ {c}
    BY <2>1 DEF WakeInv, TypeInv, TypeOK
  <2> QED
    BY <1>0, <2>1, <2>2, <2>3, <2>4, <2>5 DEF WakeInv, Wakes
<1>15. ASSUME Hz
       PROVE  WakeInv'
  <2>1. PICK S \in SUBSET Expired(db, Slots) : db' = RemoveAll(db, S)
    BY <1>15 DEF Hz
  <2>2. Wakes(db, db')
    BY <2>1, RemoveAllNotifies DEF Expired, Wakes, WakeInv, TypeInv, TypeOK
  <2>3. UNCHANGED <<dbindex, pc, wait, lock>>
    BY <1>15 DEF Hz, clientVars, execVars
  <2>4. \A e \in Clients : Subscribed(e)'
    BY <2>2, <2>3, StaysSubscribed DEF WakeInv, Wakes
  <2> QED
    BY <1>0, <2>2, <2>3, <2>4 DEF WakeInv, Wakes
<1>16. ASSUME Tick
       PROVE  WakeInv'
  <2>1. db'.data = db.data /\ db'.subs = db.subs /\ db'.sent = db.sent
    BY <1>16 DEF Tick, WakeInv, TypeInv, TypeOK, DB
  <2>2. UNCHANGED <<dbindex, pc, wait, lock>>
    BY <1>16 DEF Tick, clientVars, execVars
  <2> QED
    BY <1>0, <2>1, <2>2 DEF WakeInv, Settled, Subscribed, Asleep, WaitSlots
<1>17. ASSUME UNCHANGED vars
       PROVE  WakeInv'
  BY <1>0, <1>17, StandStill DEF vars, clientVars, execVars
<1> QED
  BY <1>1, <1>3, <1>4, <1>5, <1>6, <1>7, <1>8, <1>9, <1>10, <1>11, <1>12, <1>13, <1>14,
     <1>15, <1>16, <1>17 DEF Next

\* A client blocked on lists is never left asleep beside one that has an element
\* for it, whatever the other clients, the expirations and the hz thread do.
THEOREM WakeupsKept == Spec => []NoLostWakeup
<1>1. WakeInv => NoLostWakeup
  BY DEF WakeInv, Subscribed, Settled, NoLostWakeup
<1> QED
  BY InitWakes, WakeStep, <1>1, PTL DEF Spec
=============================================================================
