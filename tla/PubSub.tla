------------------------------- MODULE PubSub -------------------------------
(***************************************************************************)
(* Publish/subscribe: the registrations the database keeps (subscribe,     *)
(* unsubscribe, psubscribe, punsubscribe and publish of database/src/      *)
(* lib.rs), the maps every client keeps of its own (the handlers of the    *)
(* same names in command.rs), and the channel from all of them to the      *)
(* client's writer thread (networking/src/lib.rs).                         *)
(*                                                                         *)
(* A request that names several channels runs the same loop body for each  *)
(* of them under one lock; it is the sequence of its one-channel requests. *)
(* Message bodies and the replies of other commands are left out, and so   *)
(* are the other uses of the mutex: no thread panics while it holds it.    *)
(***************************************************************************)
EXTENDS Integers, Sequences, FiniteSets

CONSTANTS Clients, Channels, Patterns,
          Match,        \* the pairs <<pattern, channel>> that glob_match accepts
          NoName,       \* the empty name in the reply to an idle UNSUBSCRIBE
          MaxId,        \* bound on subscriber ids
          MaxPending    \* bound on what a writer thread has still to write

Names == Channels \cup Patterns

ASSUME PubSubAssumption == /\ Channels \cap Patterns = {}
                           /\ Match \subseteq Patterns \X Channels
                           /\ NoName \notin Names
                           /\ IsFiniteSet(Names)  \* the parser bounds the length of an argument
                           /\ MaxId \in Nat
                           /\ MaxPending \in Nat

VARIABLES
    subscribers,            \* Database.subscribers: the senders under each channel
    pattern_subscribers,    \* Database.pattern_subscribers
    subscriber_id,          \* Database.subscriber_id: the next id
    subscriptions,          \* Client.subscriptions: the id under each channel
    pattern_subscriptions,  \* Client.pattern_subscriptions
    pc,                     \* where the client thread is
    stream,                 \* the channel to the client's writer thread
    writer,                 \* whether the writer thread runs
    told                    \* (history) the names the client was last told it has

dbVars == <<subscribers, pattern_subscribers, subscriber_id>>
clientVars == <<subscriptions, pattern_subscriptions>>
vars == <<dbVars, clientVars, pc, stream, writer, told>>

-----------------------------------------------------------------------------

NoId == -1

\* The confirmation of one name; (history) whether it is the last of its request
Confirm(type, name, count, last) == [type |-> type, name |-> name, count |-> count, last |-> last]

\* The names a client's map holds
Held(map) == {n \in DOMAIN map : map[n] # NoId}

\* Fault: the other kind is not counted
OneKindHeld(m1, m2) == Cardinality(Held(m2))

\* Their number in both maps
TotalHeld(m1, m2) == Cardinality(Held(m1)) + Cardinality(Held(m2))

\* Database::subscribe and Database::psubscribe: a new sender under a name
Register(map, name, c) ==
    [map EXCEPT ![name] = @ \cup {[id |-> subscriber_id, client |-> c]}]

\* Fault: the sender stays
KeepRegistered(map, name, id) == map

\* Fault: every sender of the name goes
DropEntry(map, name, id) == [map EXCEPT ![name] = {}]

\* Database::unsubscribe and Database::punsubscribe: the sender of that id
Unregister(map, name, id) == [map EXCEPT ![name] = {r \in @ : r.id # id}]

\* What a PUBLISH on ch sends: a message for every sender under the channel and
\* one for every sender under each pattern that matches.
Routes(ch) ==
    {<<r, [type |-> "message", name |-> ch]>> : r \in subscribers[ch]}
    \cup UNION {{<<r, [type |-> "pmessage", name |-> p]>> : r \in pattern_subscribers[p]}
                : p \in {q \in Patterns : <<q, ch>> \in Match}}

-----------------------------------------------------------------------------
Init ==
    /\ subscribers = [ch \in Channels |-> {}]
    /\ pattern_subscribers = [p \in Patterns |-> {}]
    /\ subscriber_id = 0
    /\ subscriptions = [c \in Clients |-> [ch \in Channels |-> NoId]]
    /\ pattern_subscriptions = [c \in Clients |-> [p \in Patterns |-> NoId]]
    /\ pc = [c \in Clients |-> "open"]
    /\ stream = [c \in Clients |-> <<>>]
    /\ writer = [c \in Clients |-> TRUE]
    /\ told = [c \in Clients |-> {}]

Send(c, events) ==
    /\ Len(stream[c]) + Len(events) <= MaxPending
    /\ stream' = [stream EXCEPT ![c] = @ \o events]

\* Fault: a second SUBSCRIBE registers a second sender
NeverSubscribed(c, ch) == TRUE

\* SUBSCRIBE registers a sender unless the client's map has the channel
NotSubscribed(c, ch) == subscriptions[c][ch] = NoId

Subscribe(c, ch) ==
    /\ pc[c] = "open"
    /\ IF NotSubscribed(c, ch)
       THEN /\ subscriber_id < MaxId
            /\ subscribers' = Register(subscribers, ch, c)
            /\ subscriptions' = [subscriptions EXCEPT ![c][ch] = subscriber_id]
            /\ subscriber_id' = subscriber_id + 1
       ELSE UNCHANGED <<subscribers, subscriptions, subscriber_id>>
    /\ Send(c, <<Confirm("subscribe", ch, TotalHeld(pattern_subscriptions[c], subscriptions'[c]), TRUE)>>)
    /\ UNCHANGED <<pattern_subscribers, pattern_subscriptions, pc, writer, told>>

\* UNSUBSCRIBE of one channel, subscribed or not
Unsubscribe(c, ch) ==
    /\ pc[c] = "open"
    /\ subscribers' = IF NotSubscribed(c, ch) THEN subscribers
                      ELSE Unregister(subscribers, ch, subscriptions[c][ch])
    /\ subscriptions' = [subscriptions EXCEPT ![c][ch] = NoId]
    /\ Send(c, <<Confirm("unsubscribe", ch, TotalHeld(pattern_subscriptions[c], subscriptions'[c]), TRUE)>>)
    /\ UNCHANGED <<pattern_subscribers, subscriber_id, pattern_subscriptions, pc, writer, told>>

\* The registrations of c's own map, taken out of the database
UnregisterAll(map, own) ==
    [n \in DOMAIN map |-> IF own[n] = NoId THEN map[n] ELSE Unregister(map, n, own[n])[n]]

\* The orders in which a HashMap may yield S
Orders(S) == {f \in [1 .. Cardinality(S) -> S] : \A x \in S : \E i \in DOMAIN f : f[i] = x}

\* Fault: the number of names before
CountBefore(own, others) == TotalHeld(own, others)

\* What is left of both maps when one is drained: the other kind
DrainCount(own, others) == Cardinality(Held(others))

\* The confirmations of a drained map come in the order of a HashMap, each with
\* the number that is left; an empty map is confirmed once, without a name.
DrainReplies(type, own, others) ==
    LET S == Held(own)
    IN IF S = {}
       THEN {<<Confirm(type, NoName, DrainCount(own, others), TRUE)>>}
       ELSE {[i \in 1 .. Cardinality(S) |->
                 Confirm(type, order[i], DrainCount(own, others), i = Cardinality(S))]
             : order \in Orders(S)}

\* UNSUBSCRIBE without arguments
UnsubscribeAll(c) ==
    /\ pc[c] = "open"
    /\ subscribers' = UnregisterAll(subscribers, subscriptions[c])
    /\ subscriptions' = [subscriptions EXCEPT ![c] = [ch \in Channels |-> NoId]]
    /\ \E events \in DrainReplies("unsubscribe", subscriptions[c], pattern_subscriptions[c]) :
          Send(c, events)
    /\ UNCHANGED <<pattern_subscribers, subscriber_id, pattern_subscriptions, pc, writer, told>>

\* PSUBSCRIBE registers a sender whether or not the client's map has the pattern
Psubscribe(c, p) ==
    /\ pc[c] = "open"
    /\ subscriber_id < MaxId
    /\ pattern_subscribers' = Register(pattern_subscribers, p, c)
    /\ pattern_subscriptions' = [pattern_subscriptions EXCEPT ![c][p] = subscriber_id]
    /\ subscriber_id' = subscriber_id + 1
    /\ Send(c, <<Confirm("psubscribe", p, TotalHeld(subscriptions[c], pattern_subscriptions'[c]), TRUE)>>)
    /\ UNCHANGED <<subscribers, subscriptions, pc, writer, told>>

Punsubscribe(c, p) ==
    /\ pc[c] = "open"
    /\ pattern_subscribers' = IF pattern_subscriptions[c][p] = NoId THEN pattern_subscribers
                              ELSE Unregister(pattern_subscribers, p, pattern_subscriptions[c][p])
    /\ pattern_subscriptions' = [pattern_subscriptions EXCEPT ![c][p] = NoId]
    /\ Send(c, <<Confirm("punsubscribe", p, TotalHeld(subscriptions[c], pattern_subscriptions'[c]), TRUE)>>)
    /\ UNCHANGED <<subscribers, subscriber_id, subscriptions, pc, writer, told>>

PunsubscribeAll(c) ==
    /\ pc[c] = "open"
    /\ pattern_subscribers' = UnregisterAll(pattern_subscribers, pattern_subscriptions[c])
    /\ pattern_subscriptions' = [pattern_subscriptions EXCEPT ![c] = [p \in Patterns |-> NoId]]
    /\ \E events \in DrainReplies("punsubscribe", pattern_subscriptions[c], subscriptions[c]) :
          Send(c, events)
    /\ UNCHANGED <<subscribers, subscriber_id, subscriptions, pc, writer, told>>

\* The messages a PUBLISH on ch sends to client c: those of the channel, then
\* those of the patterns, otherwise in the order of the HashMaps.
Deliveries(ch, c) ==
    {[i \in DOMAIN order |-> order[i][2]] :
        order \in {f \in Orders({m \in Routes(ch) : m[1].client = c}) :
                      \A i, j \in DOMAIN f : i < j /\ f[j][2].type = "message"
                                               => f[i][2].type = "message"}}

\* PUBLISH, by whichever client
Publish(ch) ==
    /\ \E sent \in [Clients -> UNION {Deliveries(ch, c) : c \in Clients}] :
          /\ \A c \in Clients : /\ sent[c] \in Deliveries(ch, c)
                                /\ Len(stream[c]) + Len(sent[c]) <= MaxPending
          /\ stream' = [c \in Clients |-> stream[c] \o sent[c]]
    /\ UNCHANGED <<dbVars, clientVars, pc, writer, told>>

-----------------------------------------------------------------------------
(* The connection *)

\* The client thread leaves its loop: the peer closed, or a read failed
Close(c) ==
    /\ pc[c] = "open"
    /\ pc' = [pc EXCEPT ![c] = "closing"]
    /\ UNCHANGED <<dbVars, clientVars, stream, writer, told>>

\* Fault: the client's channels are not unsubscribed
CleanupNothing(c) ==
    /\ pc[c] = "closing"
    /\ pc' = [pc EXCEPT ![c] = "gone"]
    /\ UNCHANGED <<dbVars, clientVars, stream, writer, told>>

\* The end of Client::run: the senders under the client's channels are removed,
\* those under its patterns are not.
Cleanup(c) ==
    /\ pc[c] = "closing"
    /\ subscribers' = UnregisterAll(subscribers, subscriptions[c])
    /\ pc' = [pc EXCEPT ![c] = "gone"]
    /\ UNCHANGED <<pattern_subscribers, subscriber_id, clientVars, stream, writer, told>>

\* The names a client has after it read an event
Learn(names, e) ==
    CASE e.type \in {"subscribe", "psubscribe"} -> names \cup {e.name}
      [] e.type \in {"unsubscribe", "punsubscribe"} -> names \ {e.name}
      [] e.type \in {"message", "pmessage"} -> names

\* The writer thread writes the next event to the socket,
Write(c) ==
    /\ writer[c] /\ stream[c] # <<>>
    /\ stream' = [stream EXCEPT ![c] = Tail(@)]
    /\ told' = [told EXCEPT ![c] = Learn(@, Head(stream[c]))]
    /\ UNCHANGED <<dbVars, clientVars, pc, writer>>

Senders(c) ==
    {n \in Channels : \E r \in subscribers[n] : r.client = c}
    \cup {n \in Patterns : \E r \in pattern_subscribers[n] : r.client = c}

\* and ends once nothing is left to write and every sender was dropped: the
\* client thread's own and the copies in the database.
WriterEnd(c) ==
    /\ writer[c] /\ stream[c] = <<>>
    /\ pc[c] = "gone" /\ Senders(c) = {}
    /\ writer' = [writer EXCEPT ![c] = FALSE]
    /\ UNCHANGED <<dbVars, clientVars, pc, stream, told>>

Next ==
    \/ \E c \in Clients :
          \/ \E ch \in Channels : Subscribe(c, ch) \/ Unsubscribe(c, ch)
          \/ \E p \in Patterns : Psubscribe(c, p) \/ Punsubscribe(c, p)
          \/ UnsubscribeAll(c)
          \/ PunsubscribeAll(c)
          \/ Close(c)
          \/ Cleanup(c)
          \/ Write(c)
          \/ WriterEnd(c)
    \/ \E ch \in Channels : Publish(ch)

Spec == Init /\ [][Next]_vars

\* A client thread that left its loop goes on to its end and the writer thread
\* is scheduled; no client has to send a request.
Fairness == \A c \in Clients : WF_vars(Cleanup(c)) /\ WF_vars(Write(c) \/ WriterEnd(c))

FairSpec == Spec /\ Fairness

-----------------------------------------------------------------------------
(* Properties *)

\* The clients that PUBLISH still counts on
Connected == {c \in Clients : pc[c] # "gone"}

\* A client is registered under a channel exactly while its own map says so, with
\* the id its map holds, and no longer than its connection: no stale sender of
\* SUBSCRIBE stays behind for PUBLISH, and no subscription is without its sender.
SubscribersMirrored ==
    \A ch \in Channels :
        subscribers[ch] = {[id |-> subscriptions[c][ch], client |-> c] :
                              c \in {d \in Connected : subscriptions[d][ch] # NoId}}

\* The same in one direction for patterns: what a client's map holds is registered.
PatternsRegistered ==
    \A c \in Clients : \A p \in Patterns :
        pattern_subscriptions[c][p] # NoId =>
            [id |-> pattern_subscriptions[c][p], client |-> c] \in pattern_subscribers[p]

\* The stream of a client makes sense to its reader: a message of a channel comes
\* after the confirmation of SUBSCRIBE and before that of UNSUBSCRIBE.
MessageExpected ==
    \A c \in Clients : stream[c] # <<>> /\ Head(stream[c]).type = "message"
                          => Head(stream[c]).name \in told[c]

Starting == {"subscribe", "psubscribe"}
Ending == {"unsubscribe", "punsubscribe"}
Confirming == Starting \cup Ending

Starts(e, n) == e.type \in Starting /\ e.name = n
Ends(e, n) == e.type \in Ending /\ e.name = n

\* The names a client that had t has after it read the first i events of q
Known(t, q, i) ==
    {n \in Names :
        \/ n \in t /\ \A j \in 1 .. i : ~Ends(q[j], n)
        \/ \E j \in 1 .. i : Starts(q[j], n) /\ \A k \in j + 1 .. i : ~Ends(q[k], n)}

\* The n-th event of q is the last one of the request that the i-th confirms
EndsRequest(q, i, n) ==
    /\ q[n].type \in Confirming /\ q[n].last
    /\ \A j \in i .. n - 1 : q[j].type \in Confirming /\ ~q[j].last

\* The number in a confirmation is that of the names its reader has once it read the
\* confirmations of the request: after the next event, but for an UNSUBSCRIBE or
\* PUNSUBSCRIBE of all names, each of whose confirmations has the number of the end.
CountTellsSubscriptions ==
    \A c \in Clients :
        LET q == stream[c]
        IN q # <<>> /\ Head(q).type \in Confirming =>
              \E n \in 1 .. Len(q) : /\ EndsRequest(q, 1, n)
                                     /\ Head(q).count = Cardinality(Known(told[c], q, n))

\* The writer thread of a client that leaves without a pattern registered ends: no
\* sender that the database kept for one of its channels holds it back.
WriterEnds ==
    \A c \in Clients :
        (pc[c] = "closing" /\ Senders(c) \cap Patterns = {}) ~> ~writer[c]
=============================================================================
