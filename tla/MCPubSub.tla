------------------------------ MODULE MCPubSub ------------------------------
(***************************************************************************)
(* Two small instances of PubSub in one run: two clients with a channel    *)
(* and a pattern, and one client with two of each, whose UNSUBSCRIBE and   *)
(* PUNSUBSCRIBE of all names are confirmed name by name.                   *)
(***************************************************************************)
EXTENDS PubSub

CONSTANTS c1, x, px, py

VARIABLE instance     \* what this behaviour uses of the constants

\* A pattern that overlaps with the channel: who has both gets a message twice
MatchBoth == {<<px, x>>}

Instances ==
    {[clients |-> Clients, names |-> {x, px}, ids |-> 2, pending |-> 2],
     [clients |-> {c1}, names |-> Names, ids |-> MaxId, pending |-> MaxPending]}

MCInit == Init /\ instance \in Instances

\* Other clients do nothing, and nobody names another channel or pattern.
Within ==
    /\ subscriber_id' <= instance.ids
    /\ \A c \in Clients :
          /\ Len(stream'[c]) <= instance.pending
          /\ \A i \in DOMAIN stream'[c] : stream'[c][i].name \in instance.names \cup {NoName}
          /\ c \notin instance.clients => pc'[c] = pc[c] /\ stream'[c] = stream[c]

MCNext == Next /\ Within /\ UNCHANGED instance

MCSpec == MCInit /\ [][MCNext]_<<vars, instance>> /\ Fairness
=============================================================================
