---------------------------- MODULE PubSubProofs ----------------------------
(***************************************************************************)
(* Proofs about PubSub, for any number of clients, channels and patterns.  *)
(*                                                                         *)
(* The database and the clients' maps agree because ids are never given    *)
(* out twice.  What a client reads agrees with them too: the names its     *)
(* reader will know once everything sent to it is read are the names of    *)
(* its maps, every event fits what is known when its turn comes, and every *)
(* confirmation has the number of the names known at the end of the        *)
(* request that it confirms.                                               *)
(***************************************************************************)
EXTENDS PubSub, SequenceTheorems, FiniteSetTheorems, TLAPS

Sender == [id : Nat, client : Clients]

Confirmation == [type : Confirming, name : Names \cup {NoName}, count : Nat, last : BOOLEAN]
Message == [type : {"message", "pmessage"}, name : Names]
Event == Confirmation \cup Message

TypeOK ==
    /\ subscribers \in [Channels -> SUBSET Sender]
    /\ pattern_subscribers \in [Patterns -> SUBSET Sender]
    /\ subscriber_id \in Nat
    /\ subscriptions \in [Clients -> [Channels -> Nat \cup {NoId}]]
    /\ pattern_subscriptions \in [Clients -> [Patterns -> Nat \cup {NoId}]]
    /\ pc \in [Clients -> {"open", "closing", "gone"}]
    /\ stream \in [Clients -> Seq(Event)]
    /\ writer \in [Clients -> BOOLEAN]
    /\ told \in [Clients -> SUBSET Names]

\* An id is one the database gave out, to one client only.
OwnIds(own, next) ==
    /\ \A c \in Clients : \A n \in DOMAIN own[c] : own[c][n] < next
    /\ \A c, d \in Clients : \A n \in DOMAIN own[c] :
          c # d /\ own[c][n] # NoId => own[c][n] # own[d][n]

IdsApart == /\ OwnIds(subscriptions, subscriber_id)
            /\ OwnIds(pattern_subscriptions, subscriber_id)

\* SubscribersMirrored, sender by sender
Mirrors(senders, own, on) ==
    \A ch \in Channels, c \in Clients, i \in Nat :
        [id |-> i, client |-> c] \in senders[ch] <=> on[c] # "gone" /\ own[c][ch] = i

Registered(senders, own) ==
    \A c \in Clients, p \in Patterns :
        own[c][p] # NoId => [id |-> own[c][p], client |-> c] \in senders[p]

FinitelyMany ==
    /\ \A ch \in Channels : IsFiniteSet(subscribers[ch])
    /\ \A p \in Patterns : IsFiniteSet(pattern_subscribers[p])

-----------------------------------------------------------------------------
(* What a reader knows *)

\* An event whose reader knows before it what it should
Fits(e, before) ==
    /\ e.type \in Starting => e.name \in Names
    /\ e.type = "message" => e.name \in before

AllFit(t, q) == \A i \in 1 .. Len(q) : Fits(q[i], Known(t, q, i - 1))

\* A confirmation with the number of the names its reader has at the end of the request
Counted(t, q, i) ==
    q[i].type \in Confirming =>
        \E n \in i .. Len(q) : EndsRequest(q, i, n) /\ q[i].count = Cardinality(Known(t, q, n))

AllCounted(t, q) == \A i \in 1 .. Len(q) : Counted(t, q, i)

\* Everything a client holds, which is what it will know in the end
HeldBy(c) == Held(subscriptions[c]) \cup Held(pattern_subscriptions[c])

StreamInv ==
    \A c \in Clients : /\ AllFit(told[c], stream[c]) /\ AllCounted(told[c], stream[c])
                       /\ Known(told[c], stream[c], Len(stream[c])) = HeldBy(c)

IInv == /\ TypeOK /\ IdsApart /\ FinitelyMany
        /\ Mirrors(subscribers, subscriptions, pc)
        /\ Registered(pattern_subscribers, pattern_subscriptions)
        /\ StreamInv
-----------------------------------------------------------------------------
(* Reading a stream *)

\* Nothing read, nothing learned.
LEMMA KnownAtFirst ==
    ASSUME NEW t \in SUBSET Names, NEW q
    PROVE  Known(t, q, 0) = t
BY DEF Known

\* One event more is one Learn more.
LEMMA KnownNext ==
    ASSUME NEW t \in SUBSET Names, NEW q \in Seq(Event), NEW i \in Nat, i < Len(q),
           q[i + 1].type \in Starting => q[i + 1].name \in Names
    PROVE  Known(t, q, i + 1) = Learn(Known(t, q, i), q[i + 1])
<1> DEFINE e == q[i + 1]
           K == Known(t, q, i)
<1>1. e \in Event
  OBVIOUS
<1>2. e.type \in Starting \cup Ending \cup {"message", "pmessage"}
  BY <1>1 DEF Event, Confirmation, Message, Confirming
<1>3. ASSUME NEW n \in Names
      PROVE  n \in Known(t, q, i + 1) <=> Starts(e, n) \/ (n \in K /\ ~Ends(e, n))
  <2>1. Starts(e, n) => ~Ends(e, n)
    BY DEF Starts, Ends, Starting, Ending
  <2>2. \A j \in 1 .. i + 1 : j \in 1 .. i \/ j = i + 1
    OBVIOUS
  <2>3. ASSUME Starts(e, n)
        PROVE  n \in Known(t, q, i + 1)
    <3>1. i + 1 \in 1 .. i + 1 /\ \A k \in i + 2 .. i + 1 : ~Ends(q[k], n)
      OBVIOUS
    <3> QED
      BY <2>3, <3>1 DEF Known
  <2>4. ASSUME n \in K, ~Ends(e, n)
        PROVE  n \in Known(t, q, i + 1)
    <3>1. CASE n \in t /\ \A j \in 1 .. i : ~Ends(q[j], n)
      BY <2>2, <2>4, <3>1 DEF Known
    <3>2. CASE \E j \in 1 .. i : Starts(q[j], n) /\ \A k \in j + 1 .. i : ~Ends(q[k], n)
      <4>1. PICK j \in 1 .. i : Starts(q[j], n) /\ \A k \in j + 1 .. i : ~Ends(q[k], n)
        BY <3>2
      <4>2. \A k \in j + 1 .. i + 1 : k \in j + 1 .. i \/ k = i + 1
        OBVIOUS
      <4>3. j \in 1 .. i + 1
        OBVIOUS
      <4> QED
        BY <2>4, <4>1, <4>2, <4>3 DEF Known
    <3> QED
      BY <2>4, <3>1, <3>2 DEF Known
  <2>5. ASSUME n \in Known(t, q, i + 1), ~Starts(e, n)
        PROVE  n \in K /\ ~Ends(e, n)
    <3>1. CASE n \in t /\ \A j \in 1 .. i + 1 : ~Ends(q[j], n)
      BY <3>1 DEF Known
    <3>2. CASE \E j \in 1 .. i + 1 : Starts(q[j], n) /\ \A k \in j + 1 .. i + 1 : ~Ends(q[k], n)
      <4>1. PICK j \in 1 .. i + 1 : Starts(q[j], n) /\ \A k \in j + 1 .. i + 1 : ~Ends(q[k], n)
        BY <3>2
      <4>2. j \in 1 .. i
        BY <2>2, <2>5, <4>1
      <4>3. i + 1 \in j + 1 .. i + 1 /\ \A k \in j + 1 .. i : k \in j + 1 .. i + 1
        BY <4>2
      <4> QED
        BY <4>1, <4>2, <4>3 DEF Known
    <3> QED
      BY <2>5, <3>1, <3>2 DEF Known
  <2> QED
    BY <2>1, <2>3, <2>4, <2>5
<1>4. ASSUME NEW n \in Names
      PROVE  n \in Learn(K, e) <=> Starts(e, n) \/ (n \in K /\ ~Ends(e, n))
  <2>1. CASE e.type \in Starting
    BY <2>1 DEF Learn, Starts, Ends, Starting, Ending
  <2>2. CASE e.type \in Ending
    BY <2>2 DEF Learn, Starts, Ends, Starting, Ending
  <2>3. CASE e.type \in {"message", "pmessage"}
    BY <2>3 DEF Learn, Starts, Ends, Starting, Ending
  <2> QED
    BY <1>2, <2>1, <2>2, <2>3
<1>5. Learn(K, e) \subseteq Names
  <2>1. K \subseteq Names
    BY DEF Known
  <2> QED
    BY <1>2, <2>1 DEF Learn, Starting, Ending
<1>6. Known(t, q, i + 1) \subseteq Names
  BY DEF Known
<1> QED
  BY <1>3, <1>4, <1>5, <1>6

\* What is known after i events depends on those events only.
LEMMA KnownPrefix ==
    ASSUME NEW t, NEW q, NEW r, NEW i \in Nat, \A j \in 1 .. i : q[j] = r[j]
    PROVE  Known(t, q, i) = Known(t, r, i)
<1>1. \A j \in 1 .. i : \A k \in j + 1 .. i : k \in 1 .. i
  OBVIOUS
<1> QED
  BY <1>1 DEF Known, Starts, Ends

\* Reading the first event leaves the rest as known as it was.
LEMMA KnownTail ==
    ASSUME NEW t \in SUBSET Names, NEW q \in Seq(Event), q # <<>>,
           q[1].type \in Starting => q[1].name \in Names,
           NEW i \in Nat, i < Len(q)
    PROVE  Known(Learn(t, Head(q)), Tail(q), i) = Known(t, q, i + 1)
<1> DEFINE e == q[1]
<1>1. Head(q) = e /\ \A j \in 1 .. i : Tail(q)[j] = q[j + 1]
  BY HeadTailProperties
<1>2. e \in Event
  BY <1>1, HeadTailProperties
<1>3. e.type \in Starting \cup Ending \cup {"message", "pmessage"}
  BY <1>2 DEF Event, Confirmation, Message, Confirming
<1> SUFFICES ASSUME NEW n \in Names
             PROVE  n \in Known(Learn(t, e), Tail(q), i) <=> n \in Known(t, q, i + 1)
  BY <1>1 DEF Known
<1>4. n \in Learn(t, e) <=> Starts(e, n) \/ (n \in t /\ ~Ends(e, n))
  <2>1. CASE e.type \in Starting
    BY <2>1 DEF Learn, Starts, Ends, Starting, Ending
  <2>2. CASE e.type \in Ending
    BY <2>2 DEF Learn, Starts, Ends, Starting, Ending
  <2>3. CASE e.type \in {"message", "pmessage"}
    BY <2>3 DEF Learn, Starts, Ends, Starting, Ending
  <2> QED
    BY <1>3, <2>1, <2>2, <2>3
<1>5. \A j \in 1 .. i : j + 1 \in 2 .. i + 1 /\ \A k \in j + 1 .. i : Tail(q)[k] = q[k + 1]
  BY <1>1
<1>6. \A j \in 2 .. i + 1 : j - 1 \in 1 .. i /\ Tail(q)[j - 1] = q[j]
  BY <1>1
<1>7. ASSUME n \in Known(Learn(t, e), Tail(q), i)
      PROVE  n \in Known(t, q, i + 1)
  <2>1. CASE n \in Learn(t, e) /\ \A j \in 1 .. i : ~Ends(Tail(q)[j], n)
    <3>1. \A j \in 2 .. i + 1 : ~Ends(q[j], n)
      BY <1>6, <2>1
    <3>2. CASE Starts(e, n)
      <4>1. 1 \in 1 .. i + 1 /\ \A k \in 1 + 1 .. i + 1 : ~Ends(q[k], n)
        BY <3>1
      <4> QED
        BY <3>2, <4>1 DEF Known
    <3>3. CASE n \in t /\ ~Ends(e, n)
      <4>1. \A j \in 1 .. i + 1 : j = 1 \/ j \in 2 .. i + 1
        OBVIOUS
      <4> QED
        BY <3>1, <3>3, <4>1 DEF Known
    <3> QED
      BY <1>4, <2>1, <3>2, <3>3
  <2>2. CASE \E j \in 1 .. i : Starts(Tail(q)[j], n) /\ \A k \in j + 1 .. i : ~Ends(Tail(q)[k], n)
    <3>1. PICK j \in 1 .. i : Starts(Tail(q)[j], n) /\ \A k \in j + 1 .. i : ~Ends(Tail(q)[k], n)
      BY <2>2
    <3>2. Starts(q[j + 1], n) /\ j + 1 \in 1 .. i + 1
      BY <1>1, <3>1
    <3>3. ASSUME NEW k \in j + 2 .. i + 1
          PROVE  ~Ends(q[k], n)
      <4>1. k - 1 \in j + 1 .. i /\ k \in 2 .. i + 1
        OBVIOUS
      <4> QED
        BY <1>6, <3>1, <4>1
    <3> QED
      BY <3>2, <3>3 DEF Known
  <2> QED
    BY <1>7, <2>1, <2>2 DEF Known
<1>8. ASSUME n \in Known(t, q, i + 1)
      PROVE  n \in Known(Learn(t, e), Tail(q), i)
  <2>1. CASE n \in t /\ \A j \in 1 .. i + 1 : ~Ends(q[j], n)
    <3>1. n \in Learn(t, e)
      BY <1>4, <2>1
    <3>2. \A j \in 1 .. i : ~Ends(Tail(q)[j], n)
      BY <1>1, <2>1
    <3> QED
      BY <3>1, <3>2 DEF Known
  <2>2. CASE \E j \in 1 .. i + 1 : Starts(q[j], n) /\ \A k \in j + 1 .. i + 1 : ~Ends(q[k], n)
    <3>1. PICK j \in 1 .. i + 1 : Starts(q[j], n) /\ \A k \in j + 1 .. i + 1 : ~Ends(q[k], n)
      BY <2>2
    <3>2. CASE j = 1
      <4>1. n \in Learn(t, e)
        BY <1>4, <3>1, <3>2
      <4>2. \A k \in 1 .. i : ~Ends(Tail(q)[k], n)
        BY <1>1, <3>1, <3>2
      <4> QED
        BY <4>1, <4>2 DEF Known
    <3>3. CASE j # 1
      <4>1. j - 1 \in 1 .. i /\ Starts(Tail(q)[j - 1], n)
        BY <1>6, <3>1, <3>3
      <4>2. ASSUME NEW k \in j .. i
            PROVE  ~Ends(Tail(q)[k], n)
        <5>1. k + 1 \in j + 1 .. i + 1 /\ k \in 1 .. i
          OBVIOUS
        <5> QED
          BY <1>1, <3>1, <5>1
      <4>3. (j - 1) + 1 = j
        OBVIOUS
      <4> QED
        BY <4>1, <4>2, <4>3 DEF Known
    <3> QED
      BY <3>2, <3>3
  <2> QED
    BY <1>8, <2>1, <2>2 DEF Known
<1> QED
  BY <1>7, <1>8

-----------------------------------------------------------------------------
(* Sending on a stream *)

\* Appended events that fit leave the earlier ones fitting.
LEMMA AppendedFit ==
    ASSUME NEW t \in SUBSET Names, NEW q \in Seq(Event), NEW s \in Seq(Event), AllFit(t, q),
           \A i \in 1 .. Len(s) : Fits(s[i], Known(t, q \o s, Len(q) + i - 1))
    PROVE  AllFit(t, q \o s)
<1>1. /\ Len(q \o s) = Len(q) + Len(s)
      /\ \A i \in 1 .. Len(q) + Len(s) : (q \o s)[i] = IF i <= Len(q) THEN q[i] ELSE s[i - Len(q)]
  BY ConcatProperties
<1> SUFFICES ASSUME NEW i \in 1 .. Len(q) + Len(s)
             PROVE  Fits((q \o s)[i], Known(t, q \o s, i - 1))
  BY <1>1 DEF AllFit
<1>2. CASE i <= Len(q)
  <2>1. i - 1 \in Nat /\ i \in Nat /\ i \in 1 .. Len(q)
    BY <1>2
  <2>2. Known(t, q \o s, i - 1) = Known(t, q, i - 1)
    <3>1. \A j \in 1 .. i - 1 : (q \o s)[j] = q[j]
      BY <1>1, <1>2
    <3> QED
      BY <2>1, <3>1, KnownPrefix
  <2>3. (q \o s)[i] = q[i]
    BY <1>1, <1>2
  <2> QED
    BY <2>1, <2>2, <2>3 DEF AllFit
<1>3. CASE i > Len(q)
  <2>1. i - Len(q) \in 1 .. Len(s) /\ (q \o s)[i] = s[i - Len(q)]
    BY <1>1, <1>3
  <2>2. Len(q) + (i - Len(q)) = i
    OBVIOUS
  <2> QED
    BY <2>1, <2>2
<1> QED
  BY <1>2, <1>3

\* Messages teach no names, so those of one PUBLISH fit if their names are known.
LEMMA MessagesFit ==
    ASSUME NEW t \in SUBSET Names, NEW q \in Seq(Event), NEW s \in Seq(Event), AllFit(t, q),
           \A i \in 1 .. Len(s) :
              /\ s[i].type \in {"message", "pmessage"}
              /\ s[i].type = "message" => s[i].name \in Known(t, q, Len(q))
    PROVE  /\ AllFit(t, q \o s)
           /\ Known(t, q \o s, Len(q \o s)) = Known(t, q, Len(q))
<1>1. /\ Len(q \o s) = Len(q) + Len(s)
      /\ \A i \in 1 .. Len(q) + Len(s) : (q \o s)[i] = IF i <= Len(q) THEN q[i] ELSE s[i - Len(q)]
  BY ConcatProperties
<1>2. ASSUME NEW k \in 0 .. Len(s)
      PROVE  Known(t, q \o s, Len(q) + k) = Known(t, q, Len(q))
  <2>1. \A j \in 1 .. Len(q) : (q \o s)[j] = q[j]
    BY <1>1
  <2>2. \A j \in Len(q) + 1 .. Len(q) + k, n \in Names : ~Starts((q \o s)[j], n) /\ ~Ends((q \o s)[j], n)
    <3> SUFFICES ASSUME NEW j \in Len(q) + 1 .. Len(q) + k, NEW n \in Names
                 PROVE  ~Starts((q \o s)[j], n) /\ ~Ends((q \o s)[j], n)
      OBVIOUS
    <3>1. j - Len(q) \in 1 .. Len(s) /\ (q \o s)[j] = s[j - Len(q)]
      BY <1>1
    <3> QED
      BY <3>1 DEF Starts, Ends, Starting, Ending
  <2>3. \A n \in Names : n \in Known(t, q \o s, Len(q) + k) => n \in Known(t, q, Len(q))
    BY <2>1, <2>2 DEF Known, Starts, Ends
  <2>4. \A n \in Names : n \in Known(t, q, Len(q)) => n \in Known(t, q \o s, Len(q) + k)
    <3> SUFFICES ASSUME NEW n \in Known(t, q, Len(q))
                 PROVE  n \in Known(t, q \o s, Len(q) + k)
      OBVIOUS
    <3>0. n \in Names
      BY DEF Known
    <3>1. \A j \in 1 .. Len(q) + k : j \in 1 .. Len(q) \/ j \in Len(q) + 1 .. Len(q) + k
      OBVIOUS
    <3>2. CASE n \in t /\ \A j \in 1 .. Len(q) : ~Ends(q[j], n)
      <4>1. \A j \in 1 .. Len(q) + k : ~Ends((q \o s)[j], n)
        BY <2>1, <2>2, <3>0, <3>1, <3>2
      <4> QED
        BY <3>0, <3>2, <4>1 DEF Known
    <3>3. CASE \E j \in 1 .. Len(q) : Starts(q[j], n) /\ \A m \in j + 1 .. Len(q) : ~Ends(q[m], n)
      <4>1. PICK j \in 1 .. Len(q) : Starts(q[j], n) /\ \A m \in j + 1 .. Len(q) : ~Ends(q[m], n)
        BY <3>3
      <4>2. j \in 1 .. Len(q) + k /\ Starts((q \o s)[j], n)
        BY <2>1, <4>1
      <4>3. ASSUME NEW m \in j + 1 .. Len(q) + k
            PROVE  ~Ends((q \o s)[m], n)
        <5>1. CASE m \in 1 .. Len(q)
          BY <2>1, <4>1, <5>1
        <5>2. CASE m \in Len(q) + 1 .. Len(q) + k
          BY <2>2, <3>0, <5>2
        <5> QED
          BY <3>1, <5>1, <5>2
      <4> QED
        BY <3>0, <4>2, <4>3 DEF Known
    <3> QED
      BY <3>2, <3>3 DEF Known
  <2> QED
    BY <2>3, <2>4 DEF Known
<1>3. ASSUME NEW i \in 1 .. Len(s)
      PROVE  Fits(s[i], Known(t, q \o s, Len(q) + i - 1))
  <2>1. i - 1 \in 0 .. Len(s) /\ Len(q) + (i - 1) = Len(q) + i - 1
    OBVIOUS
  <2>2. Known(t, q \o s, Len(q) + i - 1) = Known(t, q, Len(q))
    BY <1>2, <2>1
  <2> QED
    BY <2>2 DEF Fits, Starting
<1>4. Len(s) \in 0 .. Len(s)
  OBVIOUS
<1> QED
  BY <1>1, <1>2, <1>3, <1>4, AppendedFit

\* A single confirmation that fits.
LEMMA OneFits ==
    ASSUME NEW t \in SUBSET Names, NEW q \in Seq(Event), NEW e \in Event, AllFit(t, q),
           Fits(e, Known(t, q, Len(q)))
    PROVE  /\ AllFit(t, q \o <<e>>)
           /\ Known(t, q \o <<e>>, Len(q \o <<e>>)) = Learn(Known(t, q, Len(q)), e)
<1> DEFINE r == q \o <<e>>
<1>1. <<e>> \in Seq(Event) /\ Len(<<e>>) = 1 /\ <<e>>[1] = e
  OBVIOUS
<1>2. /\ r \in Seq(Event)
      /\ Len(r) = Len(q) + 1
      /\ \A i \in 1 .. Len(q) : r[i] = q[i]
      /\ r[Len(q) + 1] = e
  BY <1>1, ConcatProperties
<1> HIDE DEF r
<1>3. Known(t, r, Len(q)) = Known(t, q, Len(q))
  <2>1. Len(q) \in Nat /\ \A i \in 1 .. Len(q) : r[i] = q[i]
    BY <1>2
  <2> QED
    BY <2>1, KnownPrefix
<1>4. Known(t, r, Len(q) + 1) = Learn(Known(t, r, Len(q)), e)
  <2>1. e.type \in Starting => e.name \in Names
    BY DEF Fits
  <2>2. Len(q) \in Nat /\ Len(q) < Len(r)
    BY <1>2
  <2> QED
    BY <1>2, <2>1, <2>2, KnownNext
<1>5. \A i \in 1 .. Len(<<e>>) : Fits(<<e>>[i], Known(t, r, Len(q) + i - 1))
  <2>1. \A i \in 1 .. Len(<<e>>) : i = 1 /\ Len(q) + i - 1 = Len(q)
    BY <1>1
  <2> QED
    BY <1>1, <1>3, <1>4, <2>1
<1>6. AllFit(t, r)
  BY <1>1, <1>5, AppendedFit DEF r
<1> QED
  BY <1>2, <1>3, <1>4, <1>6 DEF r

\* The confirmations of a drained map take its names away.
LEMMA DrainFits ==
    ASSUME NEW t \in SUBSET Names, NEW q \in Seq(Event), NEW s \in Seq(Event), AllFit(t, q),
           \A i \in 1 .. Len(s) : s[i].type \in Ending
    PROVE  /\ AllFit(t, q \o s)
           /\ Known(t, q \o s, Len(q \o s)) = Known(t, q, Len(q)) \ {s[i].name : i \in 1 .. Len(s)}
<1> DEFINE r == q \o s
           N == {s[i].name : i \in 1 .. Len(s)}
<1>1. /\ Len(r) = Len(q) + Len(s)
      /\ \A i \in 1 .. Len(q) : r[i] = q[i]
      /\ \A i \in 1 .. Len(s) : r[Len(q) + i] = s[i]
  BY ConcatProperties
<1>2. \A j \in 1 .. Len(q) + Len(s) : j \in 1 .. Len(q) \/ (j > Len(q) /\ j - Len(q) \in 1 .. Len(s))
  OBVIOUS
<1>3. \A j \in 1 .. Len(q) + Len(s) : j > Len(q) => r[j] = s[j - Len(q)]
  BY ConcatProperties
<1>4. \A i \in 1 .. Len(s) : Fits(s[i], Known(t, r, Len(q) + i - 1))
  BY DEF Fits, Starting, Ending
<1>5. ASSUME NEW n \in Known(t, r, Len(q) + Len(s))
      PROVE  n \in Known(t, q, Len(q)) /\ n \notin N
  <2>1. n \in Names
    BY DEF Known
  <2>2. CASE n \in t /\ \A j \in 1 .. Len(q) + Len(s) : ~Ends(r[j], n)
    <3>1. \A j \in 1 .. Len(q) : ~Ends(q[j], n)
      BY <1>1, <2>2
    <3>2. \A i \in 1 .. Len(s) : ~Ends(s[i], n)
      <4> SUFFICES ASSUME NEW i \in 1 .. Len(s)
                   PROVE  ~Ends(s[i], n)
        OBVIOUS
      <4>1. Len(q) + i \in 1 .. Len(q) + Len(s)
        OBVIOUS
      <4> QED
        BY <1>1, <2>2, <4>1
    <3> QED
      BY <2>1, <2>2, <3>1, <3>2 DEF Known, Ends
  <2>3. CASE \E j \in 1 .. Len(q) + Len(s) :
                Starts(r[j], n) /\ \A k \in j + 1 .. Len(q) + Len(s) : ~Ends(r[k], n)
    <3>1. PICK j \in 1 .. Len(q) + Len(s) :
                Starts(r[j], n) /\ \A k \in j + 1 .. Len(q) + Len(s) : ~Ends(r[k], n)
      BY <2>3
    <3>2. j \in 1 .. Len(q)
      BY <1>2, <1>3, <3>1 DEF Starts, Starting, Ending
    <3>3. \A k \in j + 1 .. Len(q) : ~Ends(q[k], n)
      BY <1>1, <3>1, <3>2
    <3>4. \A i \in 1 .. Len(s) : ~Ends(s[i], n)
      <4> SUFFICES ASSUME NEW i \in 1 .. Len(s)
                   PROVE  ~Ends(s[i], n)
        OBVIOUS
      <4>1. Len(q) + i \in j + 1 .. Len(q) + Len(s)
        BY <3>2
      <4> QED
        BY <1>1, <3>1, <4>1
    <3>5. Starts(q[j], n)
      BY <1>1, <3>1, <3>2
    <3> QED
      BY <2>1, <3>2, <3>3, <3>4, <3>5 DEF Known, Ends
  <2> QED
    BY <2>2, <2>3 DEF Known
<1>6. ASSUME NEW n \in Known(t, q, Len(q)), n \notin N
      PROVE  n \in Known(t, r, Len(q) + Len(s))
  <2>1. n \in Names
    BY DEF Known
  <2>2. \A i \in 1 .. Len(s) : ~Ends(s[i], n)
    BY <1>6 DEF Ends
  <2>3. \A j \in 1 .. Len(q) + Len(s) : j \notin 1 .. Len(q) => ~Ends(r[j], n)
    BY <1>2, <1>3, <2>2
  <2>4. CASE n \in t /\ \A j \in 1 .. Len(q) : ~Ends(q[j], n)
    BY <1>1, <2>1, <2>3, <2>4 DEF Known
  <2>5. CASE \E j \in 1 .. Len(q) : Starts(q[j], n) /\ \A k \in j + 1 .. Len(q) : ~Ends(q[k], n)
    <3>1. PICK j \in 1 .. Len(q) : Starts(q[j], n) /\ \A k \in j + 1 .. Len(q) : ~Ends(q[k], n)
      BY <2>5
    <3>2. j \in 1 .. Len(q) + Len(s) /\ Starts(r[j], n)
      BY <1>1, <3>1
    <3>3. \A k \in j + 1 .. Len(q) + Len(s) : ~Ends(r[k], n)
      BY <1>1, <2>3, <3>1
    <3> QED
      BY <2>1, <3>2, <3>3 DEF Known
  <2> QED
    BY <2>4, <2>5 DEF Known
<1>7. AllFit(t, r)
  BY <1>4, AppendedFit
<1> QED
  BY <1>1, <1>5, <1>6, <1>7

\* Appended events that are counted leave the earlier ones counted.
LEMMA AppendedCounted ==
    ASSUME NEW t \in SUBSET Names, NEW q \in Seq(Event), NEW s \in Seq(Event), AllCounted(t, q),
           \A i \in Len(q) + 1 .. Len(q) + Len(s) : Counted(t, q \o s, i)
    PROVE  AllCounted(t, q \o s)
<1> DEFINE r == q \o s
<1>1. Len(r) = Len(q) + Len(s) /\ \A i \in 1 .. Len(q) : r[i] = q[i]
  BY ConcatProperties
<1> HIDE DEF r
<1> SUFFICES ASSUME NEW i \in 1 .. Len(q), r[i].type \in Confirming
             PROVE  \E n \in i .. Len(r) : EndsRequest(r, i, n) /\ r[i].count = Cardinality(Known(t, r, n))
  <2>1. \A i \in 1 .. Len(r) : i \in 1 .. Len(q) \/ i \in Len(q) + 1 .. Len(q) + Len(s)
    BY <1>1
  <2> QED
    BY <2>1 DEF AllCounted, Counted, r
<1>2. PICK n \in i .. Len(q) : EndsRequest(q, i, n) /\ q[i].count = Cardinality(Known(t, q, n))
  BY <1>1 DEF AllCounted, Counted
<1>3. n \in Nat /\ \A j \in 1 .. n : r[j] = q[j]
  BY <1>1
<1>4. Known(t, r, n) = Known(t, q, n)
  BY <1>3, KnownPrefix
<1>5. EndsRequest(r, i, n)
  BY <1>1, <1>2, <1>3 DEF EndsRequest
<1> QED
  BY <1>1, <1>2, <1>4, <1>5

\* The confirmations of one request, with the number of the names at its end
LEMMA RequestCounted ==
    ASSUME NEW t \in SUBSET Names, NEW q \in Seq(Event), NEW s \in Seq(Event), AllCounted(t, q),
           \A i \in 1 .. Len(s) : /\ s[i].type \in Confirming /\ (s[i].last <=> i = Len(s))
                                 /\ s[i].count = Cardinality(Known(t, q \o s, Len(q \o s)))
    PROVE  AllCounted(t, q \o s)
<1> DEFINE r == q \o s
           n == Len(q) + Len(s)
<1>1. /\ Len(r) = n
      /\ \A i \in Len(q) + 1 .. n : i - Len(q) \in 1 .. Len(s) /\ r[i] = s[i - Len(q)]
  BY ConcatProperties
<1> HIDE DEF r
<1> SUFFICES ASSUME NEW i \in Len(q) + 1 .. n
             PROVE  Counted(t, r, i)
  BY AppendedCounted DEF r
<1>2. r[n].type \in Confirming /\ r[n].last
  <2>1. n \in Len(q) + 1 .. n /\ n - Len(q) = Len(s)
    OBVIOUS
  <2> QED
    BY <1>1, <2>1
<1>3. ASSUME NEW j \in i .. n - 1
      PROVE  r[j].type \in Confirming /\ ~r[j].last
  <2>1. j \in Len(q) + 1 .. n /\ j - Len(q) # Len(s)
    OBVIOUS
  <2> QED
    BY <1>1, <2>1
<1>4. r[i].count = Cardinality(Known(t, r, n))
  BY <1>1 DEF r
<1>5. n \in i .. Len(r)
  BY <1>1
<1> QED
  BY <1>2, <1>3, <1>4, <1>5 DEF Counted, EndsRequest

\* Messages count nothing.
LEMMA MessagesCounted ==
    ASSUME NEW t \in SUBSET Names, NEW q \in Seq(Event), NEW s \in Seq(Event), AllCounted(t, q),
           \A i \in 1 .. Len(s) : s[i].type \in {"message", "pmessage"}
    PROVE  AllCounted(t, q \o s)
<1>1. ASSUME NEW i \in Len(q) + 1 .. Len(q) + Len(s)
      PROVE  (q \o s)[i].type \in {"message", "pmessage"}
  <2>1. i - Len(q) \in 1 .. Len(s) /\ (q \o s)[i] = s[i - Len(q)]
    BY ConcatProperties
  <2> QED
    BY <2>1
<1> QED
  BY <1>1, AppendedCounted DEF Counted, Confirming, Starting, Ending

\* The writer takes the first event off, of those that are counted
LEMMA TailCounted ==
    ASSUME NEW t \in SUBSET Names, NEW q \in Seq(Event), q # <<>>, AllCounted(t, q),
           q[1].type \in Starting => q[1].name \in Names
    PROVE  AllCounted(Learn(t, Head(q)), Tail(q))
<1> DEFINE r == Tail(q)
           u == Learn(t, Head(q))
<1>1. /\ Len(q) \in Nat \ {0} /\ Len(r) = Len(q) - 1
      /\ \A i \in 1 .. Len(q) - 1 : r[i] = q[i + 1]
  BY HeadTailProperties, EmptySeq
<1>2. \A i \in 0 .. Len(q) - 1 : Known(u, r, i) = Known(t, q, i + 1)
  BY <1>1, KnownTail
<1> HIDE DEF r, u
<1> SUFFICES ASSUME NEW i \in 1 .. Len(q) - 1, r[i].type \in Confirming
             PROVE  \E n \in i .. Len(r) : EndsRequest(r, i, n) /\ r[i].count = Cardinality(Known(u, r, n))
  BY <1>1 DEF AllCounted, Counted, r, u
<1>3. i + 1 \in 1 .. Len(q) /\ r[i] = q[i + 1]
  BY <1>1
<1>4. PICK n \in i + 1 .. Len(q) :
         EndsRequest(q, i + 1, n) /\ q[i + 1].count = Cardinality(Known(t, q, n))
  BY <1>3 DEF AllCounted, Counted
<1>5. n - 1 \in i .. Len(r) /\ n - 1 \in 0 .. Len(q) - 1 /\ (n - 1) + 1 = n
  BY <1>1
<1>6. Known(u, r, n - 1) = Known(t, q, n)
  BY <1>2, <1>5
<1>7. EndsRequest(r, i, n - 1)
  <2>1. r[n - 1] = q[n]
    BY <1>1, <1>5
  <2>2. ASSUME NEW j \in i .. (n - 1) - 1
        PROVE  r[j].type \in Confirming /\ ~r[j].last
    <3>1. j + 1 \in i + 1 .. n - 1 /\ r[j] = q[j + 1]
      BY <1>1
    <3> QED
      BY <1>4, <3>1 DEF EndsRequest
  <2> QED
    BY <1>4, <2>1, <2>2 DEF EndsRequest
<1> QED
  BY <1>3, <1>4, <1>5, <1>6, <1>7

\* The writer takes the first event off.
LEMMA TailFits ==
    ASSUME NEW t \in SUBSET Names, NEW q \in Seq(Event), q # <<>>, AllFit(t, q)
    PROVE  /\ Learn(t, Head(q)) \in SUBSET Names
           /\ AllFit(Learn(t, Head(q)), Tail(q))
           /\ Known(Learn(t, Head(q)), Tail(q), Len(Tail(q))) = Known(t, q, Len(q))
<1> DEFINE e == q[1]
<1>1. /\ Len(q) \in Nat \ {0} /\ Head(q) = e /\ e \in Event
      /\ Tail(q) \in Seq(Event) /\ Len(Tail(q)) = Len(q) - 1
      /\ \A i \in 1 .. Len(q) - 1 : Tail(q)[i] = q[i + 1]
  BY HeadTailProperties, EmptySeq
<1>2. e.type \in Starting => e.name \in Names
  <2>1. 1 \in 1 .. Len(q)
    BY <1>1
  <2> QED
    BY <2>1 DEF AllFit, Fits
<1>3. Learn(t, e) \in SUBSET Names
  <2>1. e.type \in Starting \cup Ending \cup {"message", "pmessage"}
    BY <1>1 DEF Event, Confirmation, Message, Confirming
  <2> QED
    BY <1>2, <2>1 DEF Learn, Starting, Ending
<1>4. \A i \in 0 .. Len(q) - 1 : Known(Learn(t, e), Tail(q), i) = Known(t, q, i + 1)
  BY <1>1, <1>2, KnownTail
<1>5. ASSUME NEW i \in 1 .. Len(q) - 1
      PROVE  Fits(Tail(q)[i], Known(Learn(t, e), Tail(q), i - 1))
  <2>1. Known(Learn(t, e), Tail(q), i - 1) = Known(t, q, i)
    <3>1. i - 1 \in 0 .. Len(q) - 1 /\ (i - 1) + 1 = i
      OBVIOUS
    <3> QED
      BY <1>4, <3>1
  <2>2. i + 1 \in 1 .. Len(q) /\ (i + 1) - 1 = i
    BY <1>1
  <2>3. Fits(q[i + 1], Known(t, q, i))
    BY <2>2 DEF AllFit
  <2> QED
    BY <1>1, <2>1, <2>3
<1>6. Len(q) - 1 \in 0 .. Len(q) - 1 /\ (Len(q) - 1) + 1 = Len(q)
  BY <1>1
<1> QED
  BY <1>1, <1>3, <1>4, <1>5, <1>6 DEF AllFit

-----------------------------------------------------------------------------
(* The maps of the clients and the senders of the database *)

\* The number a confirmation tells is that of the names in both maps.
LEMMA TotalCounts ==
    ASSUME NEW m1 \in [Channels -> Nat \cup {NoId}], NEW m2 \in [Patterns -> Nat \cup {NoId}]
    PROVE  /\ TotalHeld(m1, m2) = Cardinality(Held(m1) \cup Held(m2))
           /\ TotalHeld(m2, m1) = Cardinality(Held(m1) \cup Held(m2))
           /\ TotalHeld(m1, m2) \in Nat
<1>1. Held(m1) \subseteq Names /\ Held(m2) \subseteq Names /\ Held(m1) \cap Held(m2) = {}
  BY PubSubAssumption DEF Held, Names
<1>2. IsFiniteSet(Held(m1)) /\ IsFiniteSet(Held(m2))
  BY <1>1, PubSubAssumption, FS_Subset
<1>3. Cardinality(Held(m1)) \in Nat /\ Cardinality(Held(m2)) \in Nat
  BY <1>2, FS_CardinalityType
<1>4. Cardinality(Held(m1) \cup Held(m2))
        = Cardinality(Held(m1)) + Cardinality(Held(m2)) - Cardinality({})
  BY <1>1, <1>2, FS_Union
<1>5. Cardinality({}) = 0
  BY FS_EmptySet
<1> QED
  BY <1>3, <1>4, <1>5 DEF TotalHeld

\* Ids stay apart: a new one is above all that were given out.
LEMMA OwnIdsChange ==
    ASSUME NEW D, NEW own \in [Clients -> [D -> Nat \cup {NoId}]], NEW next \in Nat,
           OwnIds(own, next), NEW c \in Clients
    PROVE  /\ \A n \in D : OwnIds([own EXCEPT ![c][n] = next], next + 1)
           /\ \A n \in D : OwnIds([own EXCEPT ![c][n] = NoId], next)
           /\ OwnIds([own EXCEPT ![c] = [m \in D |-> NoId]], next)
           /\ OwnIds(own, next + 1)
<1>1. ASSUME NEW n \in D
      PROVE  OwnIds([own EXCEPT ![c][n] = next], next + 1)
  BY DEF OwnIds, NoId
<1>2. ASSUME NEW n \in D
      PROVE  OwnIds([own EXCEPT ![c][n] = NoId], next)
  BY DEF OwnIds, NoId
<1>3. OwnIds([own EXCEPT ![c] = [m \in D |-> NoId]], next)
  BY DEF OwnIds, NoId
<1>4. OwnIds(own, next + 1)
  BY DEF OwnIds, NoId
<1> QED
  BY <1>1, <1>2, <1>3, <1>4

\* Mirrors is SubscribersMirrored.
LEMMA MirrorsExact ==
    ASSUME TypeOK
    PROVE  Mirrors(subscribers, subscriptions, pc) <=> SubscribersMirrored
<1>1. ASSUME Mirrors(subscribers, subscriptions, pc), NEW ch \in Channels
      PROVE  subscribers[ch] = {[id |-> subscriptions[c][ch], client |-> c] :
                                   c \in {d \in Connected : subscriptions[d][ch] # NoId}}
  <2>1. ASSUME NEW r \in subscribers[ch]
        PROVE  r.client \in Connected /\ subscriptions[r.client][ch] = r.id
    <3>1. r \in Sender
      BY DEF TypeOK
    <3>2. r = [id |-> r.id, client |-> r.client] /\ r.id \in Nat /\ r.client \in Clients
      BY <3>1 DEF Sender
    <3> QED
      BY <1>1, <2>1, <3>2 DEF Mirrors, Connected
  <2>2. \A r \in subscribers[ch] : r = [id |-> r.id, client |-> r.client] /\ r.id \in Nat
    BY DEF TypeOK, Sender
  <2>3. ASSUME NEW c \in Connected, subscriptions[c][ch] # NoId
        PROVE  [id |-> subscriptions[c][ch], client |-> c] \in subscribers[ch]
    <3>1. c \in Clients /\ pc[c] # "gone" /\ subscriptions[c][ch] \in Nat
      BY <2>3 DEF Connected, TypeOK
    <3> QED
      BY <1>1, <3>1 DEF Mirrors
  <2> QED
    BY <2>1, <2>2, <2>3 DEF NoId
<1>2. ASSUME SubscribersMirrored
      PROVE  Mirrors(subscribers, subscriptions, pc)
  <2> SUFFICES ASSUME NEW ch \in Channels, NEW c \in Clients, NEW i \in Nat
               PROVE  [id |-> i, client |-> c] \in subscribers[ch]
                        <=> pc[c] # "gone" /\ subscriptions[c][ch] = i
    BY DEF Mirrors
  <2>1. ASSUME [id |-> i, client |-> c] \in subscribers[ch]
        PROVE  pc[c] # "gone" /\ subscriptions[c][ch] = i
    <3>1. PICK d \in {d \in Connected : subscriptions[d][ch] # NoId} :
                 [id |-> i, client |-> c] = [id |-> subscriptions[d][ch], client |-> d]
      BY <1>2, <2>1 DEF SubscribersMirrored
    <3> QED
      BY <3>1 DEF Connected
  <2>2. ASSUME pc[c] # "gone", subscriptions[c][ch] = i
        PROVE  [id |-> i, client |-> c] \in subscribers[ch]
    <3>1. c \in {d \in Connected : subscriptions[d][ch] # NoId}
      BY <2>2 DEF Connected, NoId
    <3> QED
      BY <1>2, <2>2, <3>1 DEF SubscribersMirrored
  <2> QED
    BY <2>1, <2>2
<1> QED
  BY <1>1, <1>2 DEF SubscribersMirrored

\* A new sender, under the id its client's map takes.
LEMMA RegisterMirrors ==
    ASSUME TypeOK, IdsApart, Mirrors(subscribers, subscriptions, pc),
           NEW ch \in Channels, NEW c \in Clients, pc[c] # "gone", subscriptions[c][ch] = NoId
    PROVE  Mirrors(Register(subscribers, ch, c),
                   [subscriptions EXCEPT ![c][ch] = subscriber_id], pc)
<1> DEFINE S == Register(subscribers, ch, c)
           own == [subscriptions EXCEPT ![c][ch] = subscriber_id]
<1>1. \A d \in Clients, h \in Channels :
         own[d][h] = IF d = c /\ h = ch THEN subscriber_id ELSE subscriptions[d][h]
  BY DEF TypeOK
<1>2. \A h \in Channels :
         S[h] = IF h = ch THEN subscribers[h] \cup {[id |-> subscriber_id, client |-> c]}
                ELSE subscribers[h]
  BY DEF TypeOK, Register
<1> HIDE DEF S, own
<1> SUFFICES ASSUME NEW h \in Channels, NEW d \in Clients, NEW i \in Nat
             PROVE  [id |-> i, client |-> d] \in S[h] <=> pc[d] # "gone" /\ own[d][h] = i
  BY DEF Mirrors, S, own
<1>3. [id |-> i, client |-> d] \in subscribers[h] <=> pc[d] # "gone" /\ subscriptions[d][h] = i
  BY DEF Mirrors
<1>4. [id |-> i, client |-> d] = [id |-> subscriber_id, client |-> c] <=> i = subscriber_id /\ d = c
  OBVIOUS
<1>5. subscriber_id \in Nat
  BY DEF TypeOK
<1>7. i # NoId
  BY DEF NoId
<1> QED
  BY <1>1, <1>2, <1>3, <1>4, <1>5, <1>7

\* The end of a sender and of the id in its client's map.
LEMMA UnregisterMirrors ==
    ASSUME TypeOK, IdsApart, Mirrors(subscribers, subscriptions, pc),
           NEW ch \in Channels, NEW c \in Clients
    PROVE  Mirrors(IF NotSubscribed(c, ch) THEN subscribers
                   ELSE Unregister(subscribers, ch, subscriptions[c][ch]),
                   [subscriptions EXCEPT ![c][ch] = NoId], pc)
<1> DEFINE id == subscriptions[c][ch]
           S == IF NotSubscribed(c, ch) THEN subscribers ELSE Unregister(subscribers, ch, id)
           own == [subscriptions EXCEPT ![c][ch] = NoId]
<1>1. \A d \in Clients, h \in Channels :
         own[d][h] = IF d = c /\ h = ch THEN NoId ELSE subscriptions[d][h]
  BY DEF TypeOK
<1>2. \A h \in Channels :
         S[h] = IF h = ch /\ id # NoId THEN {r \in subscribers[h] : r.id # id} ELSE subscribers[h]
  BY DEF TypeOK, Unregister, NotSubscribed
<1> HIDE DEF S, own
<1> SUFFICES ASSUME NEW h \in Channels, NEW d \in Clients, NEW i \in Nat
             PROVE  [id |-> i, client |-> d] \in S[h] <=> pc[d] # "gone" /\ own[d][h] = i
  BY DEF Mirrors, S, own
<1>3. [id |-> i, client |-> d] \in subscribers[h] <=> pc[d] # "gone" /\ subscriptions[d][h] = i
  BY DEF Mirrors
<1>4. [id |-> i, client |-> d] \in S[h]
         <=> [id |-> i, client |-> d] \in subscribers[h] /\ ~(h = ch /\ id # NoId /\ i = id)
  <2> DEFINE r == [id |-> i, client |-> d]
  <2>1. r.id = i
    OBVIOUS
  <2> HIDE DEF r
  <2>2. r \in S[h] <=> r \in subscribers[h] /\ ~(h = ch /\ id # NoId /\ i = id)
    BY <1>2, <2>1
  <2> QED
    BY <2>2 DEF r
<1>5. d # c /\ id # NoId => id # subscriptions[d][ch]
  BY DEF IdsApart, OwnIds, TypeOK
<1>7. i # NoId
  BY DEF NoId
<1> QED
  BY <1>1, <1>3, <1>4, <1>5, <1>7

\* The end of all senders of a client's map, whose ids are its own.
LEMMA UnregisterAllMirrors ==
    ASSUME TypeOK, IdsApart, Mirrors(subscribers, subscriptions, pc), NEW c \in Clients
    PROVE  /\ Mirrors(UnregisterAll(subscribers, subscriptions[c]),
                      [subscriptions EXCEPT ![c] = [ch \in Channels |-> NoId]], pc)
           /\ Mirrors(UnregisterAll(subscribers, subscriptions[c]),
                      subscriptions, [pc EXCEPT ![c] = "gone"])
<1> DEFINE S == UnregisterAll(subscribers, subscriptions[c])
           own == [subscriptions EXCEPT ![c] = [ch \in Channels |-> NoId]]
           on == [pc EXCEPT ![c] = "gone"]
<1>1. \A d \in Clients, h \in Channels : own[d][h] = IF d = c THEN NoId ELSE subscriptions[d][h]
  BY DEF TypeOK
<1>2. \A d \in Clients : on[d] = IF d = c THEN "gone" ELSE pc[d]
  BY DEF TypeOK
<1>3. \A h \in Channels :
         S[h] = IF subscriptions[c][h] = NoId THEN subscribers[h]
                ELSE {r \in subscribers[h] : r.id # subscriptions[c][h]}
  BY DEF TypeOK, UnregisterAll, Unregister
<1> HIDE DEF S, own, on
<1> SUFFICES ASSUME NEW h \in Channels, NEW d \in Clients, NEW i \in Nat
             PROVE  /\ [id |-> i, client |-> d] \in S[h] <=> pc[d] # "gone" /\ own[d][h] = i
                    /\ [id |-> i, client |-> d] \in S[h] <=> on[d] # "gone" /\ subscriptions[d][h] = i
  BY DEF Mirrors, S, own, on
<1>4. [id |-> i, client |-> d] \in subscribers[h] <=> pc[d] # "gone" /\ subscriptions[d][h] = i
  BY DEF Mirrors
<1>5. [id |-> i, client |-> d] \in S[h]
         <=> /\ [id |-> i, client |-> d] \in subscribers[h]
             /\ ~(subscriptions[c][h] # NoId /\ i = subscriptions[c][h])
  <2> DEFINE r == [id |-> i, client |-> d]
  <2>1. r.id = i
    OBVIOUS
  <2> HIDE DEF r
  <2>2. r \in S[h] <=> /\ r \in subscribers[h]
                       /\ ~(subscriptions[c][h] # NoId /\ i = subscriptions[c][h])
    BY <1>3, <2>1
  <2> QED
    BY <2>2 DEF r
<1>6. d # c /\ subscriptions[c][h] # NoId => subscriptions[c][h] # subscriptions[d][h]
  BY DEF IdsApart, OwnIds, TypeOK
<1>7. i # NoId
  BY DEF NoId
<1> QED
  BY <1>1, <1>2, <1>4, <1>5, <1>6, <1>7

\* The same for patterns, where what a map holds is registered.
LEMMA RegisteredChanges ==
    ASSUME TypeOK, IdsApart, Registered(pattern_subscribers, pattern_subscriptions),
           NEW c \in Clients
    PROVE  /\ \A p \in Patterns :
                 /\ Registered(Register(pattern_subscribers, p, c),
                               [pattern_subscriptions EXCEPT ![c][p] = subscriber_id])
                 /\ Registered(IF pattern_subscriptions[c][p] = NoId THEN pattern_subscribers
                               ELSE Unregister(pattern_subscribers, p, pattern_subscriptions[c][p]),
                               [pattern_subscriptions EXCEPT ![c][p] = NoId])
           /\ Registered(UnregisterAll(pattern_subscribers, pattern_subscriptions[c]),
                         [pattern_subscriptions EXCEPT ![c] = [p \in Patterns |-> NoId]])
<1> DEFINE held == pattern_subscriptions
           all == UnregisterAll(pattern_subscribers, held[c])
           none == [held EXCEPT ![c] = [p \in Patterns |-> NoId]]
<1>1. ASSUME NEW p \in Patterns
      PROVE  Registered(Register(pattern_subscribers, p, c), [held EXCEPT ![c][p] = subscriber_id])
  BY DEF Registered, Register, TypeOK
<1>2. ASSUME NEW d \in Clients, NEW q \in Patterns, NEW id, held[d][q] # NoId, held[d][q] # id,
             NEW S, S = {r \in pattern_subscribers[q] : r.id # id}
      PROVE  [id |-> held[d][q], client |-> d] \in S
  <2> DEFINE r == [id |-> held[d][q], client |-> d]
  <2>1. r \in pattern_subscribers[q] /\ r.id = held[d][q]
    BY <1>2 DEF Registered
  <2> HIDE DEF r
  <2>2. r \in S
    BY <1>2, <2>1
  <2> QED
    BY <2>2 DEF r
<1>3. \A d \in Clients, q \in Patterns :
         d # c /\ held[c][q] # NoId => held[c][q] # held[d][q]
  BY DEF IdsApart, OwnIds, TypeOK
<1>4. ASSUME NEW p \in Patterns
      PROVE  Registered(IF held[c][p] = NoId THEN pattern_subscribers
                        ELSE Unregister(pattern_subscribers, p, held[c][p]),
                        [held EXCEPT ![c][p] = NoId])
  <2> DEFINE own == [held EXCEPT ![c][p] = NoId]
             S == IF held[c][p] = NoId THEN pattern_subscribers
                  ELSE Unregister(pattern_subscribers, p, held[c][p])
  <2>1. \A d \in Clients, q \in Patterns : own[d][q] = IF d = c /\ q = p THEN NoId ELSE held[d][q]
    BY DEF TypeOK
  <2>2. \A q \in Patterns :
           S[q] = IF q = p /\ held[c][p] # NoId THEN {r \in pattern_subscribers[q] : r.id # held[c][p]}
                  ELSE pattern_subscribers[q]
    BY DEF TypeOK, Unregister
  <2> HIDE DEF own, S
  <2>3. ASSUME NEW d \in Clients, NEW q \in Patterns, own[d][q] # NoId
        PROVE  [id |-> own[d][q], client |-> d] \in S[q]
    <3>1. own[d][q] = held[d][q] /\ ~(d = c /\ q = p)
      BY <2>1, <2>3
    <3>2. CASE q = p /\ held[c][p] # NoId
      <4>1. held[d][q] # held[c][p]
        BY <1>3, <3>1, <3>2
      <4> QED
        BY <1>2, <2>2, <2>3, <3>1, <3>2, <4>1
    <3>3. CASE ~(q = p /\ held[c][p] # NoId)
      BY <2>2, <2>3, <3>1, <3>3 DEF Registered
    <3> QED
      BY <3>2, <3>3
  <2> QED
    BY <2>3 DEF Registered, own, S
<1>5. Registered(all, none)
  <2>1. \A d \in Clients, q \in Patterns : none[d][q] = IF d = c THEN NoId ELSE held[d][q]
    BY DEF TypeOK
  <2>2. \A q \in Patterns :
           all[q] = IF held[c][q] # NoId THEN {r \in pattern_subscribers[q] : r.id # held[c][q]}
                    ELSE pattern_subscribers[q]
    BY DEF TypeOK, UnregisterAll, Unregister
  <2> HIDE DEF all, none
  <2>3. ASSUME NEW d \in Clients, NEW q \in Patterns, none[d][q] # NoId
        PROVE  [id |-> none[d][q], client |-> d] \in all[q]
    <3>1. none[d][q] = held[d][q] /\ d # c
      BY <2>1, <2>3
    <3>2. CASE held[c][q] # NoId
      <4>1. held[d][q] # held[c][q]
        BY <1>3, <3>1, <3>2
      <4> QED
        BY <1>2, <2>2, <2>3, <3>1, <3>2, <4>1
    <3>3. CASE held[c][q] = NoId
      BY <2>2, <2>3, <3>1, <3>3 DEF Registered
    <3> QED
      BY <3>2, <3>3
  <2> QED
    BY <2>3 DEF Registered
<1> QED
  BY <1>1, <1>4, <1>5

\* The senders under a name stay a finite set of senders.
LEMMA SendersChange ==
    ASSUME NEW D, NEW S \in [D -> SUBSET Sender], \A n \in D : IsFiniteSet(S[n]),
           subscriber_id \in Nat, NEW c \in Clients
    PROVE  /\ \A n \in D : /\ Register(S, n, c) \in [D -> SUBSET Sender]
                           /\ \A m \in D : IsFiniteSet(Register(S, n, c)[m])
           /\ \A n \in D : \A id : /\ Unregister(S, n, id) \in [D -> SUBSET Sender]
                                   /\ \A m \in D : IsFiniteSet(Unregister(S, n, id)[m])
           /\ \A own : /\ UnregisterAll(S, own) \in [D -> SUBSET Sender]
                       /\ \A m \in D : IsFiniteSet(UnregisterAll(S, own)[m])
<1>1. ASSUME NEW n \in D
      PROVE  /\ Register(S, n, c) \in [D -> SUBSET Sender]
             /\ \A m \in D : IsFiniteSet(Register(S, n, c)[m])
  <2>1. [id |-> subscriber_id, client |-> c] \in Sender
    BY DEF Sender
  <2>2. Register(S, n, c) \in [D -> SUBSET Sender]
    BY <2>1 DEF Register
  <2>3. \A m \in D : Register(S, n, c)[m] =
           IF m = n THEN S[m] \cup {[id |-> subscriber_id, client |-> c]} ELSE S[m]
    BY DEF Register
  <2>4. IsFiniteSet(S[n] \cup {[id |-> subscriber_id, client |-> c]})
    BY FS_AddElement
  <2> QED
    BY <2>2, <2>3, <2>4
<1>2. ASSUME NEW T \in SUBSET Sender, IsFiniteSet(T), NEW id
      PROVE  IsFiniteSet({r \in T : r.id # id})
  BY <1>2, FS_Subset
<1>3. ASSUME NEW n \in D, NEW id
      PROVE  /\ Unregister(S, n, id) \in [D -> SUBSET Sender]
             /\ \A m \in D : IsFiniteSet(Unregister(S, n, id)[m])
             /\ Unregister(S, n, id)[n] = {r \in S[n] : r.id # id}
  <2>1. Unregister(S, n, id) \in [D -> SUBSET Sender]
    BY DEF Unregister
  <2>2. \A m \in D : Unregister(S, n, id)[m] = IF m = n THEN {r \in S[m] : r.id # id} ELSE S[m]
    BY DEF Unregister
  <2>3. IsFiniteSet({r \in S[n] : r.id # id})
    BY <1>2
  <2> QED
    BY <2>1, <2>2, <2>3
<1>4. ASSUME NEW own
      PROVE  /\ UnregisterAll(S, own) \in [D -> SUBSET Sender]
             /\ \A m \in D : IsFiniteSet(UnregisterAll(S, own)[m])
  <2>1. UnregisterAll(S, own) = [m \in D |-> IF own[m] = NoId THEN S[m] ELSE Unregister(S, m, own[m])[m]]
    BY DEF UnregisterAll
  <2> QED
    BY <1>3, <2>1
<1> QED
  BY <1>1, <1>3, <1>4

\* Every order of a finite set is a sequence of its members, in which all come.
LEMMA OrdersOf ==
    ASSUME NEW S, IsFiniteSet(S), NEW f \in Orders(S)
    PROVE  /\ Cardinality(S) \in Nat
           /\ f \in Seq(S) /\ Len(f) = Cardinality(S)
           /\ DOMAIN f = 1 .. Cardinality(S)
           /\ S = {f[i] : i \in 1 .. Cardinality(S)}
<1>1. Cardinality(S) \in Nat
  BY FS_CardinalityType
<1>2. f \in [1 .. Cardinality(S) -> S] /\ \A x \in S : \E i \in DOMAIN f : f[i] = x
  BY DEF Orders
<1> QED
  BY <1>1, <1>2

\* What UNSUBSCRIBE and PUNSUBSCRIBE without arguments confirm is what the map held.
LEMMA DrainedNames ==
    ASSUME NEW type \in Ending, NEW D \in {Channels, Patterns}, NEW D2 \in {Channels, Patterns},
           D \cap D2 = {},
           NEW own \in [D -> Nat \cup {NoId}], NEW others \in [D2 -> Nat \cup {NoId}],
           NEW events \in DrainReplies(type, own, others)
    PROVE  /\ events \in Seq(Event)
           /\ \A i \in 1 .. Len(events) :
                 /\ events[i].type \in Ending /\ (events[i].last <=> i = Len(events))
                 /\ events[i].count = Cardinality(Held(others))
           /\ (Held(own) \cup Held(others)) \ {events[i].name : i \in 1 .. Len(events)} = Held(others)
<1>1. Held(own) \subseteq Names /\ Held(others) \subseteq Names /\ Held(own) \cap Held(others) = {}
  BY PubSubAssumption DEF Held, Names
<1>2. IsFiniteSet(Held(own)) /\ Cardinality(Held(others)) \in Nat
  BY <1>1, PubSubAssumption, FS_Subset, FS_CardinalityType
<1>3. CASE Held(own) = {}
  <2>1. events = <<Confirm(type, NoName, Cardinality(Held(others)), TRUE)>>
    BY <1>3 DEF DrainReplies, DrainCount
  <2>2. Confirm(type, NoName, Cardinality(Held(others)), TRUE) \in Event
    BY <1>2 DEF Confirm, Event, Confirmation, Confirming
  <2>3. /\ events \in Seq(Event) /\ Len(events) = 1 /\ events[1].name = NoName /\ events[1].type = type
        /\ events[1].last /\ events[1].count = Cardinality(Held(others))
    BY <2>1, <2>2 DEF Confirm
  <2>4. {events[i].name : i \in 1 .. Len(events)} = {NoName}
    BY <2>3
  <2> QED
    BY <1>1, <1>3, <2>3, <2>4, PubSubAssumption
<1>4. CASE Held(own) # {}
  <2> DEFINE n == Cardinality(Held(own))
  <2>1. PICK order \in Orders(Held(own)) :
               events = [i \in 1 .. n |-> Confirm(type, order[i], Cardinality(Held(others)), i = n)]
    BY <1>4 DEF DrainReplies, DrainCount
  <2>2. n \in Nat /\ Held(own) = {order[i] : i \in 1 .. n}
    BY <1>2, OrdersOf
  <2>3. \A i \in 1 .. n : Confirm(type, order[i], Cardinality(Held(others)), i = n) \in Event
    BY <1>1, <1>2, <2>2 DEF Confirm, Event, Confirmation, Confirming
  <2>4. events \in Seq(Event) /\ Len(events) = n
    BY <2>1, <2>2, <2>3
  <2>5. \A i \in 1 .. n : /\ events[i].type = type /\ events[i].name = order[i]
                          /\ events[i].last = (i = n) /\ events[i].count = Cardinality(Held(others))
    BY <2>1 DEF Confirm
  <2>6. {events[i].name : i \in 1 .. Len(events)} = Held(own)
    BY <2>2, <2>4, <2>5
  <2> QED
    BY <1>1, <2>4, <2>5, <2>6
<1> QED
  BY <1>3, <1>4

\* One PUBLISH reaches finitely many senders.
LEMMA RoutesFinite ==
    ASSUME TypeOK, FinitelyMany, NEW ch \in Channels
    PROVE  IsFiniteSet(Routes(ch))
<1>1. ASSUME NEW S, IsFiniteSet(S), NEW m
      PROVE  IsFiniteSet({<<r, m>> : r \in S})
  <2> DEFINE T == {<<r, m>> : r \in S}
             f == [r \in S |-> <<r, m>>]
  <2>1. f \in Surjection(S, T)
    BY DEF Surjection
  <2> QED
    BY <1>1, <2>1, FS_Surjection
<1> DEFINE direct == {<<r, [type |-> "message", name |-> ch]>> : r \in subscribers[ch]}
           of(p) == {<<r, [type |-> "pmessage", name |-> p]>> : r \in pattern_subscribers[p]}
           matching == {q \in Patterns : <<q, ch>> \in Match}
           byPattern == {of(p) : p \in matching}
<1>2. IsFiniteSet(direct)
  BY <1>1 DEF FinitelyMany
<1>3. \A p \in Patterns : IsFiniteSet(of(p))
  BY <1>1 DEF FinitelyMany
<1>4. IsFiniteSet(matching)
  BY PubSubAssumption, FS_Subset DEF Names
<1>5. IsFiniteSet(byPattern)
  <2> DEFINE g == [p \in matching |-> of(p)]
  <2>1. g \in Surjection(matching, byPattern)
    BY DEF Surjection
  <2> HIDE DEF byPattern, g, matching
  <2> QED
    BY <1>4, <2>1, FS_Surjection
<1>6. IsFiniteSet(UNION byPattern)
  BY <1>3, <1>5, FS_UNION
<1>7. Routes(ch) = direct \cup UNION byPattern
  BY DEF Routes
<1> HIDE DEF direct, byPattern
<1> QED
  BY <1>2, <1>6, <1>7, FS_Union

\* What it sends to a client are messages of patterns, and those of the channel if
\* a sender under it is the client's.
LEMMA DeliveriesOf ==
    ASSUME TypeOK, FinitelyMany, NEW ch \in Channels, NEW c \in Clients,
           NEW s \in Deliveries(ch, c)
    PROVE  /\ s \in Seq(Event)
           /\ \A i \in 1 .. Len(s) :
                 /\ s[i].type \in {"message", "pmessage"}
                 /\ s[i].type = "message" =>
                       s[i].name = ch /\ \E r \in subscribers[ch] : r.client = c
<1> DEFINE S == {m \in Routes(ch) : m[1].client = c}
<1>1. IsFiniteSet(S)
  BY RoutesFinite, FS_Subset
<1>2. PICK order \in Orders(S) : s = [i \in DOMAIN order |-> order[i][2]]
  BY DEF Deliveries
<1> DEFINE n == Cardinality(S)
<1>3. n \in Nat /\ DOMAIN order = 1 .. n /\ \A i \in 1 .. n : order[i] \in S
  <2>1. order \in [1 .. n -> S]
    BY <1>2 DEF Orders
  <2>2. n \in Nat
    BY <1>1, FS_CardinalityType
  <2> QED
    BY <2>1, <2>2
<1>4. ASSUME NEW m \in S
      PROVE  /\ m[2] \in Event
             /\ m[2].type \in {"message", "pmessage"}
             /\ m[2].type = "message" => m[2].name = ch /\ \E r \in subscribers[ch] : r.client = c
  <2>1. CASE m \in {<<r, [type |-> "message", name |-> ch]>> : r \in subscribers[ch]}
    <3>1. PICK r \in subscribers[ch] : m = <<r, [type |-> "message", name |-> ch]>>
      BY <2>1
    <3>2. m[1] = r /\ m[2] = [type |-> "message", name |-> ch]
      BY <3>1
    <3>3. m[2] \in Message
      BY <3>2 DEF Message, Names
    <3> QED
      BY <3>2, <3>3 DEF Event
  <2>2. CASE \E p \in Patterns : \E r \in pattern_subscribers[p] :
                m = <<r, [type |-> "pmessage", name |-> p]>>
    <3>1. PICK p \in Patterns : \E r \in pattern_subscribers[p] :
                m = <<r, [type |-> "pmessage", name |-> p]>>
      BY <2>2
    <3>2. m[2] = [type |-> "pmessage", name |-> p]
      BY <3>1
    <3>3. m[2] \in Message
      BY <3>2 DEF Message, Names
    <3> QED
      BY <3>2, <3>3 DEF Event
  <2>3. \/ m \in {<<r, [type |-> "message", name |-> ch]>> : r \in subscribers[ch]}
        \/ \E p \in Patterns : m \in {<<r, [type |-> "pmessage", name |-> p]>> : r \in pattern_subscribers[p]}
    BY DEF Routes
  <2> QED
    BY <2>1, <2>2, <2>3
<1> HIDE DEF S, n
<1>5. /\ s = [i \in 1 .. n |-> order[i][2]]
      /\ \A i \in 1 .. n : s[i] = order[i][2]
  BY <1>2, <1>3
<1>6. s \in Seq(Event) /\ Len(s) = n
  BY <1>3, <1>4, <1>5
<1> QED
  BY <1>3, <1>4, <1>5, <1>6

-----------------------------------------------------------------------------
(* The steps *)

\* A stream that takes or gives what fits keeps its reader and its client agreed.
LEMMA SendKeeps ==
    ASSUME IInv, NEW c \in Clients, NEW events \in Seq(Event), Send(c, events),
           AllFit(told[c], stream[c] \o events), AllCounted(told[c], stream[c] \o events),
           Known(told[c], stream[c] \o events, Len(stream[c] \o events)) = HeldBy(c)',
           \A d \in Clients \ {c} : HeldBy(d)' = HeldBy(d),
           UNCHANGED told
    PROVE  StreamInv' /\ stream' \in [Clients -> Seq(Event)]
<1>1. stream[c] \o events \in Seq(Event)
  BY ConcatProperties DEF IInv, TypeOK
<1>2. /\ stream' \in [Clients -> Seq(Event)]
      /\ stream'[c] = stream[c] \o events
      /\ \A d \in Clients \ {c} : stream'[d] = stream[d]
  BY <1>1 DEF Send, IInv, TypeOK
<1> QED
  BY <1>2 DEF StreamInv, IInv, HeldBy

\* In particular one confirmation of a name that the map takes or gives up.
LEMMA ConfirmKeeps ==
    ASSUME IInv, NEW c \in Clients, NEW type \in Confirming, NEW n \in Names, NEW count \in Nat,
           Send(c, <<Confirm(type, n, count, TRUE)>>), UNCHANGED told,
           HeldBy(c)' = IF type \in Starting THEN HeldBy(c) \cup {n} ELSE HeldBy(c) \ {n},
           count = Cardinality(HeldBy(c)'),
           \A d \in Clients \ {c} : HeldBy(d)' = HeldBy(d)
    PROVE  StreamInv' /\ stream' \in [Clients -> Seq(Event)]
<1> DEFINE e == Confirm(type, n, count, TRUE)
<1>1. e \in Event /\ e.type = type /\ e.name = n /\ e.count = count /\ e.last
  BY DEF Confirm, Event, Confirmation
<1>2. <<e>> \in Seq(Event)
  <2> HIDE DEF e
  <2> QED
    BY <1>1
<1>3. /\ AllFit(told[c], stream[c]) /\ AllCounted(told[c], stream[c])
      /\ Known(told[c], stream[c], Len(stream[c])) = HeldBy(c)
  BY DEF IInv, StreamInv
<1>4. Learn(HeldBy(c), e) = HeldBy(c)'
  BY <1>1 DEF Learn, Confirming, Starting, Ending
<1>5. Fits(e, HeldBy(c))
  BY <1>1 DEF Fits, Confirming, Starting, Ending
<1>6. told[c] \in SUBSET Names /\ stream[c] \in Seq(Event)
  BY DEF IInv, TypeOK
<1>7. Send(c, <<e>>)
  OBVIOUS
<1> HIDE DEF e
<1>8. /\ AllFit(told[c], stream[c] \o <<e>>)
      /\ Known(told[c], stream[c] \o <<e>>, Len(stream[c] \o <<e>>)) = HeldBy(c)'
  <2>1. Fits(e, Known(told[c], stream[c], Len(stream[c])))
    BY <1>3, <1>5
  <2> QED
    BY ZenonT(30), <1>1, <1>3, <1>4, <1>6, <2>1, OneFits
<1>9. AllCounted(told[c], stream[c] \o <<e>>)
  <2>1. Len(<<e>>) = 1 /\ <<e>>[1] = e
    OBVIOUS
  <2>2. \A i \in 1 .. Len(<<e>>) :
           /\ <<e>>[i].type \in Confirming /\ (<<e>>[i].last <=> i = Len(<<e>>))
           /\ <<e>>[i].count = Cardinality(Known(told[c], stream[c] \o <<e>>, Len(stream[c] \o <<e>>)))
    BY <1>1, <1>8, <2>1
  <2> QED
    BY <1>2, <1>3, <1>6, <2>2, RequestCounted
<1> QED
  BY <1>2, <1>7, <1>8, <1>9, SendKeeps

LEMMA SubscribeKeeps ==
    ASSUME IInv, NEW c \in Clients, NEW ch \in Channels, Subscribe(c, ch)
    PROVE  IInv'
<1> DEFINE count == TotalHeld(pattern_subscriptions[c], subscriptions'[c])
           held == Held(subscriptions[c])
<1>1. /\ TypeOK /\ IdsApart /\ FinitelyMany /\ pc[c] = "open"
      /\ Mirrors(subscribers, subscriptions, pc)
      /\ Registered(pattern_subscribers, pattern_subscriptions)
  BY DEF IInv, Subscribe
<1>2. /\ Send(c, <<Confirm("subscribe", ch, count, TRUE)>>)
      /\ UNCHANGED <<pattern_subscribers, pattern_subscriptions, pc, writer, told>>
  BY DEF Subscribe
<1>3. /\ subscribers' \in [Channels -> SUBSET Sender]
      /\ \A h \in Channels : IsFiniteSet(subscribers'[h])
      /\ subscriptions' \in [Clients -> [Channels -> Nat \cup {NoId}]]
      /\ subscriber_id' \in Nat
      /\ OwnIds(subscriptions, subscriber_id)'
      /\ OwnIds(pattern_subscriptions, subscriber_id)'
      /\ Mirrors(subscribers, subscriptions, pc)'
      /\ Held(subscriptions'[c]) = held \cup {ch}
      /\ \A d \in Clients \ {c} : subscriptions'[d] = subscriptions[d]
  <2>1. CASE NotSubscribed(c, ch)
    <3>1. /\ subscribers' = Register(subscribers, ch, c)
          /\ subscriptions' = [subscriptions EXCEPT ![c][ch] = subscriber_id]
          /\ subscriber_id' = subscriber_id + 1
      BY <2>1 DEF Subscribe
    <3>2. subscribers' \in [Channels -> SUBSET Sender] /\ \A h \in Channels : IsFiniteSet(subscribers'[h])
      BY <1>1, <3>1, SendersChange DEF TypeOK, FinitelyMany
    <3>3. /\ subscriptions' \in [Clients -> [Channels -> Nat \cup {NoId}]]
          /\ subscriber_id' \in Nat
          /\ subscriptions'[c] = [subscriptions[c] EXCEPT ![ch] = subscriber_id]
          /\ \A d \in Clients \ {c} : subscriptions'[d] = subscriptions[d]
      BY <1>1, <3>1 DEF TypeOK
    <3>4. OwnIds(subscriptions, subscriber_id)' /\ OwnIds(pattern_subscriptions, subscriber_id)'
      BY <1>1, <1>2, <3>1, OwnIdsChange DEF TypeOK, IdsApart
    <3>5. Mirrors(subscribers, subscriptions, pc)'
      BY <1>1, <1>2, <2>1, <3>1, RegisterMirrors DEF NotSubscribed
    <3>6. Held(subscriptions'[c]) = held \cup {ch}
      <4>1. subscriptions[c] \in [Channels -> Nat \cup {NoId}] /\ subscriber_id \in Nat
        BY <1>1 DEF TypeOK
      <4>2. Held([subscriptions[c] EXCEPT ![ch] = subscriber_id]) = held \cup {ch}
        BY <4>1 DEF Held, NoId
      <4> QED
        BY <3>3, <4>2
    <3> QED
      BY <3>2, <3>3, <3>4, <3>5, <3>6
  <2>2. CASE ~NotSubscribed(c, ch)
    <3>1. UNCHANGED <<subscribers, subscriptions, subscriber_id>>
      BY <2>2 DEF Subscribe
    <3>2. ch \in held
      BY <1>1, <2>2 DEF Held, NotSubscribed, TypeOK
    <3> QED
      BY <1>1, <1>2, <3>1, <3>2 DEF TypeOK, IdsApart, FinitelyMany
  <2> QED
    BY <2>1, <2>2
<1>4. /\ HeldBy(c)' = HeldBy(c) \cup {ch}
      /\ \A d \in Clients \ {c} : HeldBy(d)' = HeldBy(d)
  BY <1>2, <1>3 DEF HeldBy
<1>5. count = Cardinality(HeldBy(c)') /\ count \in Nat
  BY <1>1, <1>2, <1>3, TotalCounts DEF HeldBy, TypeOK
<1>6. StreamInv' /\ stream' \in [Clients -> Seq(Event)]
  <2>1. "subscribe" \in Starting /\ "subscribe" \in Confirming /\ ch \in Names
    BY DEF Confirming, Starting, Names
  <2> HIDE DEF count
  <2> QED
    BY <1>2, <1>4, <1>5, <2>1, ConfirmKeeps
<1>7. TypeOK'
  BY <1>1, <1>2, <1>3, <1>6 DEF TypeOK
<1>8. FinitelyMany' /\ IdsApart' /\ Registered(pattern_subscribers, pattern_subscriptions)'
  BY <1>1, <1>2, <1>3 DEF FinitelyMany, IdsApart
<1> QED
  BY <1>3, <1>6, <1>7, <1>8 DEF IInv

LEMMA UnsubscribeKeeps ==
    ASSUME IInv, NEW c \in Clients, NEW ch \in Channels, Unsubscribe(c, ch)
    PROVE  IInv'
<1> DEFINE count == TotalHeld(pattern_subscriptions[c], subscriptions'[c])
           held == Held(subscriptions[c])
<1>1. /\ TypeOK /\ IdsApart /\ FinitelyMany
      /\ Mirrors(subscribers, subscriptions, pc)
      /\ Registered(pattern_subscribers, pattern_subscriptions)
  BY DEF IInv
<1>2. /\ Send(c, <<Confirm("unsubscribe", ch, count, TRUE)>>)
      /\ UNCHANGED <<pattern_subscribers, subscriber_id, pattern_subscriptions, pc, writer, told>>
      /\ subscriptions' = [subscriptions EXCEPT ![c][ch] = NoId]
      /\ subscribers' = IF NotSubscribed(c, ch) THEN subscribers
                        ELSE Unregister(subscribers, ch, subscriptions[c][ch])
  BY DEF Unsubscribe
<1>3. subscribers' \in [Channels -> SUBSET Sender] /\ \A h \in Channels : IsFiniteSet(subscribers'[h])
  BY <1>1, <1>2, SendersChange DEF TypeOK, FinitelyMany
<1>4. /\ subscriptions' \in [Clients -> [Channels -> Nat \cup {NoId}]]
      /\ subscriptions'[c] = [subscriptions[c] EXCEPT ![ch] = NoId]
      /\ \A d \in Clients \ {c} : subscriptions'[d] = subscriptions[d]
  BY <1>1, <1>2 DEF TypeOK
<1>5. IdsApart'
  BY <1>1, <1>2, OwnIdsChange DEF TypeOK, IdsApart
<1>6. Mirrors(subscribers, subscriptions, pc)'
  BY <1>1, <1>2, UnregisterMirrors
<1>7. Held(subscriptions'[c]) = held \ {ch}
  <2>1. subscriptions[c] \in [Channels -> Nat \cup {NoId}]
    BY <1>1 DEF TypeOK
  <2>2. Held([subscriptions[c] EXCEPT ![ch] = NoId]) = held \ {ch}
    BY <2>1 DEF Held
  <2> QED
    BY <1>4, <2>2
<1>8. ch \notin Held(pattern_subscriptions[c])
  BY <1>1, PubSubAssumption DEF TypeOK, Held
<1>9. /\ HeldBy(c)' = HeldBy(c) \ {ch}
      /\ \A d \in Clients \ {c} : HeldBy(d)' = HeldBy(d)
  BY <1>2, <1>4, <1>7, <1>8 DEF HeldBy
<1>10. count = Cardinality(HeldBy(c)') /\ count \in Nat
  <2>1. /\ subscriptions'[c] \in [Channels -> Nat \cup {NoId}]
        /\ pattern_subscriptions[c] \in [Patterns -> Nat \cup {NoId}]
    BY <1>1, <1>4 DEF TypeOK
  <2>2. /\ count = Cardinality(Held(subscriptions'[c]) \cup Held(pattern_subscriptions[c]))
        /\ TotalHeld(subscriptions'[c], pattern_subscriptions[c]) \in Nat
        /\ TotalHeld(subscriptions'[c], pattern_subscriptions[c])
             = Cardinality(Held(subscriptions'[c]) \cup Held(pattern_subscriptions[c]))
    BY <2>1, TotalCounts
  <2>3. HeldBy(c)' = Held(subscriptions'[c]) \cup Held(pattern_subscriptions[c])
    BY <1>2 DEF HeldBy, Held
  <2> QED
    BY <2>2, <2>3
<1>11. StreamInv' /\ stream' \in [Clients -> Seq(Event)]
  <2>1. "unsubscribe" \in Confirming /\ "unsubscribe" \notin Starting /\ ch \in Names
    BY DEF Confirming, Starting, Ending, Names
  <2> HIDE DEF count
  <2> QED
    BY <1>2, <1>9, <1>10, <2>1, ConfirmKeeps
<1>12. TypeOK'
  BY <1>1, <1>2, <1>3, <1>4, <1>11 DEF TypeOK
<1>13. FinitelyMany' /\ Registered(pattern_subscribers, pattern_subscriptions)'
  BY <1>1, <1>2, <1>3 DEF FinitelyMany
<1> QED
  BY <1>5, <1>6, <1>11, <1>12, <1>13 DEF IInv

LEMMA UnsubscribeAllKeeps ==
    ASSUME IInv, NEW c \in Clients, UnsubscribeAll(c)
    PROVE  IInv'
<1> DEFINE none == [ch \in Channels |-> NoId]
<1>1. /\ TypeOK /\ IdsApart /\ FinitelyMany
      /\ Mirrors(subscribers, subscriptions, pc)
      /\ Registered(pattern_subscribers, pattern_subscriptions)
  BY DEF IInv
<1>2. /\ UNCHANGED <<pattern_subscribers, subscriber_id, pattern_subscriptions, pc, writer, told>>
      /\ subscriptions' = [subscriptions EXCEPT ![c] = none]
      /\ subscribers' = UnregisterAll(subscribers, subscriptions[c])
  BY DEF UnsubscribeAll
<1>3. PICK events \in DrainReplies("unsubscribe", subscriptions[c], pattern_subscriptions[c]) :
             Send(c, events)
  BY DEF UnsubscribeAll
<1>4. subscribers' \in [Channels -> SUBSET Sender] /\ \A h \in Channels : IsFiniteSet(subscribers'[h])
  BY <1>1, <1>2, SendersChange DEF TypeOK, FinitelyMany
<1>5. /\ subscriptions' \in [Clients -> [Channels -> Nat \cup {NoId}]]
      /\ subscriptions'[c] = none
      /\ \A d \in Clients \ {c} : subscriptions'[d] = subscriptions[d]
  BY <1>1, <1>2 DEF TypeOK
<1>6. IdsApart'
  BY <1>1, <1>2, OwnIdsChange DEF TypeOK, IdsApart
<1>7. Mirrors(subscribers, subscriptions, pc)'
  BY <1>1, <1>2, UnregisterAllMirrors
<1>8. /\ HeldBy(c)' = Held(pattern_subscriptions[c])
      /\ \A d \in Clients \ {c} : HeldBy(d)' = HeldBy(d)
  <2>1. Held(none) = {}
    BY DEF Held
  <2> QED
    BY <1>2, <1>5, <2>1 DEF HeldBy
<1>9. /\ events \in Seq(Event)
      /\ \A i \in 1 .. Len(events) :
            /\ events[i].type \in Ending /\ (events[i].last <=> i = Len(events))
            /\ events[i].count = Cardinality(Held(pattern_subscriptions[c]))
      /\ HeldBy(c) \ {events[i].name : i \in 1 .. Len(events)} = Held(pattern_subscriptions[c])
  <2>1. "unsubscribe" \in Ending /\ Channels \cap Patterns = {}
    BY PubSubAssumption DEF Ending
  <2>2. subscriptions[c] \in [Channels -> Nat \cup {NoId}] /\ pattern_subscriptions[c] \in [Patterns -> Nat \cup {NoId}]
    BY <1>1 DEF TypeOK
  <2> QED
    BY <2>1, <2>2, DrainedNames DEF HeldBy
<1>10. StreamInv' /\ stream' \in [Clients -> Seq(Event)]
  <2>1. /\ told[c] \in SUBSET Names /\ stream[c] \in Seq(Event)
        /\ AllFit(told[c], stream[c]) /\ AllCounted(told[c], stream[c])
        /\ Known(told[c], stream[c], Len(stream[c])) = HeldBy(c)
    BY DEF IInv, TypeOK, StreamInv
  <2>2. /\ AllFit(told[c], stream[c] \o events)
        /\ Known(told[c], stream[c] \o events, Len(stream[c] \o events)) = HeldBy(c)'
    <3>1. /\ AllFit(told[c], stream[c] \o events)
          /\ Known(told[c], stream[c] \o events, Len(stream[c] \o events))
               = Known(told[c], stream[c], Len(stream[c])) \ {events[i].name : i \in 1 .. Len(events)}
      BY <1>9, <2>1, DrainFits
    <3> QED
      BY <1>8, <1>9, <2>1, <3>1
  <2>3. AllCounted(told[c], stream[c] \o events)
    BY <1>8, <1>9, <2>1, <2>2, RequestCounted DEF Confirming
  <2> QED
    BY <1>2, <1>3, <1>8, <1>9, <2>2, <2>3, SendKeeps
<1>11. TypeOK'
  BY <1>1, <1>2, <1>4, <1>5, <1>10 DEF TypeOK
<1>12. FinitelyMany' /\ Registered(pattern_subscribers, pattern_subscriptions)'
  BY <1>1, <1>2, <1>4 DEF FinitelyMany
<1> QED
  BY <1>6, <1>7, <1>10, <1>11, <1>12 DEF IInv

LEMMA PsubscribeKeeps ==
    ASSUME IInv, NEW c \in Clients, NEW p \in Patterns, Psubscribe(c, p)
    PROVE  IInv'
<1> DEFINE count == TotalHeld(subscriptions[c], pattern_subscriptions'[c])
           held == Held(pattern_subscriptions[c])
<1>1. /\ TypeOK /\ IdsApart /\ FinitelyMany
      /\ Mirrors(subscribers, subscriptions, pc)
      /\ Registered(pattern_subscribers, pattern_subscriptions)
  BY DEF IInv
<1>2. /\ Send(c, <<Confirm("psubscribe", p, count, TRUE)>>)
      /\ UNCHANGED <<subscribers, subscriptions, pc, writer, told>>
      /\ pattern_subscribers' = Register(pattern_subscribers, p, c)
      /\ pattern_subscriptions' = [pattern_subscriptions EXCEPT ![c][p] = subscriber_id]
      /\ subscriber_id' = subscriber_id + 1
  BY DEF Psubscribe
<1>3. /\ pattern_subscribers' \in [Patterns -> SUBSET Sender]
      /\ \A q \in Patterns : IsFiniteSet(pattern_subscribers'[q])
  BY <1>1, <1>2, SendersChange DEF TypeOK, FinitelyMany
<1>4. /\ pattern_subscriptions' \in [Clients -> [Patterns -> Nat \cup {NoId}]]
      /\ subscriber_id' \in Nat
      /\ pattern_subscriptions'[c] = [pattern_subscriptions[c] EXCEPT ![p] = subscriber_id]
      /\ \A d \in Clients \ {c} : pattern_subscriptions'[d] = pattern_subscriptions[d]
  BY <1>1, <1>2 DEF TypeOK
<1>5. IdsApart'
  BY <1>1, <1>2, OwnIdsChange DEF TypeOK, IdsApart
<1>6. Registered(pattern_subscribers, pattern_subscriptions)'
  BY <1>1, <1>2, RegisteredChanges
<1>7. Held(pattern_subscriptions'[c]) = held \cup {p}
  <2>1. pattern_subscriptions[c] \in [Patterns -> Nat \cup {NoId}] /\ subscriber_id \in Nat
    BY <1>1 DEF TypeOK
  <2>2. Held([pattern_subscriptions[c] EXCEPT ![p] = subscriber_id]) = held \cup {p}
    BY <2>1 DEF Held, NoId
  <2> QED
    BY <1>4, <2>2
<1>8. /\ HeldBy(c)' = HeldBy(c) \cup {p}
      /\ \A d \in Clients \ {c} : HeldBy(d)' = HeldBy(d)
  BY <1>2, <1>4, <1>7 DEF HeldBy
<1>9. count = Cardinality(HeldBy(c)') /\ count \in Nat
  BY <1>1, <1>2, <1>4, TotalCounts DEF HeldBy, TypeOK
<1>10. StreamInv' /\ stream' \in [Clients -> Seq(Event)]
  <2>1. "psubscribe" \in Starting /\ "psubscribe" \in Confirming /\ p \in Names
    BY DEF Confirming, Starting, Names
  <2> HIDE DEF count
  <2> QED
    BY <1>2, <1>8, <1>9, <2>1, ConfirmKeeps
<1>11. TypeOK'
  BY <1>1, <1>2, <1>3, <1>4, <1>10 DEF TypeOK
<1>12. FinitelyMany' /\ Mirrors(subscribers, subscriptions, pc)'
  BY <1>1, <1>2, <1>3 DEF FinitelyMany
<1> QED
  BY <1>5, <1>6, <1>10, <1>11, <1>12 DEF IInv

LEMMA PunsubscribeKeeps ==
    ASSUME IInv, NEW c \in Clients, NEW p \in Patterns, Punsubscribe(c, p)
    PROVE  IInv'
<1> DEFINE count == TotalHeld(subscriptions[c], pattern_subscriptions'[c])
           held == Held(pattern_subscriptions[c])
<1>1. /\ TypeOK /\ IdsApart /\ FinitelyMany
      /\ Mirrors(subscribers, subscriptions, pc)
      /\ Registered(pattern_subscribers, pattern_subscriptions)
  BY DEF IInv
<1>2. /\ Send(c, <<Confirm("punsubscribe", p, count, TRUE)>>)
      /\ UNCHANGED <<subscribers, subscriber_id, subscriptions, pc, writer, told>>
      /\ pattern_subscriptions' = [pattern_subscriptions EXCEPT ![c][p] = NoId]
      /\ pattern_subscribers' = IF pattern_subscriptions[c][p] = NoId THEN pattern_subscribers
                                ELSE Unregister(pattern_subscribers, p, pattern_subscriptions[c][p])
  BY DEF Punsubscribe
<1>3. /\ pattern_subscribers' \in [Patterns -> SUBSET Sender]
      /\ \A q \in Patterns : IsFiniteSet(pattern_subscribers'[q])
  BY <1>1, <1>2, SendersChange DEF TypeOK, FinitelyMany
<1>4. /\ pattern_subscriptions' \in [Clients -> [Patterns -> Nat \cup {NoId}]]
      /\ pattern_subscriptions'[c] = [pattern_subscriptions[c] EXCEPT ![p] = NoId]
      /\ \A d \in Clients \ {c} : pattern_subscriptions'[d] = pattern_subscriptions[d]
  BY <1>1, <1>2 DEF TypeOK
<1>5. IdsApart'
  BY <1>1, <1>2, OwnIdsChange DEF TypeOK, IdsApart
<1>6. Registered(pattern_subscribers, pattern_subscriptions)'
  BY <1>1, <1>2, RegisteredChanges
<1>7. Held(pattern_subscriptions'[c]) = held \ {p}
  <2>1. pattern_subscriptions[c] \in [Patterns -> Nat \cup {NoId}]
    BY <1>1 DEF TypeOK
  <2>2. Held([pattern_subscriptions[c] EXCEPT ![p] = NoId]) = held \ {p}
    BY <2>1 DEF Held
  <2> QED
    BY <1>4, <2>2
<1>8. p \notin Held(subscriptions[c])
  BY <1>1, PubSubAssumption DEF TypeOK, Held
<1>9. /\ HeldBy(c)' = HeldBy(c) \ {p}
      /\ \A d \in Clients \ {c} : HeldBy(d)' = HeldBy(d)
  BY <1>2, <1>4, <1>7, <1>8 DEF HeldBy
<1>10. count = Cardinality(HeldBy(c)') /\ count \in Nat
  BY <1>1, <1>2, <1>4, TotalCounts DEF HeldBy, TypeOK
<1>11. StreamInv' /\ stream' \in [Clients -> Seq(Event)]
  <2>1. "punsubscribe" \in Confirming /\ "punsubscribe" \notin Starting /\ p \in Names
    BY DEF Confirming, Starting, Ending, Names
  <2> HIDE DEF count
  <2> QED
    BY <1>2, <1>9, <1>10, <2>1, ConfirmKeeps
<1>12. TypeOK'
  BY <1>1, <1>2, <1>3, <1>4, <1>11 DEF TypeOK
<1>13. FinitelyMany' /\ Mirrors(subscribers, subscriptions, pc)'
  BY <1>1, <1>2, <1>3 DEF FinitelyMany
<1> QED
  BY <1>5, <1>6, <1>11, <1>12, <1>13 DEF IInv

LEMMA PunsubscribeAllKeeps ==
    ASSUME IInv, NEW c \in Clients, PunsubscribeAll(c)
    PROVE  IInv'
<1> DEFINE none == [p \in Patterns |-> NoId]
<1>1. /\ TypeOK /\ IdsApart /\ FinitelyMany
      /\ Mirrors(subscribers, subscriptions, pc)
      /\ Registered(pattern_subscribers, pattern_subscriptions)
  BY DEF IInv
<1>2. /\ UNCHANGED <<subscribers, subscriber_id, subscriptions, pc, writer, told>>
      /\ pattern_subscriptions' = [pattern_subscriptions EXCEPT ![c] = none]
      /\ pattern_subscribers' = UnregisterAll(pattern_subscribers, pattern_subscriptions[c])
  BY DEF PunsubscribeAll
<1>3. PICK events \in DrainReplies("punsubscribe", pattern_subscriptions[c], subscriptions[c]) :
             Send(c, events)
  BY DEF PunsubscribeAll
<1>4. /\ pattern_subscribers' \in [Patterns -> SUBSET Sender]
      /\ \A q \in Patterns : IsFiniteSet(pattern_subscribers'[q])
  BY <1>1, <1>2, SendersChange DEF TypeOK, FinitelyMany
<1>5. /\ pattern_subscriptions' \in [Clients -> [Patterns -> Nat \cup {NoId}]]
      /\ pattern_subscriptions'[c] = none
      /\ \A d \in Clients \ {c} : pattern_subscriptions'[d] = pattern_subscriptions[d]
  BY <1>1, <1>2 DEF TypeOK
<1>6. IdsApart'
  BY <1>1, <1>2, OwnIdsChange DEF TypeOK, IdsApart
<1>7. Registered(pattern_subscribers, pattern_subscriptions)'
  BY <1>1, <1>2, RegisteredChanges
<1>8. /\ HeldBy(c)' = Held(subscriptions[c])
      /\ \A d \in Clients \ {c} : HeldBy(d)' = HeldBy(d)
  <2>1. Held(none) = {}
    BY DEF Held
  <2> QED
    BY <1>2, <1>5, <2>1 DEF HeldBy
<1>9. /\ events \in Seq(Event)
      /\ \A i \in 1 .. Len(events) :
            /\ events[i].type \in Ending /\ (events[i].last <=> i = Len(events))
            /\ events[i].count = Cardinality(Held(subscriptions[c]))
      /\ HeldBy(c) \ {events[i].name : i \in 1 .. Len(events)} = Held(subscriptions[c])
  <2>1. "punsubscribe" \in Ending /\ Patterns \cap Channels = {}
    BY PubSubAssumption DEF Ending
  <2>2. subscriptions[c] \in [Channels -> Nat \cup {NoId}] /\ pattern_subscriptions[c] \in [Patterns -> Nat \cup {NoId}]
    BY <1>1 DEF TypeOK
  <2>3. HeldBy(c) = Held(pattern_subscriptions[c]) \cup Held(subscriptions[c])
    BY DEF HeldBy
  <2> QED
    BY <2>1, <2>2, <2>3, DrainedNames
<1>10. StreamInv' /\ stream' \in [Clients -> Seq(Event)]
  <2>1. /\ told[c] \in SUBSET Names /\ stream[c] \in Seq(Event)
        /\ AllFit(told[c], stream[c]) /\ AllCounted(told[c], stream[c])
        /\ Known(told[c], stream[c], Len(stream[c])) = HeldBy(c)
    BY DEF IInv, TypeOK, StreamInv
  <2>2. /\ AllFit(told[c], stream[c] \o events)
        /\ Known(told[c], stream[c] \o events, Len(stream[c] \o events)) = HeldBy(c)'
    <3>1. /\ AllFit(told[c], stream[c] \o events)
          /\ Known(told[c], stream[c] \o events, Len(stream[c] \o events))
               = Known(told[c], stream[c], Len(stream[c])) \ {events[i].name : i \in 1 .. Len(events)}
      BY <1>9, <2>1, DrainFits
    <3> QED
      BY <1>8, <1>9, <2>1, <3>1
  <2>3. AllCounted(told[c], stream[c] \o events)
    BY <1>8, <1>9, <2>1, <2>2, RequestCounted DEF Confirming
  <2> QED
    BY <1>2, <1>3, <1>8, <1>9, <2>2, <2>3, SendKeeps
<1>11. TypeOK'
  BY <1>1, <1>2, <1>4, <1>5, <1>10 DEF TypeOK
<1>12. FinitelyMany' /\ Mirrors(subscribers, subscriptions, pc)'
  BY <1>1, <1>2, <1>4 DEF FinitelyMany
<1> QED
  BY <1>6, <1>7, <1>10, <1>11, <1>12 DEF IInv

LEMMA PublishKeeps ==
    ASSUME IInv, NEW ch \in Channels, Publish(ch)
    PROVE  IInv'
<1>1. TypeOK /\ FinitelyMany /\ Mirrors(subscribers, subscriptions, pc) /\ StreamInv
  BY DEF IInv
<1>2. UNCHANGED <<dbVars, clientVars, pc, writer, told>>
  BY DEF Publish
<1>3. PICK sent \in [Clients -> UNION {Deliveries(ch, c) : c \in Clients}] :
             /\ \A c \in Clients : sent[c] \in Deliveries(ch, c)
             /\ stream' = [c \in Clients |-> stream[c] \o sent[c]]
  BY DEF Publish
<1>4. ASSUME NEW c \in Clients
      PROVE  /\ sent[c] \in Seq(Event)
             /\ AllFit(told[c], stream[c] \o sent[c]) /\ AllCounted(told[c], stream[c] \o sent[c])
             /\ Known(told[c], stream[c] \o sent[c], Len(stream[c] \o sent[c])) = HeldBy(c)
  <2>1. /\ sent[c] \in Seq(Event)
        /\ \A i \in 1 .. Len(sent[c]) :
              /\ sent[c][i].type \in {"message", "pmessage"}
              /\ sent[c][i].type = "message" =>
                    sent[c][i].name = ch /\ \E r \in subscribers[ch] : r.client = c
    BY <1>1, <1>3, DeliveriesOf
  <2>2. ASSUME NEW r \in subscribers[ch], r.client = c
        PROVE  ch \in HeldBy(c)
    <3>1. r.id \in Nat /\ r = [id |-> r.id, client |-> c]
      BY <1>1, <2>2 DEF TypeOK, Sender
    <3>2. subscriptions[c][ch] = r.id
      BY <1>1, <2>2, <3>1 DEF Mirrors
    <3>3. DOMAIN subscriptions[c] = Channels
      BY <1>1 DEF TypeOK
    <3> QED
      BY <3>1, <3>2, <3>3 DEF HeldBy, Held, NoId
  <2>3. /\ told[c] \in SUBSET Names /\ stream[c] \in Seq(Event)
        /\ AllFit(told[c], stream[c]) /\ AllCounted(told[c], stream[c])
        /\ Known(told[c], stream[c], Len(stream[c])) = HeldBy(c)
    BY <1>1 DEF TypeOK, StreamInv
  <2>4. \A i \in 1 .. Len(sent[c]) :
           /\ sent[c][i].type \in {"message", "pmessage"}
           /\ sent[c][i].type = "message" => sent[c][i].name \in Known(told[c], stream[c], Len(stream[c]))
    BY <2>1, <2>2, <2>3
  <2>5. /\ AllFit(told[c], stream[c] \o sent[c])
        /\ Known(told[c], stream[c] \o sent[c], Len(stream[c] \o sent[c]))
             = Known(told[c], stream[c], Len(stream[c]))
    BY <2>1, <2>3, <2>4, MessagesFit
  <2>6. AllCounted(told[c], stream[c] \o sent[c])
    BY <2>1, <2>3, <2>4, MessagesCounted
  <2> QED
    BY <2>1, <2>3, <2>5, <2>6
<1>5. stream' \in [Clients -> Seq(Event)]
  <2>1. \A c \in Clients : stream[c] \o sent[c] \in Seq(Event)
    BY <1>1, <1>4, ConcatProperties DEF TypeOK
  <2> QED
    BY <1>3, <2>1
<1>6. StreamInv'
  <2>1. \A c \in Clients : HeldBy(c)' = HeldBy(c)
    BY <1>2 DEF clientVars, HeldBy
  <2>2. \A c \in Clients : stream'[c] = stream[c] \o sent[c]
    BY <1>3
  <2> QED
    BY <1>2, <1>4, <2>1, <2>2 DEF StreamInv
<1>7. TypeOK'
  BY <1>1, <1>2, <1>5 DEF TypeOK, dbVars, clientVars
<1> QED
  BY <1>2, <1>6, <1>7 DEF IInv, IdsApart, FinitelyMany, dbVars, clientVars

\* The end of a client takes out its senders under channels and keeps its maps.
LEMMA CleanupKeeps ==
    ASSUME IInv, NEW c \in Clients, Cleanup(c)
    PROVE  IInv'
<1>1. /\ TypeOK /\ IdsApart /\ FinitelyMany
      /\ Mirrors(subscribers, subscriptions, pc)
      /\ Registered(pattern_subscribers, pattern_subscriptions)
  BY DEF IInv
<1>2. /\ UNCHANGED <<pattern_subscribers, subscriber_id, clientVars, stream, writer, told>>
      /\ pc' = [pc EXCEPT ![c] = "gone"]
      /\ subscribers' = UnregisterAll(subscribers, subscriptions[c])
  BY DEF Cleanup
<1>3. subscribers' \in [Channels -> SUBSET Sender] /\ \A h \in Channels : IsFiniteSet(subscribers'[h])
  BY <1>1, <1>2, SendersChange DEF TypeOK, FinitelyMany
<1>4. Mirrors(subscribers, subscriptions, pc)'
  <2>1. UNCHANGED subscriptions
    BY <1>2 DEF clientVars
  <2> QED
    BY <1>1, <1>2, <2>1, UnregisterAllMirrors
<1>5. TypeOK'
  BY <1>1, <1>2, <1>3 DEF TypeOK, clientVars
<1>6. StreamInv'
  BY <1>2 DEF IInv, StreamInv, HeldBy, clientVars
<1> QED
  BY <1>1, <1>2, <1>3, <1>4, <1>5, <1>6 DEF IInv, IdsApart, FinitelyMany, clientVars

LEMMA CloseKeeps ==
    ASSUME IInv, NEW c \in Clients, Close(c)
    PROVE  IInv'
<1>1. TypeOK'
  BY DEF IInv, TypeOK, Close, dbVars, clientVars
<1>2. Mirrors(subscribers, subscriptions, pc)'
  <2>1. \A d \in Clients : pc'[d] # "gone" <=> pc[d] # "gone"
    BY DEF Close, IInv, TypeOK
  <2> QED
    BY <2>1 DEF IInv, Mirrors, Close, dbVars, clientVars
<1> QED
  BY <1>1, <1>2 DEF IInv, Close, IdsApart, FinitelyMany, StreamInv, HeldBy, dbVars, clientVars

LEMMA WriteKeeps ==
    ASSUME IInv, NEW c \in Clients, Write(c)
    PROVE  IInv'
<1>1. /\ stream[c] # <<>> /\ UNCHANGED <<dbVars, clientVars, pc, writer>>
      /\ stream' = [stream EXCEPT ![c] = Tail(@)]
      /\ told' = [told EXCEPT ![c] = Learn(@, Head(stream[c]))]
  BY DEF Write
<1>2. TypeOK /\ StreamInv
  BY DEF IInv
<1>3. told[c] \in SUBSET Names /\ stream[c] \in Seq(Event) /\ Tail(stream[c]) \in Seq(Event)
  BY <1>1, <1>2, HeadTailProperties DEF TypeOK
<1>4. /\ Learn(told[c], Head(stream[c])) \in SUBSET Names
      /\ AllFit(Learn(told[c], Head(stream[c])), Tail(stream[c]))
      /\ Known(Learn(told[c], Head(stream[c])), Tail(stream[c]), Len(Tail(stream[c]))) = HeldBy(c)
      /\ AllCounted(Learn(told[c], Head(stream[c])), Tail(stream[c]))
  <2>1. AllFit(told[c], stream[c]) /\ AllCounted(told[c], stream[c])
    BY <1>2 DEF StreamInv
  <2>2. stream[c][1].type \in Starting => stream[c][1].name \in Names
    <3>1. 1 \in 1 .. Len(stream[c])
      BY <1>1, <1>3, EmptySeq
    <3> QED
      BY <2>1, <3>1 DEF AllFit, Fits
  <2> QED
    BY <1>1, <1>2, <1>3, <2>1, <2>2, TailFits, TailCounted DEF StreamInv
<1>5. /\ stream' \in [Clients -> Seq(Event)] /\ told' \in [Clients -> SUBSET Names]
      /\ \A d \in Clients : /\ stream'[d] = IF d = c THEN Tail(stream[c]) ELSE stream[d]
                            /\ told'[d] = IF d = c THEN Learn(told[c], Head(stream[c])) ELSE told[d]
  BY <1>1, <1>2, <1>3, <1>4 DEF TypeOK
<1>6. \A d \in Clients : HeldBy(d)' = HeldBy(d)
  BY <1>1 DEF HeldBy, clientVars
<1>7. StreamInv'
  BY <1>2, <1>4, <1>5, <1>6 DEF StreamInv
<1>8. TypeOK'
  BY <1>1, <1>2, <1>5 DEF TypeOK, dbVars, clientVars
<1> QED
  BY <1>1, <1>7, <1>8 DEF IInv, IdsApart, FinitelyMany, dbVars, clientVars

LEMMA WriterEndKeeps ==
    ASSUME IInv, NEW c \in Clients, WriterEnd(c)
    PROVE  IInv'
<1>1. TypeOK'
  BY DEF IInv, TypeOK, WriterEnd, dbVars, clientVars
<1> QED
  BY <1>1 DEF IInv, WriterEnd, IdsApart, FinitelyMany, StreamInv, HeldBy, dbVars, clientVars

LEMMA StepKeeps == IInv /\ [Next]_vars => IInv'
<1> SUFFICES ASSUME IInv, [Next]_vars
             PROVE  IInv'
  OBVIOUS
<1>1. ASSUME NEW c \in Clients, NEW ch \in Channels, Subscribe(c, ch) \/ Unsubscribe(c, ch)
      PROVE  IInv'
  BY <1>1, SubscribeKeeps, UnsubscribeKeeps
<1>2. ASSUME NEW c \in Clients, NEW p \in Patterns, Psubscribe(c, p) \/ Punsubscribe(c, p)
      PROVE  IInv'
  BY <1>2, PsubscribeKeeps, PunsubscribeKeeps
<1>3. ASSUME NEW c \in Clients, UnsubscribeAll(c) \/ PunsubscribeAll(c)
      PROVE  IInv'
  BY <1>3, UnsubscribeAllKeeps, PunsubscribeAllKeeps
<1>4. ASSUME NEW c \in Clients, Close(c) \/ Cleanup(c) \/ Write(c) \/ WriterEnd(c)
      PROVE  IInv'
  BY <1>4, CloseKeeps, CleanupKeeps, WriteKeeps, WriterEndKeeps
<1>5. ASSUME NEW ch \in Channels, Publish(ch)
      PROVE  IInv'
  BY <1>5, PublishKeeps
<1>6. CASE UNCHANGED vars
  BY <1>6 DEF vars, dbVars, clientVars, IInv, TypeOK, IdsApart, FinitelyMany, StreamInv, HeldBy
<1> QED
  BY <1>1, <1>2, <1>3, <1>4, <1>5, <1>6 DEF Next

LEMMA InitHolds == Init => IInv
<1> SUFFICES ASSUME Init
             PROVE  IInv
  OBVIOUS
<1>1. TypeOK
  BY DEF Init, TypeOK, NoId
<1>2. IdsApart
  BY DEF Init, IdsApart, OwnIds, NoId
<1>3. FinitelyMany
  BY FS_EmptySet DEF Init, FinitelyMany
<1>4. Mirrors(subscribers, subscriptions, pc) /\ Registered(pattern_subscribers, pattern_subscriptions)
  BY DEF Init, Mirrors, Registered, NoId
<1>5. ASSUME NEW c \in Clients
      PROVE  /\ AllFit(told[c], stream[c]) /\ AllCounted(told[c], stream[c])
             /\ Known(told[c], stream[c], Len(stream[c])) = HeldBy(c)
  <2>1. told[c] = {} /\ stream[c] = <<>> /\ HeldBy(c) = {}
    BY DEF Init, HeldBy, Held
  <2>2. Len(stream[c]) = 0
    BY <2>1
  <2>3. Known(told[c], stream[c], Len(stream[c])) = {}
    BY <2>1, <2>2, KnownAtFirst
  <2> QED
    BY <2>1, <2>2, <2>3 DEF AllFit, AllCounted
<1> QED
  BY <1>1, <1>2, <1>3, <1>4, <1>5 DEF IInv, StreamInv

LEMMA Inductive == Spec => []IInv
BY InitHolds, StepKeeps, PTL DEF Spec

-----------------------------------------------------------------------------
(* The theorems *)

\* Database::subscribe and unsubscribe and the clients' own maps agree at any
\* time: a sender is under a channel exactly while the map of a connected client
\* holds its id, so that no stale sender gets messages and no subscription is
\* without its sender, whichever clients subscribe, unsubscribe and leave.
THEOREM ChannelsMirrored == Spec => []SubscribersMirrored
<1>1. IInv => SubscribersMirrored
  BY MirrorsExact DEF IInv
<1> QED
  BY <1>1, Inductive, PTL

\* And what PSUBSCRIBE put into a client's map is registered, though a second
\* PSUBSCRIBE leaves the sender of the first behind.
THEOREM PatternsAreRegistered == Spec => []PatternsRegistered
<1>1. IInv => PatternsRegistered
  BY DEF IInv, Registered, PatternsRegistered
<1> QED
  BY <1>1, Inductive, PTL

\* The reader of a connection gets the messages of a channel only between the
\* confirmations of SUBSCRIBE and of UNSUBSCRIBE, whichever thread publishes.
THEOREM MessagesExpected == Spec => []MessageExpected
<1>1. ASSUME IInv, NEW c \in Clients, stream[c] # <<>>, Head(stream[c]).type = "message"
      PROVE  Head(stream[c]).name \in told[c]
  <2>1. told[c] \in SUBSET Names /\ stream[c] \in Seq(Event) /\ AllFit(told[c], stream[c])
    BY <1>1 DEF IInv, TypeOK, StreamInv
  <2>2. 1 \in 1 .. Len(stream[c]) /\ Head(stream[c]) = stream[c][1]
    BY <1>1, <2>1, EmptySeq
  <2>3. Known(told[c], stream[c], 1 - 1) = told[c]
    BY <2>1, KnownAtFirst
  <2> QED
    BY <1>1, <2>1, <2>2, <2>3 DEF AllFit, Fits
<1>2. IInv => MessageExpected
  BY <1>1 DEF MessageExpected
<1> QED
  BY <1>2, Inductive, PTL

\* The number in every confirmation is the number of names its reader has once it read
\* the confirmations of that request, whatever else is on its way on the stream: of
\* SUBSCRIBE and UNSUBSCRIBE of a name, and of the requests that drain a map, whose
\* confirmations all have the number of the last.
THEOREM CountsTell == Spec => []CountTellsSubscriptions
<1>1. ASSUME IInv, NEW c \in Clients, stream[c] # <<>>, Head(stream[c]).type \in Confirming
      PROVE  \E n \in 1 .. Len(stream[c]) :
                /\ EndsRequest(stream[c], 1, n)
                /\ Head(stream[c]).count = Cardinality(Known(told[c], stream[c], n))
  <2>1. stream[c] \in Seq(Event) /\ AllCounted(told[c], stream[c])
    BY <1>1 DEF IInv, TypeOK, StreamInv
  <2>2. 1 \in 1 .. Len(stream[c]) /\ Head(stream[c]) = stream[c][1]
    BY <1>1, <2>1, EmptySeq
  <2> QED
    BY <1>1, <2>1, <2>2 DEF AllCounted, Counted
<1>2. IInv => CountTellsSubscriptions
  BY <1>1 DEF CountTellsSubscriptions
<1> QED
  BY <1>2, Inductive, PTL
=============================================================================
