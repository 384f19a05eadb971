--------------------------- MODULE MessageBusProofs ---------------------------
(***************************************************************************)
(* Proofs about MessageBus for any topics, clients, request lists and      *)
(* channel capacity.  That an owner keeps its topics is not enough: the    *)
(* bus must also send it nothing else, which needs that egress_senders     *)
(* never names a client for a topic it did not ask for, and no client that *)
(* has not subscribed yet.                                                 *)
(***************************************************************************)
EXTENDS MessageBus, TLAPS

Message == [topic : Topics, msg : Nat]
ClientRec == [st : {"new", "live", "refused", "gone"},
              topics : SUBSET Topics, queue : Seq(Message),
              got : Seq(Message), due : Seq(Message)]

TypeOK ==
  /\ ingress \in Seq(Message)
  /\ egress_senders \in [Topics -> Clients \cup {Nobody}]
  /\ client \in [Clients -> ClientRec]
  /\ published \in Nat

\* A client that has not asked yet has no channel and is in no entry.
FreshInv ==
  \A c \in Clients : client[c].st = "new" =>
    /\ client[c].queue = <<>> /\ client[c].got = <<>> /\ client[c].due = <<>>
    /\ \A t \in Topics : egress_senders[t] # c

\* The entries that name a live client are exactly its topics.
EntriesInv ==
  \A c \in Clients : client[c].st = "live" =>
    \A t \in Topics : egress_senders[t] = c <=> t \in client[c].topics

\* What the bus took for a live client was delivered or is queued, in order.
QueueInv ==
  \A c \in Clients : client[c].st = "live" =>
    client[c].got \o client[c].queue = client[c].due

IInv == TypeOK /\ FreshInv /\ EntriesInv /\ QueueInv

-------------------------------------------------------------------------------

\* Moving the head of the queue to what was delivered changes nothing of
\* the two together.
LEMMA ConcatHead ==
  ASSUME NEW S, NEW s \in Seq(S), NEW q \in Seq(S), q # <<>>
  PROVE  Append(s, Head(q)) \o Tail(q) = s \o q
<1>1. /\ Append(s, Head(q)) \in Seq(S) /\ Tail(q) \in Seq(S)
      /\ Len(Append(s, Head(q))) = Len(s) + 1
      /\ Len(Tail(q)) = Len(q) - 1 /\ Len(q) > 0
  OBVIOUS
<1>2. Len(Append(s, Head(q)) \o Tail(q)) = Len(s \o q)
  BY <1>1
<1>3. ASSUME NEW i \in 1 .. Len(s) + Len(q)
      PROVE  (Append(s, Head(q)) \o Tail(q))[i] = (s \o q)[i]
  BY <1>1
<1> QED
  BY <1>1, <1>2, <1>3

\* When one client's record changes, only that client is to be looked at.
LEMMA OneClient ==
  ASSUME IInv, NEW c \in Clients, NEW r \in ClientRec,
         client' = [client EXCEPT ![c] = r],
         UNCHANGED <<ingress, egress_senders, published>>,
         r.st # "new",
         r.st = "live" => /\ client[c].st = "live"
                          /\ r.topics = client[c].topics
                          /\ r.got \o r.queue = r.due
  PROVE  IInv'
<1>1. /\ client' \in [Clients -> ClientRec] /\ client'[c] = r
      /\ \A d \in Clients : d # c => client'[d] = client[d]
  BY DEF IInv, TypeOK
<1>2. TypeOK'
  BY <1>1 DEF IInv, TypeOK
<1>3. FreshInv' /\ EntriesInv' /\ QueueInv'
  BY <1>1 DEF IInv, FreshInv, EntriesInv, QueueInv
<1> QED
  BY <1>2, <1>3 DEF IInv

LEMMA InitInv == Init => IInv
  BY BusAssumption DEF Init, NewClient, ClientRec, IInv, TypeOK, FreshInv,
                       EntriesInv, QueueInv, Message

\* The topics of a list are topics, and its entries are the list's.
LEMMA RequestTopics ==
  ASSUME NEW topics \in Requests
  PROVE  /\ topics \in Seq(Topics) /\ Range(topics) \in SUBSET Topics
         /\ Range(topics) = {topics[i] : i \in DOMAIN topics}
  BY BusAssumption DEF Range

\* create_subscriber keeps the invariant: it removes and overwrites only
\* entries whose subscriber is gone.
LEMMA CreateSubscriberInv ==
  ASSUME IInv, NEW c \in Clients, NEW topics \in Requests,
         client[c].st = "new", CreateSubscriber(c, topics),
         UNCHANGED <<ingress, published>>
  PROVE  IInv'
<1> DEFINE hit == Conflict(topics)
           end == IF hit = {} THEN Len(topics)
                  ELSE CHOOSE i \in hit : \A j \in hit : i <= j
           cleared == Range(SubSeq(topics, 1, end))
           removed == [t \in Topics |-> IF t \in cleared /\ ~Taken(t) THEN Nobody
                                        ELSE egress_senders[t]]
<1>1. /\ topics \in Seq(Topics) /\ Range(topics) \in SUBSET Topics
      /\ Range(topics) = {topics[i] : i \in DOMAIN topics}
  BY RequestTopics
<1>2. /\ removed \in [Topics -> Clients \cup {Nobody}]
      /\ \A t \in Topics : removed[t] \in {Nobody, egress_senders[t]}
      /\ \A t \in Topics : Taken(t) => removed[t] = egress_senders[t]
  BY DEF IInv, TypeOK
<1>3. \/ /\ hit = {}
         /\ egress_senders' = [t \in Topics |->
              IF t \in Range(topics) THEN c ELSE removed[t]]
         /\ client' = [client EXCEPT ![c].st = "live",
                                     ![c].topics = Range(topics)]
      \/ /\ egress_senders' = removed
         /\ client' = [client EXCEPT ![c].st = "refused"]
  BY DEF CreateSubscriber
<1> HIDE DEF removed
<1>4. ASSUME NEW d \in Clients, client[d].st = "live", NEW t \in Topics,
             egress_senders[t] = d
      PROVE  Taken(t)
  BY <1>4, BusAssumption DEF Taken, IsDisconnected
<1>5. CASE /\ hit = {}
           /\ egress_senders' = [t \in Topics |->
                IF t \in Range(topics) THEN c ELSE removed[t]]
           /\ client' = [client EXCEPT ![c].st = "live",
                                       ![c].topics = Range(topics)]
  <2>1. \A t \in Range(topics) : ~Taken(t)
    BY <1>1, <1>5 DEF Conflict
  <2> DEFINE r == [client[c] EXCEPT !.st = "live", !.topics = Range(topics)]
  <2>6. /\ r \in ClientRec /\ r.st = "live" /\ r.topics = Range(topics)
        /\ r.got = client[c].got /\ r.queue = client[c].queue
        /\ r.due = client[c].due
    BY <1>1 DEF IInv, TypeOK, ClientRec
  <2>7. client' = [client EXCEPT ![c] = r]
    BY <1>5 DEF IInv, TypeOK, ClientRec
  <2> HIDE DEF r
  <2>8. /\ client' \in [Clients -> ClientRec] /\ client'[c] = r
        /\ \A d \in Clients : d # c => client'[d] = client[d]
    BY <2>6, <2>7 DEF IInv, TypeOK
  <2>2. TypeOK'
    <3>1. egress_senders' \in [Topics -> Clients \cup {Nobody}]
      BY <1>1, <1>2, <1>5
    <3> QED
      BY <2>8, <3>1 DEF IInv, TypeOK
  <2>9. \A t \in Topics :
          egress_senders'[t] = IF t \in Range(topics) THEN c ELSE removed[t]
    BY <1>5
  <2>3. FreshInv'
    BY <1>1, <1>2, <2>6, <2>8, <2>9, BusAssumption DEF IInv, FreshInv
  <2>4. EntriesInv'
    <3> SUFFICES ASSUME NEW d \in Clients, client'[d].st = "live",
                        NEW t \in Topics
                 PROVE  egress_senders'[t] = d <=> t \in client'[d].topics
      BY DEF EntriesInv
    <3>1. CASE d = c
      <4>1. \A u \in Topics : egress_senders[u] # c
        BY DEF IInv, FreshInv
      <4>2. client'[d].topics = Range(topics)
        BY <2>6, <2>8, <3>1
      <4> QED
        BY <1>2, <2>9, <3>1, <4>1, <4>2, BusAssumption
    <3>2. CASE d # c
      <4>1. client[d].st = "live" /\ client'[d].topics = client[d].topics
        BY <2>8, <3>2
      <4>2. egress_senders[t] = d <=> t \in client[d].topics
        BY <4>1 DEF IInv, EntriesInv
      <4>3. egress_senders[t] = d => t \notin Range(topics)
        BY <1>4, <2>1, <4>1
      <4> QED
        BY <1>1, <1>2, <1>4, <1>5, <3>2, <4>1, <4>2, <4>3, BusAssumption
    <3> QED
      BY <3>1, <3>2
  <2>5. QueueInv'
    <3>2. client[c].got = <<>> /\ client[c].queue = <<>> /\ client[c].due = <<>>
      BY DEF IInv, FreshInv
    <3>1. r.got \o r.queue = r.due
      BY <2>6, <3>2
    <3> QED
      BY <2>8, <3>1 DEF IInv, QueueInv
  <2> QED
    BY <2>2, <2>3, <2>4, <2>5 DEF IInv
<1>6. CASE /\ egress_senders' = removed
           /\ client' = [client EXCEPT ![c].st = "refused"]
  <2> DEFINE r == [client[c] EXCEPT !.st = "refused"]
  <2>5. r \in ClientRec /\ r.st = "refused"
    BY DEF IInv, TypeOK, ClientRec
  <2>6. client' = [client EXCEPT ![c] = r]
    BY <1>6 DEF IInv, TypeOK, ClientRec
  <2> HIDE DEF r
  <2>7. /\ client' \in [Clients -> ClientRec] /\ client'[c] = r
        /\ \A d \in Clients : d # c => client'[d] = client[d]
    BY <2>5, <2>6 DEF IInv, TypeOK
  <2>1. TypeOK'
    BY <1>2, <1>6, <2>7 DEF IInv, TypeOK
  <2>2. FreshInv'
    BY <1>2, <1>6, <2>5, <2>7, BusAssumption DEF IInv, FreshInv
  <2>3. EntriesInv'
    <3> SUFFICES ASSUME NEW d \in Clients, client'[d].st = "live",
                        NEW t \in Topics
                 PROVE  egress_senders'[t] = d <=> t \in client'[d].topics
      BY DEF EntriesInv
    <3>1. client[d].st = "live" /\ client'[d].topics = client[d].topics
      BY <2>5, <2>7
    <3> QED
      BY <1>2, <1>4, <1>6, <3>1, BusAssumption DEF IInv, EntriesInv
  <2>4. QueueInv'
    BY <2>5, <2>7 DEF IInv, QueueInv
  <2> QED
    BY <2>1, <2>2, <2>3, <2>4 DEF IInv
<1> QED
  BY <1>3, <1>5, <1>6

\* One message of run: the client it goes to is the one it was due to.
LEMMA RunInv == ASSUME IInv, Run PROVE IInv'
<1>7. PICK m, to : m = Head(ingress) /\ to = egress_senders[m.topic]
  OBVIOUS
<1>1. /\ m \in Message /\ m.topic \in Topics /\ Tail(ingress) \in Seq(Message)
  <2>1. ingress \in Seq(Message) /\ ingress # <<>>
    BY DEF IInv, TypeOK, Run
  <2>2. m \in Message /\ Tail(ingress) \in Seq(Message)
    BY <1>7, <2>1
  <2> QED
    BY <2>2 DEF Message
<1>2. /\ ingress' = Tail(ingress) /\ UNCHANGED <<egress_senders, published>>
      /\ client' = [c \in Clients |->
           IF IsDisconnected(c) THEN client[c]
           ELSE [client[c] EXCEPT
                   !.queue = IF c = to THEN Append(@, m) ELSE @,
                   !.due = IF m.topic \in client[c].topics THEN Append(@, m)
                           ELSE @]]
  BY <1>7 DEF Run
<1>3. ASSUME NEW c \in Clients
      PROVE  /\ client'[c].st = client[c].st
             /\ client'[c].topics = client[c].topics
             /\ client'[c].got = client[c].got
             /\ client[c].st # "live" => client'[c] = client[c]
             /\ client[c].st = "live" /\ c = to =>
                  /\ client'[c].queue = Append(client[c].queue, m)
                  /\ client'[c].due = Append(client[c].due, m)
             /\ client[c].st = "live" /\ c # to =>
                  /\ client'[c].queue = client[c].queue
                  /\ client'[c].due = client[c].due
  <2>1. client[c].st = "live" => (c = to <=> m.topic \in client[c].topics)
    BY <1>1, <1>7 DEF IInv, EntriesInv
  <2> QED
    BY <1>1, <1>2, <2>1 DEF IInv, TypeOK, ClientRec, IsDisconnected
<1>4. TypeOK'
  <2>1. ASSUME NEW c \in Clients PROVE client'[c] \in ClientRec
    <3>1. /\ client[c] \in ClientRec
          /\ Append(client[c].queue, m) \in Seq(Message)
          /\ Append(client[c].due, m) \in Seq(Message)
      BY <1>1 DEF IInv, TypeOK, ClientRec
    <3> QED
      BY <1>2, <3>1 DEF ClientRec
  <2>2. client' \in [Clients -> ClientRec]
    BY <1>2, <2>1
  <2> QED
    BY <1>1, <1>2, <2>2 DEF IInv, TypeOK
<1>5. FreshInv'
  <2> SUFFICES ASSUME NEW c \in Clients, client'[c].st = "new"
               PROVE  /\ client'[c].queue = <<>> /\ client'[c].got = <<>>
                      /\ client'[c].due = <<>>
                      /\ \A t \in Topics : egress_senders'[t] # c
    BY DEF FreshInv
  <2>1. client[c].st = "new" /\ client'[c] = client[c]
    BY <1>3
  <2>2. egress_senders' = egress_senders
    BY <1>2
  <2> QED
    BY <2>1, <2>2 DEF IInv, FreshInv
<1>8. EntriesInv'
  <2> SUFFICES ASSUME NEW c \in Clients, client'[c].st = "live",
                      NEW t \in Topics
               PROVE  egress_senders'[t] = c <=> t \in client'[c].topics
    BY DEF EntriesInv
  <2>1. client[c].st = "live" /\ client'[c].topics = client[c].topics
    BY <1>3
  <2>2. egress_senders' = egress_senders
    BY <1>2
  <2> QED
    BY <2>1, <2>2 DEF IInv, EntriesInv
<1>6. QueueInv'
  <2> SUFFICES ASSUME NEW c \in Clients, client'[c].st = "live"
               PROVE  client'[c].got \o client'[c].queue = client'[c].due
    BY DEF QueueInv
  <2>1. PICK g, q : g = client[c].got /\ q = client[c].queue
    OBVIOUS
  <2>2. /\ g \in Seq(Message) /\ q \in Seq(Message)
        /\ client[c].st = "live" /\ g \o q = client[c].due
    BY <1>3, <2>1 DEF IInv, TypeOK, ClientRec, QueueInv
  <2>3. g \o Append(q, m) = Append(g \o q, m)
    <3>1. m \in Message /\ g \in Seq(Message) /\ q \in Seq(Message)
      BY <1>1, <2>2
    <3> QED
      BY <3>1
  <2>4. \/ /\ client'[c].got = g /\ client'[c].queue = Append(q, m)
           /\ client'[c].due = Append(g \o q, m)
        \/ /\ client'[c].got = g /\ client'[c].queue = q
           /\ client'[c].due = g \o q
    BY <1>3, <2>1, <2>2
  <2> QED
    BY <2>3, <2>4
<1> QED
  BY <1>4, <1>5, <1>6, <1>8 DEF IInv

LEMMA StepInv == IInv /\ [Next]_vars => IInv'
<1> SUFFICES ASSUME IInv, [Next]_vars PROVE IInv'
  OBVIOUS
<1>1. CASE UNCHANGED vars
  BY <1>1 DEF vars, IInv, TypeOK, FreshInv, EntriesInv, QueueInv
<1>2. ASSUME NEW t \in Topics, Execute(t) PROVE IInv'
  <2> DEFINE m == [topic |-> t, msg |-> FormatMessage]
  <2>2. published' \in Nat /\ m \in Message
    BY <1>2 DEF Execute, FormatMessage, IInv, TypeOK, Message
  <2>3. ingress' \in {ingress, Append(ingress, m)}
    BY <1>2 DEF Execute
  <2> HIDE DEF m
  <2>4. ingress' \in Seq(Message)
    BY <2>2, <2>3 DEF IInv, TypeOK
  <2>1. TypeOK'
    BY <1>2, <2>2, <2>4 DEF Execute, IInv, TypeOK
  <2> QED
    BY <1>2, <2>1 DEF Execute, IInv, FreshInv, EntriesInv, QueueInv
<1>3. CASE Run
  BY <1>3, RunInv
<1>4. ASSUME NEW c \in Clients, NEW topics \in Requests, Subscribe(c, topics)
      PROVE  IInv'
  <2>1. CASE CreateSubscriber(c, topics)
    BY <1>4, <2>1, CreateSubscriberInv DEF Subscribe
  <2>2. CASE /\ client' = [client EXCEPT ![c].st = "refused"]
             /\ UNCHANGED egress_senders
    <3> DEFINE r == [client[c] EXCEPT !.st = "refused"]
    <3>1. r \in ClientRec /\ r.st = "refused"
      BY DEF IInv, TypeOK, ClientRec
    <3>2. client' = [client EXCEPT ![c] = r]
      BY <2>2 DEF IInv, TypeOK, ClientRec
    <3> HIDE DEF r
    <3> QED
      BY <1>4, <2>2, <3>1, <3>2, OneClient DEF Subscribe
  <2> QED
    BY <1>4, <2>1, <2>2 DEF Subscribe
<1>5. ASSUME NEW c \in Clients, Deliver(c) PROVE IInv'
  <2> DEFINE q == client[c].queue
             g == client[c].got
             r == [client[c] EXCEPT !.got = Append(g, Head(q)),
                                    !.queue = Tail(q)]
  <2>1. /\ client[c] \in ClientRec /\ client[c].st = "live"
        /\ q \in Seq(Message) /\ g \in Seq(Message) /\ q # <<>>
    BY <1>5 DEF Deliver, IInv, TypeOK, ClientRec
  <2>2. Head(q) \in Message /\ Tail(q) \in Seq(Message)
    BY <2>1
  <2>3. Append(g, Head(q)) \in Seq(Message)
    BY <2>1, <2>2
  <2>4. Append(g, Head(q)) \o Tail(q) = g \o q
    BY <2>1, ConcatHead
  <2>5. /\ r \in ClientRec /\ r.st = "live" /\ r.topics = client[c].topics
        /\ r.got = Append(g, Head(q)) /\ r.queue = Tail(q)
        /\ r.due = client[c].due
    BY <2>1, <2>2, <2>3 DEF ClientRec
  <2>6. client' = [client EXCEPT ![c] = r]
    BY <1>5, <2>1 DEF Deliver, IInv, TypeOK, ClientRec
  <2>7. g \o q = client[c].due
    BY <2>1 DEF IInv, QueueInv
  <2> HIDE DEF r
  <2> QED
    BY <1>5, <2>1, <2>4, <2>5, <2>6, <2>7, OneClient DEF Deliver
<1>6. ASSUME NEW c \in Clients, Disconnect(c) PROVE IInv'
  <2> DEFINE r == [client[c] EXCEPT !.st = "gone", !.queue = <<>>]
  <2>1. r \in ClientRec /\ r.st = "gone"
    <3>1. client[c] \in ClientRec /\ <<>> \in Seq(Message)
      BY DEF IInv, TypeOK
    <3> QED
      BY <3>1 DEF ClientRec
  <2>2. client' = [client EXCEPT ![c] = r]
    BY <1>6 DEF Disconnect, IInv, TypeOK, ClientRec
  <2> HIDE DEF r
  <2> QED
    BY <1>6, <2>1, <2>2, OneClient DEF Disconnect
<1> QED
  BY <1>1, <1>2, <1>3, <1>4, <1>5, <1>6 DEF Next

-------------------------------------------------------------------------------

\* The inductive invariant holds in every reachable state.
THEOREM InvariantHolds == Spec => []IInv
  BY InitInv, StepInv, PTL DEF Spec

\* create_subscriber refuses a list with a topic a live subscriber has, and
\* run sends a message to the topic's entry: so for every set of clients a
\* live subscriber keeps its topics and gets each message of them once, in
\* order.
THEOREM OwnersGetTheirMessages == Spec => []OwnerGetsItsMessages
<1>1. ASSUME IInv PROVE OwnerGetsItsMessages
  BY <1>1
  DEF IInv, TypeOK, ClientRec, EntriesInv, QueueInv, OwnerGetsItsMessages
<1> QED
  BY <1>1, InvariantHolds, PTL
===============================================================================
