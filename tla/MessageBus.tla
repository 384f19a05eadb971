----------------------------- MODULE MessageBus -----------------------------
(***************************************************************************)
(* Instrumentation: the actions of the dispatching rules publish messages  *)
(* under a topic, the bus task of src/boltconn/src/instrument/bus.rs moves *)
(* them from a bounded channel to the topic's subscriber, and the web      *)
(* sockets of src/boltconn/src/external/instrument_server.rs subscribe.    *)
(* Topics in the table are not removed when their subscriber leaves; the   *)
(* next one to ask for them finds out.                                     *)
(***************************************************************************)
EXTENDS Naturals, Sequences, FiniteSets, SequencesExt

CONSTANTS Topics,           \* SubId
          Clients,          \* web sockets
          Requests,         \* the topic lists clients ask for, in order
          Capacity,         \* of the ingress channel (4096 in the code)
          MaxMessages,      \* bound: connections that match an action
          Nobody            \* no entry in egress_senders

ASSUME BusAssumption == /\ Capacity \in Nat \ {0} /\ MaxMessages \in Nat
                        /\ Requests \subseteq Seq(Topics)
                        /\ Nobody \notin Clients

VARIABLES ingress,          \* the ingress channel
          egress_senders,   \* Topics -> the client whose channel it is
          client,           \* the web sockets
          published         \* messages so far (history)

vars == <<ingress, egress_senders, client, published>>

\* A client's channel, what it was sent, and (history) what the bus took from
\* the ingress channel for its topics while it was subscribed.
NewClient == [st |-> "new", topics |-> {}, queue |-> <<>>, got |-> <<>>,
              due |-> <<>>]

Init == /\ ingress = <<>>
        /\ egress_senders = [t \in Topics |-> Nobody]
        /\ client = [c \in Clients |-> NewClient]
        /\ published = 0

IsDisconnected(c) == client[c].st # "live"

-------------------------------------------------------------------------------

\* FormattingObject: a template is formatted once when it is configured and
\* must not fail then, so that it never fails for a connection; the message
\* is a number here.
FormatMessage == published + 1

\* InstrumentAction::execute on a connection the rule matches, and publish:
\* the message is dropped when the channel is full.
Execute(topic) ==
  /\ published < MaxMessages
  /\ published' = FormatMessage
  /\ ingress' = IF Len(ingress) < Capacity
                THEN Append(ingress, [topic |-> topic, msg |-> FormatMessage])
                ELSE ingress
  /\ UNCHANGED <<egress_senders, client>>

\* MessageBus::run, one message: to the topic's sender, if there is one; the
\* send fails when the receiver is gone.
Run ==
  /\ ingress # <<>>
  /\ ingress' = Tail(ingress)
  /\ LET m  == Head(ingress)
         to == egress_senders[m.topic]
     IN  client' = [c \in Clients |->
           IF IsDisconnected(c) THEN client[c]
           ELSE [client[c] EXCEPT
                   !.queue = IF c = to THEN Append(@, m) ELSE @,
                   !.due = IF m.topic \in client[c].topics THEN Append(@, m)
                           ELSE @]]
  /\ UNCHANGED <<egress_senders, published>>

\* create_subscriber: the topics in order; one that a live subscriber has
\* refuses the request, after the dead ones before it were removed.
Taken(t) == egress_senders[t] # Nobody /\ ~IsDisconnected(egress_senders[t])
ConflictNever(topics) == {}
Conflict(topics) == {i \in DOMAIN topics : Taken(topics[i])}
CreateSubscriber(c, topics) ==
  LET hit == Conflict(topics)
      end == IF hit = {} THEN Len(topics)
             ELSE CHOOSE i \in hit : \A j \in hit : i <= j
      cleared == Range(SubSeq(topics, 1, end))
      removed == [t \in Topics |-> IF t \in cleared /\ ~Taken(t) THEN Nobody
                                   ELSE egress_senders[t]]
  IN  IF hit = {}
      THEN /\ egress_senders' = [t \in Topics |->
                IF t \in Range(topics) THEN c ELSE removed[t]]
           /\ client' = [client EXCEPT ![c].st = "live",
                                       ![c].topics = Range(topics)]
      ELSE /\ egress_senders' = removed
           /\ client' = [client EXCEPT ![c].st = "refused"]

\* subscribe: a wrong secret or an id that is no number is refused first.
Subscribe(c, topics) ==
  /\ client[c].st = "new"
  /\ \/ CreateSubscriber(c, topics)
     \/ client' = [client EXCEPT ![c].st = "refused"]
        /\ UNCHANGED egress_senders
  /\ UNCHANGED <<ingress, published>>

\* subscribe_inner: messages to the socket until the client disconnects, which
\* drops the receiver and what is queued.
Deliver(c) ==
  /\ client[c].st = "live" /\ client[c].queue # <<>>
  /\ client' = [client EXCEPT ![c].got = Append(@, Head(client[c].queue)),
                              ![c].queue = Tail(@)]
  /\ UNCHANGED <<ingress, egress_senders, published>>
Disconnect(c) ==
  /\ client[c].st = "live"
  /\ client' = [client EXCEPT ![c].st = "gone", ![c].queue = <<>>]
  /\ UNCHANGED <<ingress, egress_senders, published>>

Next == \/ \E t \in Topics : Execute(t)
        \/ Run
        \/ \E c \in Clients : \/ \E topics \in Requests : Subscribe(c, topics)
                              \/ Deliver(c)
                              \/ Disconnect(c)

Spec == Init /\ [][Next]_vars

-------------------------------------------------------------------------------
(* Properties.                                                               *)

\* "Returns None if any of the sub_ids already exists" (bus.rs:37): a live
\* subscriber keeps each of its topics, whoever else asks for it or for a list
\* with it, and so gets every message the bus takes from the channel for them,
\* in order and once.
OwnerGetsItsMessages ==
  \A c \in Clients :
    client[c].st = "live" =>
      /\ \A t \in client[c].topics : egress_senders[t] = c
      /\ client[c].got \o client[c].queue = client[c].due
===============================================================================
